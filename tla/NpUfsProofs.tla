---------------------------- MODULE NpUfsProofs ----------------------------
(***************************************************************************)
(* The properties of NpUfs, for any names, any finite set of fids, and any *)
(* number of inodes and descriptors: every descriptor has one owner and is *)
(* on the file its fid names; a file made with mapped ids carries all its  *)
(* attributes; and a restored connection shows what the old one did.       *)
(*                                                                         *)
(* The invariant, UfsInv, is in parts that speak of a tree, descriptors    *)
(* and fids given to them.  A handler's step is put together from changes  *)
(* of one of these (a name is entered, an entry is moved, a descriptor is  *)
(* opened, a fid goes to another path), and each change keeps Sound.  What *)
(* a path leads to after a change of the tree is shown by induction on the *)
(* length of the path (AllPaths).                                          *)
(***************************************************************************)
EXTENDS NpUfs, NpSeqs, FiniteSetTheorems, TLAPS
----------------------------------------------------------------------------
(* The types *)

\* Values of the variables.
Kinds == {"none", "file", "dir", "link", "node"}
Attrs == {"uid", "gid", "mode", "rdev"}
InodeT == [kind : Kinds, attrs : SUBSET Attrs, mode : Kinds, as : Kinds \cup {"host"}]
JobT == [k : {"no", "lcreate", "make", "set"}, path : Seq(UNames), as : Kinds, ino : 0..MaxInodes,
         left : Seq(Attrs)]
FidT == [used : BOOLEAN, path : Seq(UNames), omode : {"no", "read", "write"}, isdir : BOOLEAN,
         fd : 0..MaxFds, dir : 0..MaxFds, xa : {"none", "fetched", "raw", "full", "empty"},
         xname : BOOLEAN, job : JobT]
DirT == [UNames -> 0..MaxInodes]

\* The types of a tree, descriptors and fids.
Typed(es, io, ds, u) ==
    /\ es \in [Inodes -> DirT]
    /\ io \in [Inodes -> InodeT]
    /\ ds \in [Fds -> 0..MaxInodes]
    /\ u \in [UFids -> FidT]

\* Every variable has its type.
UfsTypeOK == mapped \in BOOLEAN /\ calm \in BOOLEAN /\ Typed(ents, ino, fds, uf)

----------------------------------------------------------------------------
(* The inductive invariant, of a tree es of inodes io, descriptors ds and  *)
(* fids u.  A handler's step is put together from changes of one of them,  *)
(* each of which keeps it.                                                 *)

\* What Follow is, whatever the directories hold.
FollowIn(es, path) ==
    LET at[k \in 0..Len(path)] ==
          IF k = 0 THEN HostRoot ELSE IF at[k - 1] = None THEN None ELSE es[at[k - 1]][path[k]]
    IN  at[Len(path)]

\* Inode i has a name, or a descriptor is open on it; what a fid holds; whether its
\* handler is making a file, or some handler makes inode i; what the server makes.
Named(es, i) == \E j \in Inodes, n \in UNames : es[j][n] = i
IsOpen(ds, i) == \E d \in Fds : ds[d] = i
HeldIn(f) == {f.fd, f.dir} \ {None}
AtWork(f) == f.job.k \in {"lcreate", "make"}
InWork(u, i) == \E x \in UFids : AtWork(u[x]) /\ u[x].job.ino = i
Ours == {"file", "link", "node", "dir"}

\* Only directories have entries, of inodes that are there.  A directory has one
\* name, and with mapped ids every file has.
Tree(mp, es, io) ==
    /\ io[HostRoot].kind = "dir" /\ io[HostRoot].as = "host"
    /\ \A i \in Inodes : io[i].kind = "none" => io[i] = NoInode
    /\ \A i \in Inodes, n \in UNames :
         es[i][n] # None => io[i].kind = "dir" /\ es[i][n] # HostRoot /\ io[es[i][n]].kind # "none"
    /\ \A i, j \in Inodes, n, m \in UNames :
         es[i][n] # None /\ es[i][n] = es[j][m] /\ (mp \/ io[es[i][n]].kind = "dir") => i = j /\ n = m

\* A directory without a name is empty.
Roots(es) == \A i \in Inodes : i # HostRoot /\ ~Named(es, i) => es[i] = NoEnts

\* An inode that is there has a name or a descriptor.
Kept(es, io, ds) == \A i \in Inodes : io[i].kind # "none" => i = HostRoot \/ Named(es, i) \/ IsOpen(ds, i)

\* A descriptor is held once, and what is held is open.
Descs(io, ds, u) ==
    /\ \A d \in Fds : ds[d] # None => io[ds[d]].kind # "none" /\ \E x \in UFids : d \in HeldIn(u[x])
    /\ \A x \in UFids :
         /\ u[x].fd # None => u[x].fd # u[x].dir
         /\ \A d \in HeldIn(u[x]) : ds[d] # None /\ \A y \in UFids : d \in HeldIn(u[y]) => y = x

\* What a fid has open is the file of its path, or the one Tlcreate is making, or
\* one Tcreate has left on the fid of a directory.
OnFile(mp, es, io, ds, f) ==
    \A d \in HeldIn(f) :
        IF f.job.k = "lcreate" THEN ds[d] = f.job.ino
        ELSE ds[d] = FollowIn(es, f.path) \/ (~mp /\ f.isdir /\ io[ds[d]].kind # "dir")

\* The file a handler is making, or whose type it sets, is still at the path, and
\* what it carries and what is left to set is all there is.
JobOn(mp, es, io, f) ==
    /\ f.job.k = "no" => f.job = NoJob
    /\ f.job.k # "no" => f.used /\ mp
    /\ AtWork(f) =>
         /\ f.job.path # <<>>
         /\ f.job.ino # None /\ FollowIn(es, f.job.path) = f.job.ino
         /\ es[f.job.ino] = NoEnts
         /\ f.job.as \in Ours /\ io[f.job.ino].as = f.job.as
         /\ io[f.job.ino].kind = IF f.job.as = "dir" THEN "dir" ELSE "file"
         /\ ToSet(Virtfs(f.job.as)) \subseteq io[f.job.ino].attrs \cup ToSet(f.job.left)
    /\ f.job.k = "lcreate" => f.job.as = "file" /\ f.fd # None /\ f.dir = None
    /\ f.job.k = "set" =>
         /\ FollowIn(es, f.job.path) # None
         /\ io[FollowIn(es, f.job.path)].as \in Ours => f.job.as = io[FollowIn(es, f.job.path)].as

\* A fid that is not used holds nothing.
Fids(mp, es, io, ds, u) ==
    \A x \in UFids : /\ ~u[x].used => u[x] = Unused
                     /\ OnFile(mp, es, io, ds, u[x])
                     /\ JobOn(mp, es, io, u[x])

\* No other request stands on the path of a file that is being made.
Apart(u) ==
    \A x, y \in UFids : AtWork(u[x]) =>
        /\ u[y].used => ~IsPrefix(u[x].job.path, u[y].path)
        /\ y # x /\ u[y].job.k # "no" => ~IsPrefix(u[x].job.path, u[y].job.path)

\* With mapped ids the type a file carries is its own; and it carries all, unless
\* it is being made, or nothing is left of it, or it is one of those in S.
Whole(mp, es, io, ds, u, S) ==
    mp => \A i \in Inodes : io[i].as \in Ours =>
        /\ "mode" \in io[i].attrs => io[i].mode = io[i].as
        /\ i \notin S /\ (Named(es, i) \/ IsOpen(ds, i)) /\ ~InWork(u, i)
             => ToSet(Virtfs(io[i].as)) \subseteq io[i].attrs

\* All of it.
Sound(mp, es, io, ds, u, S) ==
    /\ Tree(mp, es, io) /\ Roots(es)
    /\ Descs(io, ds, u) /\ Fids(mp, es, io, ds, u) /\ Apart(u)
    /\ Whole(mp, es, io, ds, u, S)

\* Nothing is known after a request that was not calm, but the types.
UfsInv ==
    /\ UfsTypeOK
    /\ calm => Sound(mapped, ents, ino, fds, uf, {}) /\ Kept(ents, ino, fds)

----------------------------------------------------------------------------
(* Paths *)

\* The first places of a way from the root.
WayTo(es, path, f, m) ==
    f = [k \in 0..m |-> IF k = 0 THEN HostRoot
                        ELSE IF f[k - 1] = None THEN None ELSE es[f[k - 1]][path[k]]]

\* Follow is FollowIn the host's directories, before a step and after it.
LEMMA FollowIs ==
    ASSUME NEW p
    PROVE  Follow(p) = FollowIn(ents, p)
BY DEF Follow, FollowIn

\* There is a way of every length.
LEMMA WayExists ==
    ASSUME NEW es, NEW path, NEW m \in Nat
    PROVE  \E f : WayTo(es, path, f, m)
<1>. DEFINE T == {k \in Nat : ~\E f : WayTo(es, path, f, k)}
<1>1. SUFFICES ASSUME T # {} PROVE FALSE
  OBVIOUS
<1>2. PICK k \in T : \A j \in T : k <= j
  BY <1>1, LeastNat
<1>3. CASE k = 0
  <2>1. WayTo(es, path, [j \in 0..0 |-> HostRoot], 0)
    BY DEF WayTo
  <2>. QED  BY <1>2, <1>3, <2>1
<1>4. CASE k # 0
  <2>1. k \in Nat /\ k - 1 \in Nat /\ ~(k <= k - 1)
    BY <1>2, <1>4
  <2>2. PICK f : WayTo(es, path, f, k - 1)
    BY <1>2, <2>1
  <2>. DEFINE g == [j \in 0..k |-> IF j < k THEN f[j]
                                   ELSE IF f[k - 1] = None THEN None ELSE es[f[k - 1]][path[k]]]
  <2>3. ASSUME NEW j \in 0..k
        PROVE  g[j] = IF j = 0 THEN HostRoot ELSE IF g[j - 1] = None THEN None ELSE es[g[j - 1]][path[j]]
    <3>1. CASE j = 0
      <4>1. f[0] = HostRoot
        BY <2>1, <2>2 DEF WayTo
      <4>. QED  BY <3>1, <4>1, <1>4, <2>1
    <3>2. CASE j # 0 /\ j < k
      <4>1. j \in 0..(k - 1) /\ j - 1 \in 0..k /\ j - 1 < k
        BY <2>1, <3>2
      <4>2. f[j] = IF f[j - 1] = None THEN None ELSE es[f[j - 1]][path[j]]
        BY <2>2, <3>2, <4>1 DEF WayTo
      <4>. QED  BY <3>2, <4>1, <4>2
    <3>3. CASE j = k
      <4>1. k - 1 \in 0..k /\ k - 1 < k /\ ~(k < k)
        BY <2>1
      <4>. QED  BY <1>4, <3>3, <4>1
    <3>4. j = 0 \/ (j # 0 /\ j < k) \/ j = k
      BY <2>1
    <3>. HIDE DEF g
    <3>. QED  BY <3>1, <3>2, <3>3, <3>4
  <2>4. g = [j \in 0..k |-> IF j = 0 THEN HostRoot ELSE IF g[j - 1] = None THEN None ELSE es[g[j - 1]][path[j]]]
    <3>. DEFINE h == [j \in 0..k |-> IF j = 0 THEN HostRoot ELSE IF g[j - 1] = None THEN None ELSE es[g[j - 1]][path[j]]]
    <3>1. \A j \in 0..k : g[j] = h[j]
      BY <2>3
    <3>2. DOMAIN g = 0..k /\ DOMAIN h = 0..k /\ g = [j \in 0..k |-> g[j]] /\ h = [j \in 0..k |-> h[j]]
      OBVIOUS
    <3>. HIDE DEF g, h
    <3>3. g = h
      BY <3>1, <3>2
    <3>. QED  BY <3>3 DEF h
  <2>5. WayTo(es, path, g, k)
    BY <2>4 DEF WayTo
  <2>. QED  BY <1>2, <2>5
<1>. QED  BY <1>3, <1>4

\* The way Follow takes is one.
LEMMA WayTaken ==
    ASSUME NEW es, NEW path, Len(path) \in Nat
    PROVE  \E f : WayTo(es, path, f, Len(path)) /\ FollowIn(es, path) = f[Len(path)]
<1>. DEFINE at == CHOOSE f : f = [k \in 0..Len(path) |-> IF k = 0 THEN HostRoot
                        ELSE IF f[k - 1] = None THEN None ELSE es[f[k - 1]][path[k]]]
<1>1. \E f : WayTo(es, path, f, Len(path))
  BY WayExists
<1>2. WayTo(es, path, at, Len(path))
  BY <1>1 DEF WayTo
<1>3. FollowIn(es, path) = at[Len(path)]
  BY DEF FollowIn
<1>. QED  BY <1>2, <1>3

\* Two ways along paths that begin alike are alike.
LEMMA WaysAlike ==
    ASSUME NEW es, NEW p, NEW q, NEW f, NEW g, NEW a \in Nat, NEW b \in Nat,
           WayTo(es, p, f, a), WayTo(es, q, g, b), a <= b,
           \A k \in 1..a : p[k] = q[k]
    PROVE  \A k \in 0..a : f[k] = g[k]
<1>. DEFINE T == {k \in 0..a : f[k] # g[k]}
<1>1. SUFFICES ASSUME T # {} PROVE FALSE
  OBVIOUS
<1>2. PICK k \in T : \A j \in T : k <= j
  <2>1. T \subseteq Nat
    OBVIOUS
  <2>. HIDE DEF T
  <2>. QED  BY <1>1, <2>1, LeastNat
<1>3. k \in 0..a /\ k \in 0..b /\ f[k] # g[k]
  BY <1>2
<1>4. CASE k = 0
  <2>1. f[0] = HostRoot /\ g[0] = HostRoot
    BY DEF WayTo
  <2>. QED  BY <1>3, <1>4, <2>1
<1>5. CASE k # 0
  <2>1. k - 1 \in 0..a /\ ~(k <= k - 1) /\ k \in 1..a
    BY <1>3, <1>5
  <2>2. f[k - 1] = g[k - 1] /\ p[k] = q[k]
    BY <1>2, <2>1
  <2>3. f[k] = IF f[k - 1] = None THEN None ELSE es[f[k - 1]][p[k]]
    BY <1>3, <1>5 DEF WayTo
  <2>4. g[k] = IF g[k - 1] = None THEN None ELSE es[g[k - 1]][q[k]]
    BY <1>3, <1>5 DEF WayTo
  <2>. QED  BY <1>3, <2>2, <2>3, <2>4
<1>. QED  BY <1>4, <1>5

\* The way to the root, and on by one name.
LEMMA FollowLaws ==
    ASSUME NEW es
    PROVE  /\ FollowIn(es, <<>>) = HostRoot
           /\ \A p \in Seq(UNames), n \in UNames :
                FollowIn(es, Append(p, n)) =
                  IF FollowIn(es, p) = None THEN None ELSE es[FollowIn(es, p)][n]
<1>1. FollowIn(es, <<>>) = HostRoot
  <2>1. PICK f : WayTo(es, <<>>, f, Len(<<>>)) /\ FollowIn(es, <<>>) = f[Len(<<>>)]
    BY WayTaken
  <2>2. Len(<<>>) = 0
    OBVIOUS
  <2>3. f[0] = HostRoot
    BY <2>1, <2>2 DEF WayTo
  <2>. QED  BY <2>1, <2>2, <2>3
<1>2. ASSUME NEW p \in Seq(UNames), NEW n \in UNames
      PROVE  FollowIn(es, Append(p, n)) = IF FollowIn(es, p) = None THEN None ELSE es[FollowIn(es, p)][n]
  <2>. DEFINE q == Append(p, n)
              m == Len(p)
  <2>1. m \in Nat /\ Len(q) = m + 1 /\ q[m + 1] = n /\ \A k \in 1..m : p[k] = q[k]
    BY AppendOf
  <2>. HIDE DEF q, m
  <2>2. PICK f : WayTo(es, p, f, m) /\ FollowIn(es, p) = f[m]
    BY <2>1, WayTaken DEF m
  <2>3. PICK g : WayTo(es, q, g, m + 1) /\ FollowIn(es, q) = g[m + 1]
    BY <2>1, WayTaken
  <2>4. m \in 0..m /\ m + 1 \in 0..(m + 1) /\ m + 1 # 0 /\ (m + 1) - 1 = m /\ m <= m + 1 /\ m + 1 \in Nat
    BY <2>1
  <2>5. f[m] = g[m]
    BY <2>1, <2>2, <2>3, <2>4, WaysAlike
  <2>6. g[m + 1] = IF g[(m + 1) - 1] = None THEN None ELSE es[g[(m + 1) - 1]][q[m + 1]]
    BY <2>3, <2>4 DEF WayTo
  <2>. QED  BY <2>1, <2>2, <2>3, <2>4, <2>5, <2>6 DEF q
<1>. QED  BY <1>1, <1>2
\* A path that is not the root's: the directory and the name.
LEMMA PathParts ==
    ASSUME NEW p \in Seq(UNames), p # <<>>
    PROVE  /\ Front(p) \in Seq(UNames) /\ Last(p) \in UNames /\ p = Append(Front(p), Last(p))
           /\ Len(p) \in Nat \ {0} /\ Len(Front(p)) = Len(p) - 1
<1>0. Len(p) \in Nat \ {0}
  OBVIOUS
<1>1. Len(p) \in Nat \ {0} /\ DOMAIN p = 1..Len(p) /\ \A k \in 1..Len(p) : p[k] \in UNames
  OBVIOUS
<1>2. Front(p) = [k \in 1..(Len(p) - 1) |-> p[k]] /\ Last(p) = p[Len(p)]
  BY <1>1 DEF Front, Last
<1>3. Front(p) \in Seq(UNames) /\ Len(Front(p)) = Len(p) - 1 /\ Last(p) \in UNames
  BY <1>1, <1>2
<1>4. /\ Append(Front(p), Last(p)) \in Seq(UNames)
      /\ Len(Append(Front(p), Last(p))) = Len(Front(p)) + 1
      /\ Append(Front(p), Last(p))[Len(Front(p)) + 1] = Last(p)
      /\ \A k \in 1..Len(Front(p)) : Append(Front(p), Last(p))[k] = Front(p)[k]
  BY <1>3, AppendOf
<1>5. ASSUME NEW k \in 1..Len(p) PROVE Append(Front(p), Last(p))[k] = p[k]
  <2>1. CASE k = Len(p)
    BY <1>1, <1>2, <1>3, <1>4, <2>1
  <2>2. CASE k # Len(p)
    <3>1. k \in 1..(Len(p) - 1)
      BY <1>0, <2>2
    <3>. QED  BY <1>2, <1>3, <1>4, <3>1
  <2>. QED  BY <2>1, <2>2
<1>6. p = Append(Front(p), Last(p))
  <2>1. Len(Append(Front(p), Last(p))) = Len(p)
    BY <1>1, <1>3, <1>4
  <2>. QED  BY <1>4, <1>5, <2>1, SeqEqual
<1>. QED  BY <1>1, <1>3, <1>6

\* Append tells its parts.
LEMMA AppendParts ==
    ASSUME NEW p \in Seq(UNames), NEW n \in UNames
    PROVE  /\ Append(p, n) \in Seq(UNames) /\ Append(p, n) # <<>>
           /\ Front(Append(p, n)) = p /\ Last(Append(p, n)) = n
           /\ \A q \in Seq(UNames), m \in UNames : Append(p, n) = Append(q, m) => p = q /\ n = m
<1>1. Append(p, n) \in Seq(UNames) /\ Append(p, n) # <<>>
  <2>1. Append(p, n) \in Seq(UNames) /\ Len(Append(p, n)) = Len(p) + 1 /\ Len(p) \in Nat
    BY AppendOf
  <2>2. Len(Append(p, n)) # 0 /\ Len(<<>>) = 0
    BY <2>1
  <2>. QED  BY <2>1, <2>2
<1>2. \A q \in Seq(UNames), m \in UNames : Append(p, n) = Append(q, m) => p = q /\ n = m
  BY AppendInjective
<1>3. Append(p, n) = Append(Front(Append(p, n)), Last(Append(p, n)))
      /\ Front(Append(p, n)) \in Seq(UNames) /\ Last(Append(p, n)) \in UNames
  BY <1>1, PathParts
<1>. QED  BY <1>1, <1>2, <1>3

\* One path stands on another, place by place.
LEMMA PrefixIs ==
    ASSUME NEW p \in Seq(UNames), NEW q \in Seq(UNames)
    PROVE  IsPrefix(p, q) <=> Len(p) <= Len(q) /\ \A k \in 1..Len(p) : p[k] = q[k]
<1>1. Len(p) \in Nat /\ Len(q) \in Nat
  OBVIOUS
<1>2. SubSeq(p, 1, Len(p)) = [k \in 1..Len(p) |-> p[k]]
  OBVIOUS
<1>3. ASSUME Len(p) <= Len(q) PROVE SubSeq(q, 1, Len(p)) = [k \in 1..Len(p) |-> q[k]]
  BY <1>1, <1>3
<1>4. [k \in 1..Len(p) |-> p[k]] = [k \in 1..Len(p) |-> q[k]] <=> \A k \in 1..Len(p) : p[k] = q[k]
  <2>. DEFINE f == [k \in 1..Len(p) |-> p[k]]
              g == [k \in 1..Len(p) |-> q[k]]
  <2>1. \A k \in 1..Len(p) : f[k] = p[k] /\ g[k] = q[k]
    OBVIOUS
  <2>2. (\A k \in 1..Len(p) : p[k] = q[k]) => f = g
    OBVIOUS
  <2>. HIDE DEF f, g
  <2>3. f = g => \A k \in 1..Len(p) : p[k] = q[k]
    BY <2>1
  <2>4. f = g <=> \A k \in 1..Len(p) : p[k] = q[k]
    BY <2>2, <2>3
  <2>. QED  BY <2>4 DEF f, g
<1>. QED  BY <1>2, <1>3, <1>4 DEF IsPrefix

\* What stands on what.
LEMMA PrefixLaws ==
    ASSUME NEW p \in Seq(UNames), NEW q \in Seq(UNames)
    PROVE  /\ IsPrefix(p, p)
           /\ IsPrefix(p, <<>>) => p = <<>>
           /\ \A n \in UNames : /\ IsPrefix(p, Append(q, n)) <=> p = Append(q, n) \/ IsPrefix(p, q)
                                /\ IsPrefix(Append(p, n), q) => IsPrefix(p, q)
                                /\ ~IsPrefix(Append(p, n), p)
           /\ IsPrefix(p, q) /\ IsPrefix(q, p) => p = q
<1>1. Len(p) \in Nat /\ Len(q) \in Nat /\ <<>> \in Seq(UNames) /\ Len(<<>>) = 0
  OBVIOUS
<1>2. IsPrefix(p, p)
  BY <1>1, PrefixIs
<1>3. IsPrefix(p, <<>>) => p = <<>>
  <2>1. IsPrefix(p, <<>>) => Len(p) <= 0
    BY <1>1, PrefixIs
  <2>2. Len(p) <= 0 => Len(p) = 0
    BY <1>1
  <2>3. Len(p) = 0 => p = <<>>
    BY EmptySeq
  <2>. QED  BY <2>1, <2>2, <2>3
<1>4. ASSUME NEW n \in UNames
      PROVE  IsPrefix(p, Append(q, n)) <=> p = Append(q, n) \/ IsPrefix(p, q)
  <2>1. /\ Append(q, n) \in Seq(UNames) /\ Len(Append(q, n)) = Len(q) + 1
        /\ \A k \in 1..Len(q) : Append(q, n)[k] = q[k]
    BY AppendOf
  <2>2. IsPrefix(p, Append(q, n)) <=> Len(p) <= Len(q) + 1 /\ \A k \in 1..Len(p) : p[k] = Append(q, n)[k]
    BY <2>1, PrefixIs
  <2>3. IsPrefix(p, q) <=> Len(p) <= Len(q) /\ \A k \in 1..Len(p) : p[k] = q[k]
    BY PrefixIs
  <2>4. CASE Len(p) <= Len(q)
    <3>1. 1..Len(p) \subseteq 1..Len(q) /\ p # Append(q, n)
      BY <1>1, <2>1, <2>4
    <3>2. (\A k \in 1..Len(p) : p[k] = Append(q, n)[k]) <=> \A k \in 1..Len(p) : p[k] = q[k]
      BY <2>1, <3>1
    <3>3. Len(p) <= Len(q) + 1
      BY <1>1, <2>4
    <3>. QED  BY <2>2, <2>3, <2>4, <3>1, <3>2, <3>3
  <2>5. CASE Len(p) = Len(q) + 1
    <3>1. Len(p) = Len(Append(q, n)) /\ ~(Len(p) <= Len(q)) /\ Len(p) <= Len(q) + 1
      BY <1>1, <2>1, <2>5
    <3>2. (\A k \in 1..Len(p) : p[k] = Append(q, n)[k]) => p = Append(q, n)
      BY <2>1, <3>1, SeqEqual
    <3>3. p = Append(q, n) => \A k \in 1..Len(p) : p[k] = Append(q, n)[k]
      OBVIOUS
    <3>. QED  BY <2>2, <2>3, <3>1, <3>2, <3>3
  <2>6. CASE Len(p) > Len(q) + 1
    <3>1. ~(Len(p) <= Len(q)) /\ ~(Len(p) <= Len(q) + 1) /\ p # Append(q, n)
      BY <1>1, <2>1, <2>6
    <3>. QED  BY <2>2, <2>3, <3>1
  <2>7. Len(p) <= Len(q) \/ Len(p) = Len(q) + 1 \/ Len(p) > Len(q) + 1
    BY <1>1
  <2>. QED  BY <2>4, <2>5, <2>6, <2>7
<1>5. ASSUME NEW n \in UNames
      PROVE  /\ IsPrefix(Append(p, n), q) => IsPrefix(p, q)
             /\ ~IsPrefix(Append(p, n), p)
  <2>1. /\ Append(p, n) \in Seq(UNames) /\ Len(Append(p, n)) = Len(p) + 1
        /\ \A k \in 1..Len(p) : Append(p, n)[k] = p[k]
    BY AppendOf
  <2>2. IsPrefix(Append(p, n), q) <=> Len(p) + 1 <= Len(q) /\ \A k \in 1..(Len(p) + 1) : Append(p, n)[k] = q[k]
    BY <2>1, PrefixIs
  <2>3. IsPrefix(Append(p, n), p) => Len(p) + 1 <= Len(p)
    BY <2>1, PrefixIs
  <2>4. 1..Len(p) \subseteq 1..(Len(p) + 1) /\ (Len(p) + 1 <= Len(q) => Len(p) <= Len(q)) /\ ~(Len(p) + 1 <= Len(p))
    BY <1>1
  <2>5. IsPrefix(p, q) <=> Len(p) <= Len(q) /\ \A k \in 1..Len(p) : p[k] = q[k]
    BY PrefixIs
  <2>6. ASSUME IsPrefix(Append(p, n), q) PROVE Len(p) <= Len(q) /\ \A k \in 1..Len(p) : p[k] = q[k]
    <3>1. Len(p) <= Len(q) /\ \A k \in 1..Len(p) : Append(p, n)[k] = q[k]
      BY <2>2, <2>4, <2>6
    <3>. QED  BY <2>1, <3>1
  <2>. QED  BY <2>3, <2>4, <2>5, <2>6
<1>6. ASSUME IsPrefix(p, q), IsPrefix(q, p) PROVE p = q
  <2>1. Len(p) <= Len(q) /\ Len(q) <= Len(p) /\ \A k \in 1..Len(p) : p[k] = q[k]
    BY <1>6, PrefixIs
  <2>2. Len(p) = Len(q)
    BY <1>1, <2>1
  <2>. QED  BY <2>1, <2>2, SeqEqual
<1>. QED  BY <1>2, <1>3, <1>4, <1>5, <1>6

----------------------------------------------------------------------------
(* The tree *)

\* A property of all paths: of the root's, and of a path's when its directory has it.
LEMMA AllPaths ==
    ASSUME NEW Bad, Bad \subseteq Seq(UNames), <<>> \notin Bad,
           \A p \in Seq(UNames), n \in UNames : Append(p, n) \in Bad => p \in Bad
    PROVE  Bad = {}
<1>. DEFINE T == {Len(p) : p \in Bad}
<1>1. SUFFICES ASSUME Bad # {} PROVE FALSE
  OBVIOUS
<1>2. T \subseteq Nat /\ T # {}
  <2>1. ASSUME NEW p \in Bad PROVE Len(p) \in Nat
    <3>1. p \in Seq(UNames)
      OBVIOUS
    <3>. QED  BY <3>1
  <2>2. T \subseteq Nat
    BY <2>1
  <2>3. T # {}
    <3>1. PICK p \in Bad : TRUE
      BY <1>1
    <3>2. Len(p) \in T
      OBVIOUS
    <3>. QED  BY <3>2
  <2>. QED  BY <2>2, <2>3
<1>3. PICK k \in T : \A j \in T : k <= j
  <2>. HIDE DEF T
  <2>. QED  BY <1>2, LeastNat
<1>4. PICK p \in Bad : Len(p) = k
  BY <1>3
<1>5. p \in Seq(UNames) /\ p # <<>>
  BY <1>4
<1>6. /\ Front(p) \in Seq(UNames) /\ Last(p) \in UNames /\ p = Append(Front(p), Last(p))
      /\ Len(p) \in Nat \ {0} /\ Len(Front(p)) = Len(p) - 1
  BY <1>5, PathParts
<1>7. Front(p) \in Bad
  BY <1>4, <1>6, ZenonT(40)
<1>8. Len(Front(p)) \in T
  BY <1>7
<1>9. Len(p) <= Len(Front(p))
  BY <1>3, <1>4, <1>8
<1>. QED  BY <1>6, <1>9

\* The inodes, and where a path leads.
LEMMA FollowType ==
    ASSUME NEW es \in [Inodes -> DirT], NEW p \in Seq(UNames)
    PROVE  /\ HostRoot \in Inodes /\ None \notin Inodes /\ HostRoot # None
           /\ \A i : i \in 0..MaxInodes <=> i = None \/ i \in Inodes
           /\ FollowIn(es, p) \in 0..MaxInodes
           /\ FollowIn(es, p) # None => FollowIn(es, p) \in Inodes
<1>1. /\ HostRoot \in Inodes /\ None \notin Inodes /\ HostRoot # None
      /\ \A i : i \in 0..MaxInodes <=> i = None \/ i \in Inodes
  BY NpUfsAssumption DEF HostRoot, Inodes, None
<1>. DEFINE Bad == {q \in Seq(UNames) : FollowIn(es, q) \notin 0..MaxInodes}
<1>2. <<>> \notin Bad
  BY <1>1, FollowLaws
<1>3. ASSUME NEW q \in Seq(UNames), NEW n \in UNames, Append(q, n) \in Bad
      PROVE  q \in Bad
  <2>1. FollowIn(es, Append(q, n)) = IF FollowIn(es, q) = None THEN None ELSE es[FollowIn(es, q)][n]
    BY FollowLaws
  <2>2. FollowIn(es, q) \in Inodes => es[FollowIn(es, q)][n] \in 0..MaxInodes
    BY DEF DirT
  <2>3. None \in 0..MaxInodes
    BY <1>1
  <2>. QED  BY <1>1, <1>3, <2>1, <2>2, <2>3
<1>4. Bad = {}
  <2>1. Bad \subseteq Seq(UNames)
    OBVIOUS
  <2>. HIDE DEF Bad
  <2>. QED  BY <1>2, <1>3, <2>1, AllPaths
<1>. QED  BY <1>1, <1>4

\* The last step of a way.
LEMMA LastStep ==
    ASSUME NEW es \in [Inodes -> DirT], NEW p \in Seq(UNames), p # <<>>, FollowIn(es, p) # None
    PROVE  /\ Front(p) \in Seq(UNames) /\ Last(p) \in UNames /\ p = Append(Front(p), Last(p))
           /\ FollowIn(es, p) \in Inodes /\ FollowIn(es, Front(p)) \in Inodes
           /\ FollowIn(es, Front(p)) # None
           /\ es[FollowIn(es, Front(p))][Last(p)] = FollowIn(es, p)
           /\ Named(es, FollowIn(es, p))
<1>1. Front(p) \in Seq(UNames) /\ Last(p) \in UNames /\ p = Append(Front(p), Last(p))
  BY PathParts
<1>2. FollowIn(es, Append(Front(p), Last(p))) =
        IF FollowIn(es, Front(p)) = None THEN None ELSE es[FollowIn(es, Front(p))][Last(p)]
  BY <1>1, FollowLaws
<1>3. FollowIn(es, p) = IF FollowIn(es, Front(p)) = None THEN None ELSE es[FollowIn(es, Front(p))][Last(p)]
  BY <1>1, <1>2
<1>4. FollowIn(es, Front(p)) # None /\ es[FollowIn(es, Front(p))][Last(p)] = FollowIn(es, p)
  BY <1>3
<1>5. FollowIn(es, p) \in Inodes /\ FollowIn(es, Front(p)) \in Inodes
  BY <1>1, <1>4, FollowType
<1>. QED  BY <1>1, <1>4, <1>5 DEF Named

\* A directory, and with mapped ids every file, is reached by one path.
LEMMA SolePath ==
    ASSUME NEW mp, NEW es \in [Inodes -> DirT], NEW io \in [Inodes -> InodeT], Tree(mp, es, io),
           NEW p \in Seq(UNames), NEW q \in Seq(UNames),
           FollowIn(es, p) = FollowIn(es, q), FollowIn(es, p) # None,
           mp \/ io[FollowIn(es, p)].kind = "dir"
    PROVE  p = q
<1>. DEFINE Bad == {r \in Seq(UNames) :
                      \E s \in Seq(UNames) : /\ r # s /\ FollowIn(es, r) = FollowIn(es, s)
                                             /\ FollowIn(es, r) # None
                                             /\ mp \/ io[FollowIn(es, r)].kind = "dir"}
<1>1. ASSUME NEW r \in Seq(UNames), r # <<>>
      PROVE  FollowIn(es, r) # HostRoot
  <2>1. CASE FollowIn(es, r) = None
    BY <2>1, FollowType
  <2>2. CASE FollowIn(es, r) # None
    <3>1. /\ Last(r) \in UNames /\ FollowIn(es, Front(r)) \in Inodes
          /\ es[FollowIn(es, Front(r))][Last(r)] = FollowIn(es, r)
      BY <1>1, <2>2, LastStep
    <3>. QED  BY <2>2, <3>1 DEF Tree
  <2>. QED  BY <2>1, <2>2
<1>2. <<>> \notin Bad
  <2>1. FollowIn(es, <<>>) = HostRoot
    BY FollowLaws
  <2>2. ASSUME NEW s \in Seq(UNames), <<>> # s PROVE FollowIn(es, <<>>) # FollowIn(es, s)
    BY <1>1, <2>1, <2>2
  <2>. QED  BY <2>2
<1>3. ASSUME NEW r \in Seq(UNames), NEW n \in UNames, Append(r, n) \in Bad
      PROVE  r \in Bad
  <2>. DEFINE t == Append(r, n)
  <2>1. t \in Seq(UNames) /\ t # <<>> /\ Front(t) = r /\ Last(t) = n
    BY AppendParts
  <2>2. PICK s \in Seq(UNames) : /\ t # s /\ FollowIn(es, t) = FollowIn(es, s)
                                 /\ FollowIn(es, t) # None
                                 /\ mp \/ io[FollowIn(es, t)].kind = "dir"
    BY <1>3
  <2>. HIDE DEF t
  <2>3. s # <<>>
    <3>1. FollowIn(es, <<>>) = HostRoot
      BY FollowLaws
    <3>. QED  BY <1>1, <2>1, <2>2, <3>1
  <2>4. /\ FollowIn(es, t) \in Inodes /\ FollowIn(es, r) \in Inodes /\ FollowIn(es, r) # None
        /\ es[FollowIn(es, r)][n] = FollowIn(es, t) /\ t = Append(r, n)
    BY <2>1, <2>2, LastStep
  <2>5. /\ Front(s) \in Seq(UNames) /\ Last(s) \in UNames /\ s = Append(Front(s), Last(s))
        /\ FollowIn(es, Front(s)) \in Inodes
        /\ es[FollowIn(es, Front(s))][Last(s)] = FollowIn(es, s)
    BY <2>2, <2>3, LastStep
  <2>6. FollowIn(es, r) = FollowIn(es, Front(s)) /\ n = Last(s)
    BY <2>2, <2>4, <2>5 DEF Tree
  <2>7. r # Front(s)
    BY <2>2, <2>4, <2>5, <2>6
  <2>8. io[FollowIn(es, r)].kind = "dir"
    BY <2>2, <2>4 DEF Tree
  <2>. QED  BY <2>4, <2>5, <2>6, <2>7, <2>8
<1>4. Bad = {}
  <2>1. Bad \subseteq Seq(UNames)
    OBVIOUS
  <2>. HIDE DEF Bad
  <2>. QED  BY <1>2, <1>3, <2>1, AllPaths
<1>. QED  BY <1>4

\* The entry of name n in directory d becomes v.
Rewritten(es, es2, d, n, v) ==
    \A i \in Inodes, m \in UNames : es2[i][m] = IF i = d /\ m = n THEN v ELSE es[i][m]

\* What EXCEPT makes of the entries.
LEMMA RewrittenIs ==
    ASSUME NEW es \in [Inodes -> DirT], NEW d \in Inodes, NEW n \in UNames, NEW v \in 0..MaxInodes
    PROVE  /\ [es EXCEPT ![d][n] = v] \in [Inodes -> DirT]
           /\ Rewritten(es, [es EXCEPT ![d][n] = v], d, n, v)
BY DEF DirT, Rewritten

\* Paths that do not stand on p lead where they did.
SameBut(es, es2, p) == \A q \in Seq(UNames) : ~IsPrefix(p, q) => FollowIn(es2, q) = FollowIn(es, q)

\* A name that changes in a directory changes where the paths through it lead, and no other.
LEMMA Changed ==
    ASSUME NEW mp, NEW es \in [Inodes -> DirT], NEW io \in [Inodes -> InodeT], Tree(mp, es, io),
           NEW p \in Seq(UNames), NEW n \in UNames, NEW v \in 0..MaxInodes,
           FollowIn(es, p) # None, io[FollowIn(es, p)].kind = "dir",
           NEW es2 \in [Inodes -> DirT], Rewritten(es, es2, FollowIn(es, p), n, v)
    PROVE  /\ SameBut(es, es2, Append(p, n))
           /\ FollowIn(es2, Append(p, n)) = v
<1>0. FollowIn(es, p) \in Inodes
  BY FollowType
<1>1. \A i \in Inodes, m \in UNames :
           es2[i][m] = IF i = FollowIn(es, p) /\ m = n THEN v ELSE es[i][m]
  BY DEF Rewritten
<1>. DEFINE Bad == {q \in Seq(UNames) : ~IsPrefix(Append(p, n), q) /\ FollowIn(es2, q) # FollowIn(es, q)}
<1>2. <<>> \notin Bad
  BY FollowLaws
<1>3. ASSUME NEW q \in Seq(UNames), NEW m \in UNames, Append(q, m) \in Bad
      PROVE  q \in Bad
  <2>1. Append(p, n) \in Seq(UNames)
    BY AppendParts
  <2>2. ~IsPrefix(Append(p, n), q) /\ Append(p, n) # Append(q, m)
    <3>1. IsPrefix(Append(p, n), Append(q, m)) <=> Append(p, n) = Append(q, m) \/ IsPrefix(Append(p, n), q)
      BY <2>1, PrefixLaws
    <3>. QED  BY <1>3, <3>1
  <2>3. /\ FollowIn(es, Append(q, m)) = IF FollowIn(es, q) = None THEN None ELSE es[FollowIn(es, q)][m]
        /\ FollowIn(es2, Append(q, m)) = IF FollowIn(es2, q) = None THEN None ELSE es2[FollowIn(es2, q)][m]
    BY FollowLaws, Zenon
  <2>4. SUFFICES ASSUME FollowIn(es2, q) = FollowIn(es, q) PROVE FALSE
    BY <2>2
  <2>5. FollowIn(es, q) # None /\ es[FollowIn(es, q)][m] # es2[FollowIn(es, q)][m]
    BY <1>3, <2>3, <2>4
  <2>6. FollowIn(es, q) \in Inodes
    BY <2>5, FollowType
  <2>7. FollowIn(es, q) = FollowIn(es, p) /\ m = n
    BY <1>1, <2>5, <2>6
  <2>8. q = p
    BY <2>5, <2>7, SolePath
  <2>. QED  BY <2>2, <2>7, <2>8
<1>4. Bad = {}
  <2>1. Bad \subseteq Seq(UNames)
    OBVIOUS
  <2>. HIDE DEF Bad
  <2>. QED  BY <1>2, <1>3, <2>1, AllPaths
<1>5. FollowIn(es2, Append(p, n)) = v
  <2>1. FollowIn(es2, Append(p, n)) = IF FollowIn(es2, p) = None THEN None ELSE es2[FollowIn(es2, p)][n]
    BY FollowLaws, Zenon
  <2>2. FollowIn(es2, p) = FollowIn(es, p)
    <3>1. ~IsPrefix(Append(p, n), p)
      BY PrefixLaws
    <3>. QED  BY <1>4, <3>1
  <2>. QED  BY <1>0, <1>1, <2>1, <2>2
<1>6. SameBut(es, es2, Append(p, n))
  BY <1>4 DEF SameBut
<1>. QED  BY <1>5, <1>6

----------------------------------------------------------------------------
(* What one change leaves of the invariant *)

\* The descriptors of a fid.
LEMMA HeldIs ==
    ASSUME NEW f \in FidT
    PROVE  /\ HeldIn(f) \subseteq Fds
           /\ \A d : d \in HeldIn(f) <=> d # None /\ (d = f.fd \/ d = f.dir)
BY NpUfsAssumption DEF HeldIn, FidT, Fds, None

\* A record of a job is one of these.
LEMMA JobKinds ==
    ASSUME NEW f \in FidT
    PROVE  /\ f.job.k \in {"no", "lcreate", "make", "set"}
           /\ f.path \in Seq(UNames) /\ f.job.path \in Seq(UNames) /\ f.job.ino \in 0..MaxInodes
           /\ f.job = NoJob => f.job.k = "no" /\ ~AtWork(f)
           /\ f.job.k = "no" => ~AtWork(f)
BY DEF FidT, JobT, AtWork, NoJob

\* All fids but x stay.
Others(u, u2, x) == \A y \in UFids \ {x} : u2[y] = u[y]

\* A fid without a job changes: its descriptors stay, and its path if it has one.
LEMMA FidMoves ==
    ASSUME NEW mp, NEW es, NEW io, NEW ds, NEW u, Typed(es, io, ds, u), NEW S,
           Sound(mp, es, io, ds, u, S),
           NEW x \in UFids, NEW u2 \in [UFids -> FidT], Others(u, u2, x),
           u[x].job = NoJob, u2[x].job = NoJob, u2[x].used,
           u2[x].fd = u[x].fd, u2[x].dir = u[x].dir,
           HeldIn(u[x]) = {} \/ (u2[x].path = u[x].path /\ u2[x].isdir = u[x].isdir),
           \A y \in UFids : AtWork(u[y]) => ~IsPrefix(u[y].job.path, u2[x].path)
    PROVE  Sound(mp, es, io, ds, u2, S)
<1>1. \A y \in UFids : u[y] \in FidT /\ u2[y] \in FidT
  BY DEF Typed
<1>2. \A y \in UFids : HeldIn(u2[y]) = HeldIn(u[y]) /\ u2[y].job = u[y].job /\ u2[y].fd = u[y].fd /\ u2[y].dir = u[y].dir
  BY DEF HeldIn, Others
<1>3. \A y \in UFids : AtWork(u2[y]) <=> AtWork(u[y])
  BY <1>2 DEF AtWork
<1>4. ~AtWork(u[x]) /\ ~AtWork(u2[x]) /\ u2[x].job.k = "no"
  BY <1>1, JobKinds
<1>5. Descs(io, ds, u2)
  <2>1. Descs(io, ds, u)
    BY DEF Sound
  <2>2. ASSUME NEW d \in Fds, ds[d] # None PROVE io[ds[d]].kind # "none" /\ \E y \in UFids : d \in HeldIn(u2[y])
    BY <1>2, <2>1, <2>2 DEF Descs
  <2>3. ASSUME NEW y \in UFids
        PROVE  /\ u2[y].fd # None => u2[y].fd # u2[y].dir
               /\ \A d \in HeldIn(u2[y]) : ds[d] # None /\ \A z \in UFids : d \in HeldIn(u2[z]) => z = y
    <3>1. /\ u[y].fd # None => u[y].fd # u[y].dir
          /\ \A d \in HeldIn(u[y]) : ds[d] # None /\ \A z \in UFids : d \in HeldIn(u[z]) => z = y
      BY <2>1 DEF Descs
    <3>. QED  BY <1>2, <3>1, Zenon
  <2>. QED  BY <2>2, <2>3 DEF Descs
<1>6. Fids(mp, es, io, ds, u2)
  <2>1. ASSUME NEW y \in UFids, y # x
        PROVE  (~u2[y].used => u2[y] = Unused) /\ OnFile(mp, es, io, ds, u2[y]) /\ JobOn(mp, es, io, u2[y])
    BY <2>1 DEF Sound, Fids, Others
  <2>2. OnFile(mp, es, io, ds, u2[x])
    <3>1. CASE HeldIn(u[x]) = {}
      BY <1>2, <3>1 DEF OnFile
    <3>2. CASE u2[x].path = u[x].path /\ u2[x].isdir = u[x].isdir
      <4>1. OnFile(mp, es, io, ds, u[x])
        BY DEF Sound, Fids
      <4>. QED  BY <1>2, <3>2, <4>1 DEF OnFile
    <3>. QED  BY <3>1, <3>2
  <2>3. JobOn(mp, es, io, u2[x])
    BY <1>4 DEF JobOn
  <2>. QED  BY <2>1, <2>2, <2>3 DEF Fids
<1>7. Apart(u2)
  <2>1. ASSUME NEW y \in UFids, NEW z \in UFids, AtWork(u2[y])
        PROVE  /\ u2[z].used => ~IsPrefix(u2[y].job.path, u2[z].path)
               /\ z # y /\ u2[z].job.k # "no" => ~IsPrefix(u2[y].job.path, u2[z].job.path)
    <3>1. AtWork(u[y]) /\ y # x /\ u2[y] = u[y]
      BY <1>3, <1>4, <2>1 DEF Others
    <3>2. CASE z = x
      BY <1>4, <3>1, <3>2
    <3>3. CASE z # x
      <4>1. u2[z] = u[z] /\ Apart(u)
        BY <3>3 DEF Others, Sound
      <4>. QED  BY <3>1, <4>1 DEF Apart
    <3>. QED  BY <3>2, <3>3
  <2>. QED  BY <2>1 DEF Apart
<1>8. Whole(mp, es, io, ds, u2, S)
  <2>1. \A i : InWork(u2, i) <=> InWork(u, i)
    BY <1>2, <1>3 DEF InWork
  <2>. QED  BY <2>1 DEF Sound, Whole
<1>. QED  BY <1>5, <1>6, <1>7, <1>8 DEF Sound

\* The host makes an inode, which has no name yet.
LEMMA InodeMade ==
    ASSUME NEW mp, NEW es, NEW io, NEW ds, NEW u, Typed(es, io, ds, u), NEW S,
           Sound(mp, es, io, ds, u, S),
           NEW i \in Inodes, io[i].kind = "none",
           NEW io2 \in [Inodes -> InodeT], \A j \in Inodes \ {i} : io2[j] = io[j],
           io2[i].kind # "none", io2[i].attrs = {}
    PROVE  /\ Sound(mp, es, io2, ds, u, S)
           /\ i # HostRoot /\ i # None /\ ~Named(es, i) /\ ~IsOpen(ds, i) /\ es[i] = NoEnts
           /\ \A y \in UFids : AtWork(u[y]) => u[y].job.ino # i
<1>1. \A y \in UFids : u[y] \in FidT
  BY DEF Typed
<1>2. Tree(mp, es, io) /\ Roots(es) /\ Descs(io, ds, u) /\ Fids(mp, es, io, ds, u) /\ Apart(u) /\ Whole(mp, es, io, ds, u, S)
  BY DEF Sound
<1>3. i # HostRoot /\ i # None /\ ~Named(es, i) /\ ~IsOpen(ds, i)
  <2>1. i # HostRoot /\ i # None
    BY <1>2 DEF Tree, Inodes, None
  <2>2. ~Named(es, i)
    BY <1>2, <2>1 DEF Tree, Named
  <2>3. ~IsOpen(ds, i)
    BY <1>2, <2>1 DEF Descs, IsOpen
  <2>. QED  BY <2>1, <2>2, <2>3
<1>4. es[i] = NoEnts
  BY <1>2, <1>3 DEF Roots
<1>5. ASSUME NEW p \in Seq(UNames) PROVE FollowIn(es, p) # i
  <2>1. CASE p = <<>>
    BY <1>3, <2>1, FollowLaws
  <2>2. CASE p # <<>>
    BY <1>3, <2>2, LastStep DEF Typed
  <2>. QED  BY <2>1, <2>2
<1>6. \A y \in UFids : AtWork(u[y]) => u[y].job.ino # i
  BY <1>1, <1>2, <1>5, JobKinds DEF Fids, JobOn
<1>7. Tree(mp, es, io2)
  <2>1. HostRoot \in Inodes
    BY NpUfsAssumption DEF Inodes, HostRoot
  <2>2. ASSUME NEW j \in Inodes, NEW n \in UNames, es[j][n] # None
        PROVE  j # i /\ es[j][n] # i /\ es[j][n] \in Inodes /\ io2[j] = io[j] /\ io2[es[j][n]] = io[es[j][n]]
    <3>1. j # i
      BY <1>4, <2>2 DEF NoEnts
    <3>2. es[j][n] # i /\ es[j][n] \in Inodes
      BY <1>3, <2>2 DEF Named, Typed, DirT, Inodes, None
    <3>. QED  BY <3>1, <3>2
  <2>3. \A j \in Inodes : io2[j].kind = "none" => io2[j] = NoInode
    BY <1>2 DEF Tree
  <2>4. \A j \in Inodes, n \in UNames :
           es[j][n] # None => io2[j].kind = "dir" /\ es[j][n] # HostRoot /\ io2[es[j][n]].kind # "none"
    BY <1>2, <2>2 DEF Tree
  <2>5. \A j, k \in Inodes, n, m \in UNames :
           es[j][n] # None /\ es[j][n] = es[k][m] /\ (mp \/ io2[es[j][n]].kind = "dir") => j = k /\ n = m
    BY <1>2, <2>2 DEF Tree
  <2>6. io2[HostRoot] = io[HostRoot]
    BY <1>3, <2>1
  <2>. QED  BY <1>2, <2>3, <2>4, <2>5, <2>6 DEF Tree
<1>8. Descs(io2, ds, u)
  <2>1. ASSUME NEW d \in Fds, ds[d] # None PROVE io2[ds[d]] = io[ds[d]]
    <3>1. ds[d] \in Inodes /\ ds[d] # i
      BY <1>3, <2>1 DEF IsOpen, Typed, Inodes, None
    <3>. QED  BY <3>1
  <2>. QED  BY <1>2, <2>1 DEF Descs
<1>9. Fids(mp, es, io2, ds, u)
  <2>1. ASSUME NEW y \in UFids
        PROVE  OnFile(mp, es, io2, ds, u[y]) /\ JobOn(mp, es, io2, u[y])
    <3>1. OnFile(mp, es, io, ds, u[y]) /\ JobOn(mp, es, io, u[y])
      BY <1>2 DEF Fids
    <3>2. OnFile(mp, es, io2, ds, u[y])
      <4>1. ASSUME NEW d \in HeldIn(u[y]) PROVE io2[ds[d]] = io[ds[d]]
        <5>1. d \in Fds /\ ds[d] # None
          BY <1>1, <1>2, HeldIs DEF Descs
        <5>2. ds[d] \in Inodes /\ ds[d] # i
          BY <1>3, <5>1 DEF IsOpen, Typed, Inodes, None
        <5>. QED  BY <5>2
      <4>. QED  BY <3>1, <4>1 DEF OnFile
    <3>3. JobOn(mp, es, io2, u[y])
      <4>1. AtWork(u[y]) => io2[u[y].job.ino] = io[u[y].job.ino]
        <5>1. AtWork(u[y]) => u[y].job.ino # None /\ u[y].job.ino \in 0..MaxInodes /\ u[y].job.ino # i
          BY <1>1, <1>6, <3>1, JobKinds DEF JobOn
        <5>. QED  BY <5>1 DEF Inodes, None
      <4>2. u[y].job.k = "set" => io2[FollowIn(es, u[y].job.path)] = io[FollowIn(es, u[y].job.path)]
        <5>1. u[y].job.path \in Seq(UNames)
          BY <1>1, JobKinds
        <5>2. u[y].job.k = "set" => FollowIn(es, u[y].job.path) \in Inodes
          BY <3>1, <5>1, FollowType DEF JobOn, Typed
        <5>. QED  BY <1>5, <5>1, <5>2
      <4>. QED  BY <3>1, <4>1, <4>2 DEF JobOn
    <3>. QED  BY <3>2, <3>3
  <2>. QED  BY <1>2, <2>1 DEF Fids
<1>10. Whole(mp, es, io2, ds, u, S)
  <2>1. SUFFICES ASSUME mp, NEW j \in Inodes, io2[j].as \in Ours
                 PROVE  /\ "mode" \in io2[j].attrs => io2[j].mode = io2[j].as
                        /\ j \notin S /\ (Named(es, j) \/ IsOpen(ds, j)) /\ ~InWork(u, j)
                              => ToSet(Virtfs(io2[j].as)) \subseteq io2[j].attrs
    BY DEF Whole
  <2>2. CASE j = i
    BY <1>3, <2>2
  <2>3. CASE j # i
    BY <1>2, <2>1, <2>3 DEF Whole
  <2>. QED  BY <2>2, <2>3
<1>. QED  BY <1>2, <1>3, <1>4, <1>6, <1>7, <1>8, <1>9, <1>10 DEF Sound

\* Names change, and paths with them, but every request is still on its file.
LEMMA Rewired ==
    ASSUME NEW mp, NEW es, NEW io, NEW ds, NEW u, Typed(es, io, ds, u), NEW S,
           Sound(mp, es, io, ds, u, S),
           NEW es2, NEW u2, Typed(es2, io, ds, u2), NEW S2, S \subseteq S2,
           Tree(mp, es2, io), Roots(es2),
           \A y \in UFids : /\ u2[y].job = u[y].job /\ u2[y].used = u[y].used /\ u2[y].isdir = u[y].isdir
                            /\ u2[y].fd = u[y].fd /\ u2[y].dir = u[y].dir
                            /\ ~u[y].used => u2[y] = u[y],
           \A y \in UFids : u[y].used => FollowIn(es2, u2[y].path) = FollowIn(es, u[y].path),
           \A y \in UFids : u[y].job.k # "no" => FollowIn(es2, u[y].job.path) = FollowIn(es, u[y].job.path),
           \A y \in UFids : AtWork(u[y]) => es2[u[y].job.ino] = NoEnts,
           \A y, z \in UFids : AtWork(u[y]) /\ u[z].used => ~IsPrefix(u[y].job.path, u2[z].path),
           \A i \in Inodes : mp /\ Named(es2, i) => i \in S2 \/ Named(es, i)
    PROVE  Sound(mp, es2, io, ds, u2, S2)
<1>1. \A y \in UFids : u[y] \in FidT /\ u2[y] \in FidT
  BY DEF Typed
<1>2. Descs(io, ds, u) /\ Fids(mp, es, io, ds, u) /\ Apart(u) /\ Whole(mp, es, io, ds, u, S)
  BY DEF Sound
<1>3. \A y \in UFids : HeldIn(u2[y]) = HeldIn(u[y]) /\ (AtWork(u2[y]) <=> AtWork(u[y]))
  BY DEF HeldIn, AtWork
<1>4. Descs(io, ds, u2)
  <2>1. ASSUME NEW d \in Fds, ds[d] # None PROVE io[ds[d]].kind # "none" /\ \E y \in UFids : d \in HeldIn(u2[y])
    BY <1>2, <1>3, <2>1 DEF Descs
  <2>2. ASSUME NEW y \in UFids
        PROVE  /\ u2[y].fd # None => u2[y].fd # u2[y].dir
               /\ \A d \in HeldIn(u2[y]) : ds[d] # None /\ \A z \in UFids : d \in HeldIn(u2[z]) => z = y
    <3>1. /\ u[y].fd # None => u[y].fd # u[y].dir
          /\ \A d \in HeldIn(u[y]) : ds[d] # None /\ \A z \in UFids : d \in HeldIn(u[z]) => z = y
      BY <1>2 DEF Descs
    <3>. QED  BY <1>3, <3>1, Zenon
  <2>. QED  BY <2>1, <2>2 DEF Descs
<1>5. Fids(mp, es2, io, ds, u2)
  <2>1. ASSUME NEW y \in UFids
        PROVE  /\ ~u2[y].used => u2[y] = Unused
               /\ OnFile(mp, es2, io, ds, u2[y])
               /\ JobOn(mp, es2, io, u2[y])
    <3>1. (~u[y].used => u[y] = Unused) /\ OnFile(mp, es, io, ds, u[y]) /\ JobOn(mp, es, io, u[y])
      BY <1>2 DEF Fids
    <3>2. OnFile(mp, es2, io, ds, u2[y])
      <4>1. CASE u[y].used
        <5>1. FollowIn(es2, u2[y].path) = FollowIn(es, u[y].path)
          BY <4>1
        <5>. QED  BY <1>3, <3>1, <5>1 DEF OnFile
      <4>2. CASE ~u[y].used
        <5>1. u[y] = Unused
          BY <3>1, <4>2
        <5>2. HeldIn(u2[y]) = {}
          BY <1>3, <5>1 DEF HeldIn, Unused, UfsFid
        <5>. QED  BY <5>2 DEF OnFile
      <4>. QED  BY <4>1, <4>2
    <3>3. JobOn(mp, es2, io, u2[y])
      <4>1. u[y].job.k # "no" => FollowIn(es2, u[y].job.path) = FollowIn(es, u[y].job.path)
        OBVIOUS
      <4>2. AtWork(u[y]) => u[y].job.k # "no"
        BY DEF AtWork
      <4>. QED  BY <1>3, <3>1, <4>1, <4>2 DEF JobOn
    <3>. QED  BY <3>1, <3>2, <3>3
  <2>. QED  BY <2>1 DEF Fids
<1>6. Apart(u2)
  <2>1. ASSUME NEW y \in UFids, NEW z \in UFids, AtWork(u2[y])
        PROVE  /\ u2[z].used => ~IsPrefix(u2[y].job.path, u2[z].path)
               /\ z # y /\ u2[z].job.k # "no" => ~IsPrefix(u2[y].job.path, u2[z].job.path)
    <3>1. AtWork(u[y]) /\ u2[y].job = u[y].job /\ u2[z].job = u[z].job /\ u2[z].used = u[z].used
      BY <1>3, <2>1
    <3>. QED  BY <1>2, <3>1 DEF Apart
  <2>. QED  BY <2>1 DEF Apart
<1>7. Whole(mp, es2, io, ds, u2, S2)
  <2>1. \A i : InWork(u2, i) <=> InWork(u, i)
    BY <1>3 DEF InWork
  <2>. QED  BY <1>2, <2>1 DEF Whole
<1>. QED  BY <1>4, <1>5, <1>6, <1>7 DEF Sound

\* Directories other than the one that is written keep their entries.
LEMMA Untouched ==
    ASSUME NEW es \in [Inodes -> DirT], NEW es2 \in [Inodes -> DirT], NEW d, NEW n, NEW v,
           Rewritten(es, es2, d, n, v)
    PROVE  \A i \in Inodes \ {d} : es2[i] = es[i]
<1>1. ASSUME NEW i \in Inodes \ {d} PROVE es2[i] = es[i]
  <2>1. \A m \in UNames : es2[i][m] = es[i][m]
    BY DEF Rewritten
  <2>2. es[i] \in DirT /\ es2[i] \in DirT
    OBVIOUS
  <2>. QED  BY <2>1, <2>2 DEF DirT
<1>. QED  BY <1>1

\* A file that is being made is not at another path, if it is a directory.
LEMMA WorkElsewhere ==
    ASSUME NEW mp, NEW es, NEW io, NEW ds, NEW u, Typed(es, io, ds, u), NEW S,
           Sound(mp, es, io, ds, u, S),
           NEW y \in UFids, AtWork(u[y]), NEW p \in Seq(UNames), u[y].job.path # p
    PROVE  u[y].job.ino # FollowIn(es, p)
<1>1. u[y] \in FidT /\ JobOn(mp, es, io, u[y]) /\ Tree(mp, es, io)
  BY DEF Typed, Sound, Fids
<1>2. /\ u[y].job.path \in Seq(UNames) /\ u[y].job.ino # None /\ mp
      /\ FollowIn(es, u[y].job.path) = u[y].job.ino
  BY <1>1 DEF JobOn, AtWork, FidT, JobT
<1>. QED  BY <1>1, <1>2, SolePath DEF Typed

\* No request stands on the path or passes through it.
Vacant(u, p) ==
    \A y \in UFids : /\ u[y].used => ~IsPrefix(p, u[y].path)
                     /\ u[y].job.k # "no" => ~IsPrefix(p, u[y].job.path)

\* The path is a directory's.
IsDir(es, io, p) == FollowIn(es, p) # None /\ io[FollowIn(es, p)].kind = "dir"

\* The entries with a new one.
LEMMA EntryMade ==
    ASSUME NEW es \in [Inodes -> DirT], NEW es2 \in [Inodes -> DirT],
           NEW d \in Inodes, NEW n \in UNames, NEW i \in Inodes,
           Rewritten(es, es2, d, n, i), es[d][n] = None
    PROVE  /\ \A j \in Inodes : Named(es2, j) <=> Named(es, j) \/ j = i
           /\ \A j \in Inodes, m \in UNames : es2[j][m] # i => es2[j][m] = es[j][m]
           /\ ~Named(es, i) => \A j \in Inodes, m \in UNames : es2[j][m] = i => j = d /\ m = n
<1>1. \A j \in Inodes, m \in UNames :
         \/ j = d /\ m = n /\ es2[j][m] = i /\ es[j][m] = None
         \/ es2[j][m] = es[j][m] /\ ~(j = d /\ m = n)
  BY DEF Rewritten
<1>2. ASSUME NEW j \in Inodes, Named(es2, j) PROVE Named(es, j) \/ j = i
  BY <1>1, <1>2 DEF Named
<1>3. ASSUME NEW j \in Inodes, Named(es, j) PROVE Named(es2, j)
  <2>1. PICK k \in Inodes, m \in UNames : es[k][m] = j
    BY <1>3 DEF Named
  <2>2. j # None
    BY DEF Inodes, None
  <2>3. es2[k][m] = j
    BY <1>1, <2>1, <2>2
  <2>. QED  BY <2>3 DEF Named
<1>4. Named(es2, i)
  BY <1>1 DEF Named
<1>5. \A j \in Inodes, m \in UNames : es2[j][m] # i => es2[j][m] = es[j][m]
  BY <1>1
<1>6. ASSUME ~Named(es, i), NEW j \in Inodes, NEW m \in UNames, es2[j][m] = i
      PROVE  j = d /\ m = n
  <2>1. es[j][m] # i
    BY <1>6 DEF Named
  <2>. QED  BY <1>1, <1>6, <2>1
<1>. QED  BY <1>2, <1>3, <1>4, <1>5, <1>6

\* The tree with a new entry.
LEMMA TreeGrows ==
    ASSUME NEW mp \in BOOLEAN, NEW es \in [Inodes -> DirT], NEW io \in [Inodes -> InodeT], Tree(mp, es, io),
           NEW es2 \in [Inodes -> DirT], NEW d \in Inodes, NEW n \in UNames, NEW i \in Inodes,
           Rewritten(es, es2, d, n, i), es[d][n] = None,
           io[d].kind = "dir", i # HostRoot, io[i].kind # "none",
           (mp \/ io[i].kind = "dir") => ~Named(es, i)
    PROVE  Tree(mp, es2, io)
<1>1. /\ \A j \in Inodes, m \in UNames : es2[j][m] # i => es2[j][m] = es[j][m]
      /\ ~Named(es, i) => \A j \in Inodes, m \in UNames : es2[j][m] = i => j = d /\ m = n
  BY EntryMade
<1>2. \A j \in Inodes, m \in UNames :
           es2[j][m] # None => io[j].kind = "dir" /\ es2[j][m] # HostRoot /\ io[es2[j][m]].kind # "none"
  BY DEF Tree, Rewritten
<1>3. ASSUME NEW j \in Inodes, NEW k \in Inodes, NEW m \in UNames, NEW l \in UNames,
             es2[j][m] # None, es2[j][m] = es2[k][l], mp \/ io[es2[j][m]].kind = "dir"
      PROVE  j = k /\ m = l
  <2>1. CASE es2[j][m] # i
    <3>1. es2[j][m] = es[j][m] /\ es2[k][l] = es[k][l]
      BY <1>1, <1>3, <2>1
    <3>2. es[j][m] # None /\ es[j][m] = es[k][l] /\ (mp \/ io[es[j][m]].kind = "dir")
      BY <1>3, <3>1
    <3>. QED  BY <3>2 DEF Tree
  <2>2. CASE es2[j][m] = i
    <3>1. ~Named(es, i) /\ es2[k][l] = i
      BY <1>3, <2>2
    <3>2. (j = d /\ m = n) /\ (k = d /\ l = n)
      BY <1>1, <2>2, <3>1
    <3>. QED  BY <3>2
  <2>. QED  BY <2>1, <2>2
<1>. QED  BY <1>2, <1>3 DEF Tree

\* A directory that is on a path has a name.
LEMMA PathNamed ==
    ASSUME NEW es \in [Inodes -> DirT], NEW p \in Seq(UNames), FollowIn(es, p) # None
    PROVE  FollowIn(es, p) = HostRoot \/ Named(es, FollowIn(es, p))
<1>1. CASE p = <<>>
  BY <1>1, FollowLaws
<1>2. CASE p # <<>>
  BY <1>2, LastStep
<1>. QED  BY <1>1, <1>2

\* The file that is being made is a file, with nothing in it.
LEMMA WorkIs ==
    ASSUME NEW mp, NEW es, NEW io, NEW ds, NEW u, Typed(es, io, ds, u), NEW S,
           Sound(mp, es, io, ds, u, S), NEW y \in UFids, AtWork(u[y])
    PROVE  /\ u[y].job.ino \in Inodes /\ es[u[y].job.ino] = NoEnts /\ mp /\ u[y].used
           /\ u[y].job.path \in Seq(UNames) /\ FollowIn(es, u[y].job.path) = u[y].job.ino
           /\ u[y].job.ino # None /\ u[y].job.k # "no" /\ u[y].job.path # <<>>
<1>1. u[y] \in FidT /\ JobOn(mp, es, io, u[y]) /\ es \in [Inodes -> DirT]
  BY DEF Typed, Sound, Fids
<1>2. u[y].job.ino \in 0..MaxInodes /\ u[y].job.path \in Seq(UNames) /\ u[y].job.k # "no"
  BY <1>1, JobKinds
<1>3. /\ es[u[y].job.ino] = NoEnts /\ mp /\ u[y].used /\ u[y].job.path # <<>>
      /\ FollowIn(es, u[y].job.path) = u[y].job.ino /\ u[y].job.ino # None
  BY <1>1, <1>2 DEF JobOn
<1>4. u[y].job.ino \in Inodes
  BY <1>2, <1>3 DEF Inodes, None
<1>. QED  BY <1>2, <1>3, <1>4

\* An inode may get a name.
MayName(mp, es, io, i) == (mp \/ io[i].kind = "dir") => ~Named(es, i)

\* An inode gets the name n in the directory at p, where nobody stands.
Enters(mp, es, io, u, es2, p, n, i) ==
    /\ IsDir(es, io, p) /\ es[FollowIn(es, p)][n] = None
    /\ i # HostRoot /\ io[i].kind # "none" /\ MayName(mp, es, io, i)
    /\ Rewritten(es, es2, FollowIn(es, p), n, i)
    /\ Vacant(u, Append(p, n))
    /\ \A y \in UFids : AtWork(u[y]) => u[y].job.path # p

\* That leaves everything else as it was.
LEMMA NameEntered ==
    ASSUME NEW mp \in BOOLEAN, NEW es, NEW io, NEW ds, NEW u, Typed(es, io, ds, u), NEW S,
           Sound(mp, es, io, ds, u, S),
           NEW p \in Seq(UNames), NEW n \in UNames, NEW i \in Inodes,
           NEW es2 \in [Inodes -> DirT], Enters(mp, es, io, u, es2, p, n, i),
           NEW S2, S \subseteq S2, i \in S2
    PROVE  /\ Sound(mp, es2, io, ds, u, S2)
           /\ FollowIn(es2, Append(p, n)) = i
           /\ SameBut(es, es2, Append(p, n))
<1>0. /\ IsDir(es, io, p) /\ es[FollowIn(es, p)][n] = None
      /\ i # HostRoot /\ io[i].kind # "none" /\ MayName(mp, es, io, i)
      /\ Rewritten(es, es2, FollowIn(es, p), n, i)
      /\ Vacant(u, Append(p, n))
      /\ \A y \in UFids : AtWork(u[y]) => u[y].job.path # p
  BY DEF Enters
<1>1. /\ es \in [Inodes -> DirT] /\ io \in [Inodes -> InodeT] /\ \A y \in UFids : u[y] \in FidT
      /\ Tree(mp, es, io) /\ Roots(es) /\ Fids(mp, es, io, ds, u) /\ Apart(u)
  BY <1>0 DEF Typed, Sound
<1>2. i \in 0..MaxInodes /\ i # None /\ FollowIn(es, p) \in Inodes /\ FollowIn(es, p) # None
      /\ io[FollowIn(es, p)].kind = "dir"
  BY <1>0, <1>1, FollowType DEF IsDir
<1>3. /\ SameBut(es, es2, Append(p, n))
      /\ FollowIn(es2, Append(p, n)) = i
  <2>1. es \in [Inodes -> DirT] /\ io \in [Inodes -> InodeT] /\ Tree(mp, es, io) /\ i \in 0..MaxInodes
        /\ FollowIn(es, p) # None /\ io[FollowIn(es, p)].kind = "dir"
    BY <1>0, <1>1, <1>2
  <2>2. SameBut(es, es2, Append(p, n))
    BY <1>0, <2>1, Changed
  <2>3. FollowIn(es2, Append(p, n)) = i
    BY <1>0, <2>1, Changed
  <2>. QED  BY <1>0, <2>2, <2>3
<1>5. \A j \in Inodes : Named(es2, j) <=> Named(es, j) \/ j = i
  <2>1. es \in [Inodes -> DirT] /\ FollowIn(es, p) \in Inodes
    BY <1>0, <1>1, <1>2
  <2>2. PICK d \in Inodes : d = FollowIn(es, p)
    BY <1>0, <2>1
  <2>3. es[d][n] = None /\ Rewritten(es, es2, d, n, i)
    BY <1>0, <2>2
  <2>4. ASSUME NEW j \in Inodes PROVE Named(es2, j) <=> Named(es, j) \/ j = i
    BY <1>0, <2>1, <2>3, EntryMade
  <2>. QED  BY <1>0, <2>4
<1>6. Tree(mp, es2, io)
  <2>1. (mp \/ io[i].kind = "dir") => ~Named(es, i)
    BY <1>0 DEF MayName
  <2>. QED  BY <1>0, <1>1, <1>2, <2>1, TreeGrows
<1>7. Roots(es2)
  <2>1. ASSUME NEW j \in Inodes, j # HostRoot, ~Named(es2, j) PROVE es2[j] = NoEnts
    <3>1. ~Named(es, j)
      BY <1>0, <1>5, <2>1
    <3>2. j # FollowIn(es, p)
      BY <1>0, <1>1, <1>2, <2>1, <3>1, PathNamed
    <3>3. es2[j] = es[j]
      BY <1>0, <1>1, <3>2, Untouched
    <3>. QED  BY <1>0, <1>1, <2>1, <3>1, <3>3 DEF Roots
  <2>. QED  BY <1>0, <2>1 DEF Roots
<1>8. Typed(es2, io, ds, u)
  BY <1>0 DEF Typed
<1>9. \A y \in UFids : u[y].used => FollowIn(es2, u[y].path) = FollowIn(es, u[y].path)
  BY <1>0, <1>1, <1>3, JobKinds DEF Vacant, SameBut
<1>10. \A y \in UFids : u[y].job.k # "no" => FollowIn(es2, u[y].job.path) = FollowIn(es, u[y].job.path)
  BY <1>0, <1>1, <1>3, JobKinds DEF Vacant, SameBut
<1>11. ASSUME NEW y \in UFids, AtWork(u[y]) PROVE es2[u[y].job.ino] = NoEnts
  <2>1. u[y].job.ino # FollowIn(es, p)
    BY <1>0, <1>11, WorkElsewhere
  <2>2. u[y].job.ino \in Inodes /\ es[u[y].job.ino] = NoEnts
    BY <1>0, <1>11, WorkIs
  <2>. QED  BY <1>0, <1>1, <2>1, <2>2, Untouched
<1>12. \A y, z \in UFids : AtWork(u[y]) /\ u[z].used => ~IsPrefix(u[y].job.path, u[z].path)
  BY <1>0, <1>1 DEF Apart
<1>13. \A j \in Inodes : mp /\ Named(es2, j) => j \in S2 \/ Named(es, j)
  BY <1>0, <1>5
<1>14. Sound(mp, es2, io, ds, u, S2)
  <2>1. S \subseteq S2
    BY <1>0
  <2>. QED  BY <1>0, <1>6, <1>7, <1>8, <1>9, <1>10, <1>11, <1>12, <1>13, <2>1, Rewired
<1>. QED  BY <1>0, <1>3, <1>5, <1>14

\* Descriptor d is opened on inode i.
Opening(ds, ds2, d, i) == ds[d] = None /\ ds2[d] = i /\ \A e \in Fds \ {d} : ds2[e] = ds[e]

\* The fid f holds d, too, as f2.
Takes(f, f2, d) ==
    \/ f.fd = None /\ f2.fd = d /\ f2.dir = f.dir
    \/ f.dir = None /\ f2.dir = d /\ f2.fd = f.fd

\* A descriptor that was closed is held by nobody; the fid that takes it holds it alone.
LEMMA DescsOpened ==
    ASSUME NEW io \in [Inodes -> InodeT], NEW ds \in [Fds -> 0..MaxInodes], NEW u \in [UFids -> FidT],
           Descs(io, ds, u),
           NEW d \in Fds, NEW i \in Inodes, io[i].kind # "none",
           NEW ds2 \in [Fds -> 0..MaxInodes], Opening(ds, ds2, d, i),
           NEW x \in UFids, NEW u2 \in [UFids -> FidT], Others(u, u2, x),
           Takes(u[x], u2[x], d)
    PROVE  /\ Descs(io, ds2, u2)
           /\ HeldIn(u2[x]) = HeldIn(u[x]) \cup {d}
           /\ \A y \in UFids : \A e \in HeldIn(u[y]) : e # d /\ ds2[e] = ds[e]
<1>1. \A y \in UFids : u[y] \in FidT /\ u2[y] \in FidT
  OBVIOUS
<1>2. \A y \in UFids : HeldIn(u[y]) \subseteq Fds /\ HeldIn(u2[y]) \subseteq Fds
  BY <1>1, HeldIs
<1>3. d # None /\ i # None
  BY DEF Fds, Inodes, None
<1>4. \A y \in UFids : \A e \in HeldIn(u[y]) : e # d /\ ds2[e] = ds[e] /\ ds[e] # None
  BY <1>2 DEF Descs, Opening
<1>5. HeldIn(u2[x]) = HeldIn(u[x]) \cup {d}
  BY <1>3 DEF HeldIn, Takes
<1>6. \A y \in UFids : y # x => HeldIn(u2[y]) = HeldIn(u[y]) /\ u2[y] = u[y]
  BY DEF Others
<1>7. ASSUME NEW e \in Fds, ds2[e] # None
      PROVE  io[ds2[e]].kind # "none" /\ \E y \in UFids : e \in HeldIn(u2[y])
  <2>1. CASE e = d
    BY <1>5, <2>1 DEF Opening
  <2>2. CASE e # d
    <3>1. ds2[e] = ds[e]
      BY <2>2 DEF Opening
    <3>2. io[ds[e]].kind # "none" /\ \E y \in UFids : e \in HeldIn(u[y])
      BY <1>7, <3>1 DEF Descs
    <3>3. \A y \in UFids : e \in HeldIn(u[y]) => e \in HeldIn(u2[y])
      BY <1>5, <1>6
    <3>. QED  BY <3>1, <3>2, <3>3
  <2>. QED  BY <2>1, <2>2
<1>8. ASSUME NEW y \in UFids PROVE u2[y].fd # None => u2[y].fd # u2[y].dir
  <2>1. u[y].fd # None => u[y].fd # u[y].dir
    BY DEF Descs
  <2>2. CASE y = x
    <3>1. u[x].fd # d /\ u[x].dir # d
      BY <1>1, <1>3, <1>4, HeldIs
    <3>. QED  BY <2>1, <2>2, <3>1 DEF Takes
  <2>3. CASE y # x
    BY <1>6, <2>1, <2>3
  <2>. QED  BY <2>2, <2>3
<1>9. ASSUME NEW y \in UFids, NEW e \in HeldIn(u2[y])
      PROVE  ds2[e] # None /\ \A z \in UFids : e \in HeldIn(u2[z]) => z = y
  <2>1. \A z \in UFids : e \in HeldIn(u2[z]) => e \in HeldIn(u[z]) \/ (z = x /\ e = d)
    BY <1>5, <1>6
  <2>2. CASE e = d
    <3>1. \A z \in UFids : e \in HeldIn(u2[z]) => z = x
      BY <1>4, <2>1, <2>2
    <3>. QED  BY <1>3, <1>9, <2>2, <3>1 DEF Opening
  <2>3. CASE e # d
    <3>1. e \in HeldIn(u[y])
      BY <1>9, <2>1, <2>3
    <3>2. ds[e] # None /\ ds2[e] = ds[e] /\ \A z \in UFids : e \in HeldIn(u[z]) => z = y
      BY <1>4, <3>1 DEF Descs
    <3>. QED  BY <2>1, <2>3, <3>2
  <2>. QED  BY <2>2, <2>3
<1>. QED  BY <1>4, <1>5, <1>7, <1>8, <1>9 DEF Descs

\* A fid without a job opens its file; or Tcreate, without mapped ids, leaves a file
\* on the fid of its directory.
LEMMA FidOpens ==
    ASSUME NEW mp \in BOOLEAN, NEW es, NEW io, NEW ds, NEW u, Typed(es, io, ds, u), NEW S,
           Sound(mp, es, io, ds, u, S),
           NEW d \in Fds, NEW i \in Inodes, io[i].kind # "none",
           NEW ds2 \in [Fds -> 0..MaxInodes], Opening(ds, ds2, d, i),
           NEW x \in UFids, NEW u2 \in [UFids -> FidT], Others(u, u2, x),
           Takes(u[x], u2[x], d),
           u[x].used, u2[x].used, u[x].job = NoJob, u2[x].job = NoJob,
           u2[x].path = u[x].path, u2[x].isdir = u[x].isdir,
           i = FollowIn(es, u[x].path) \/ (~mp /\ u[x].isdir /\ io[i].kind # "dir")
    PROVE  Sound(mp, es, io, ds2, u2, S)
<1>1. /\ es \in [Inodes -> DirT] /\ io \in [Inodes -> InodeT] /\ ds \in [Fds -> 0..MaxInodes] /\ u \in [UFids -> FidT]
      /\ \A y \in UFids : u[y] \in FidT /\ u2[y] \in FidT
  BY DEF Typed
<1>2. /\ Tree(mp, es, io) /\ Roots(es) /\ Descs(io, ds, u) /\ Fids(mp, es, io, ds, u) /\ Apart(u)
      /\ Whole(mp, es, io, ds, u, S)
  BY DEF Sound
<1>3. /\ Descs(io, ds2, u2)
      /\ HeldIn(u2[x]) = HeldIn(u[x]) \cup {d}
      /\ \A y \in UFids : \A e \in HeldIn(u[y]) : e # d /\ ds2[e] = ds[e]
  <2>1. io \in [Inodes -> InodeT]
    BY DEF Typed
  <2>2. Descs(io, ds2, u2)
    BY <1>1, <1>2, <2>1, DescsOpened
  <2>3. HeldIn(u2[x]) = HeldIn(u[x]) \cup {d}
    BY DEF HeldIn, Takes, Fds, None
  <2>4. ASSUME NEW y \in UFids, NEW e \in HeldIn(u[y]) PROVE e # d /\ ds2[e] = ds[e]
    BY <1>1, <1>2, <2>1, <2>4, DescsOpened
  <2>. QED  BY <2>2, <2>3, <2>4
<1>4. ~AtWork(u[x]) /\ ~AtWork(u2[x]) /\ u2[x].job.k = "no" /\ u[x].job.k = "no"
  BY <1>1, JobKinds
<1>5. Fids(mp, es, io, ds2, u2)
  <2>1. ASSUME NEW y \in UFids, y # x
        PROVE  (~u2[y].used => u2[y] = Unused) /\ OnFile(mp, es, io, ds2, u2[y]) /\ JobOn(mp, es, io, u2[y])
    <3>1. (~u[y].used => u[y] = Unused) /\ OnFile(mp, es, io, ds, u[y]) /\ JobOn(mp, es, io, u[y]) /\ u2[y] = u[y]
      BY <1>2, <2>1 DEF Fids, Others
    <3>2. OnFile(mp, es, io, ds2, u[y])
      BY <1>3, <3>1 DEF OnFile
    <3>. QED  BY <3>1, <3>2
  <2>2. OnFile(mp, es, io, ds2, u2[x])
    <3>1. OnFile(mp, es, io, ds, u[x])
      BY <1>2 DEF Fids
    <3>2. ASSUME NEW e \in HeldIn(u2[x])
          PROVE  ds2[e] = FollowIn(es, u2[x].path) \/ (~mp /\ u2[x].isdir /\ io[ds2[e]].kind # "dir")
      <4>1. CASE e = d
        BY <4>1 DEF Opening
      <4>2. CASE e # d
        <5>1. e \in HeldIn(u[x]) /\ ds2[e] = ds[e]
          BY <1>3, <3>2, <4>2
        <5>. QED  BY <1>4, <3>1, <5>1 DEF OnFile
      <4>. QED  BY <4>1, <4>2
    <3>. QED  BY <1>4, <3>2 DEF OnFile
  <2>3. JobOn(mp, es, io, u2[x])
    BY <1>4 DEF JobOn
  <2>. QED  BY <2>1, <2>2, <2>3 DEF Fids
<1>6. ASSUME NEW y \in UFids
      PROVE  /\ u2[y].job = u[y].job /\ u2[y].used = u[y].used /\ u2[y].path = u[y].path
             /\ AtWork(u2[y]) <=> AtWork(u[y])
  <2>1. CASE y = x
    BY <2>1 DEF AtWork
  <2>2. CASE y # x
    BY <2>2 DEF Others
  <2>. QED  BY <2>1, <2>2
<1>7. Apart(u2)
  BY <1>2, <1>6 DEF Apart
<1>8. Whole(mp, es, io, ds2, u2, S)
  <2>1. \A j : InWork(u2, j) <=> InWork(u, j)
    BY <1>6 DEF InWork
  <2>2. ASSUME NEW j \in Inodes, mp, io[j].as \in Ours, IsOpen(ds2, j)
        PROVE  Named(es, j) \/ IsOpen(ds, j)
    <3>1. CASE j = i
      <4>1. i = FollowIn(es, u[x].path) /\ u[x].path \in Seq(UNames) /\ i # None
        BY <1>1, <2>2, JobKinds DEF Inodes, None
      <4>2. i # HostRoot
        BY <1>2, <2>2, <3>1 DEF Tree, Ours
      <4>. QED  BY <1>1, <3>1, <4>1, <4>2, PathNamed
    <3>2. CASE j # i
      BY <2>2, <3>2 DEF IsOpen, Opening
    <3>. QED  BY <3>1, <3>2
  <2>. QED  BY <1>2, <2>1, <2>2 DEF Whole
<1>. QED  BY <1>2, <1>3, <1>5, <1>7, <1>8 DEF Sound

\* The descriptors of fid x are closed.
Closing(ds, ds2, f) == \A d \in Fds : ds2[d] = IF d \in HeldIn(f) THEN None ELSE ds[d]

\* Descriptors that are closed and forgotten at once.
LEMMA DescsClosed ==
    ASSUME NEW io \in [Inodes -> InodeT], NEW ds \in [Fds -> 0..MaxInodes], NEW u \in [UFids -> FidT],
           Descs(io, ds, u),
           NEW x \in UFids, NEW u2 \in [UFids -> FidT], Others(u, u2, x),
           NEW ds2 \in [Fds -> 0..MaxInodes], Closing(ds, ds2, u[x]),
           u2[x].fd = None, u2[x].dir = None
    PROVE  /\ Descs(io, ds2, u2)
           /\ HeldIn(u2[x]) = {}
           /\ \A y \in UFids \ {x} : \A e \in HeldIn(u[y]) : ds2[e] = ds[e]
           /\ \A i \in Inodes : IsOpen(ds2, i) => IsOpen(ds, i)
<1>1. \A y \in UFids : HeldIn(u[y]) \subseteq Fds
  BY HeldIs
<1>2. HeldIn(u2[x]) = {}
  BY DEF HeldIn
<1>3. \A y \in UFids : y # x => HeldIn(u2[y]) = HeldIn(u[y]) /\ u2[y] = u[y]
  BY DEF Others
<1>4. \A y \in UFids \ {x} : \A e \in HeldIn(u[y]) : e \notin HeldIn(u[x]) /\ ds2[e] = ds[e]
  BY <1>1 DEF Descs, Closing
<1>5. ASSUME NEW e \in Fds, ds2[e] # None
      PROVE  io[ds2[e]].kind # "none" /\ \E y \in UFids : e \in HeldIn(u2[y])
  <2>1. e \notin HeldIn(u[x]) /\ ds2[e] = ds[e]
    BY <1>5 DEF Closing
  <2>2. io[ds[e]].kind # "none" /\ \E y \in UFids : e \in HeldIn(u[y])
    BY <1>5, <2>1 DEF Descs
  <2>. QED  BY <1>3, <2>1, <2>2
<1>6. ASSUME NEW y \in UFids
      PROVE  /\ u2[y].fd # None => u2[y].fd # u2[y].dir
             /\ \A e \in HeldIn(u2[y]) : ds2[e] # None /\ \A z \in UFids : e \in HeldIn(u2[z]) => z = y
  <2>1. CASE y = x
    BY <1>2, <2>1
  <2>2. CASE y # x
    <3>1. /\ u[y].fd # None => u[y].fd # u[y].dir
          /\ \A e \in HeldIn(u[y]) : ds[e] # None /\ \A z \in UFids : e \in HeldIn(u[z]) => z = y
      BY DEF Descs
    <3>2. u2[y] = u[y] /\ HeldIn(u2[y]) = HeldIn(u[y])
      BY <1>3, <2>2
    <3>3. \A e \in HeldIn(u[y]) : ds2[e] = ds[e]
      BY <1>4, <2>2
    <3>4. \A e, z : z \in UFids /\ e \in HeldIn(u2[z]) => e \in HeldIn(u[z])
      BY <1>2, <1>3
    <3>. QED  BY <3>1, <3>2, <3>3, <3>4
  <2>. QED  BY <2>1, <2>2
<1>7. \A i \in Inodes : IsOpen(ds2, i) => IsOpen(ds, i)
  BY DEF IsOpen, Closing, Inodes, None
<1>. QED  BY <1>2, <1>4, <1>5, <1>6, <1>7 DEF Descs

\* A fid without a job goes.
LEMMA FidDropped ==
    ASSUME NEW mp \in BOOLEAN, NEW es, NEW io, NEW ds, NEW u, Typed(es, io, ds, u), NEW S,
           Sound(mp, es, io, ds, u, S),
           NEW x \in UFids, NEW u2 \in [UFids -> FidT], Others(u, u2, x),
           u[x].job = NoJob, u2[x] = Unused,
           NEW ds2 \in [Fds -> 0..MaxInodes], Closing(ds, ds2, u[x])
    PROVE  Sound(mp, es, io, ds2, u2, S)
<1>1. /\ es \in [Inodes -> DirT] /\ io \in [Inodes -> InodeT] /\ ds \in [Fds -> 0..MaxInodes] /\ u \in [UFids -> FidT]
      /\ \A y \in UFids : u[y] \in FidT /\ u2[y] \in FidT
  BY DEF Typed
<1>2. /\ Tree(mp, es, io) /\ Roots(es) /\ Descs(io, ds, u) /\ Fids(mp, es, io, ds, u) /\ Apart(u)
      /\ Whole(mp, es, io, ds, u, S)
  BY DEF Sound
<1>3. u2[x].fd = None /\ u2[x].dir = None /\ u2[x].job = NoJob /\ ~u2[x].used
  BY DEF Unused, UfsFid
<1>4. Descs(io, ds2, u2) /\ HeldIn(u2[x]) = {}
  BY <1>1, <1>2, <1>3, DescsClosed
<1>5. \A y \in UFids \ {x} : \A e \in HeldIn(u[y]) : ds2[e] = ds[e]
  BY <1>1, <1>2, <1>3, DescsClosed
<1>6. \A i \in Inodes : IsOpen(ds2, i) => IsOpen(ds, i)
  BY <1>1, <1>2, <1>3, DescsClosed
<1>7. ~AtWork(u[x]) /\ ~AtWork(u2[x]) /\ u2[x].job.k = "no"
  BY <1>1, <1>3, JobKinds
<1>8. Fids(mp, es, io, ds2, u2)
  <2>1. ASSUME NEW y \in UFids, y # x
        PROVE  (~u2[y].used => u2[y] = Unused) /\ OnFile(mp, es, io, ds2, u2[y]) /\ JobOn(mp, es, io, u2[y])
    <3>1. (~u[y].used => u[y] = Unused) /\ OnFile(mp, es, io, ds, u[y]) /\ JobOn(mp, es, io, u[y]) /\ u2[y] = u[y]
      BY <1>2, <2>1 DEF Fids, Others
    <3>2. OnFile(mp, es, io, ds2, u[y])
      BY <1>5, <2>1, <3>1 DEF OnFile
    <3>. QED  BY <3>1, <3>2
  <2>2. OnFile(mp, es, io, ds2, u2[x])
    BY <1>4 DEF OnFile
  <2>3. JobOn(mp, es, io, u2[x])
    BY <1>3, <1>7 DEF JobOn
  <2>. QED  BY <2>1, <2>2, <2>3 DEF Fids
<1>9. Apart(u2)
  <2>1. ASSUME NEW y \in UFids, NEW z \in UFids, AtWork(u2[y])
        PROVE  /\ u2[z].used => ~IsPrefix(u2[y].job.path, u2[z].path)
               /\ z # y /\ u2[z].job.k # "no" => ~IsPrefix(u2[y].job.path, u2[z].job.path)
    <3>1. y # x /\ u2[y] = u[y]
      BY <1>7, <2>1 DEF Others
    <3>2. CASE z = x
      BY <1>3, <1>7, <3>2
    <3>3. CASE z # x
      <4>1. u2[z] = u[z]
        BY <3>3 DEF Others
      <4>. QED  BY <1>2, <2>1, <3>1, <4>1 DEF Apart
    <3>. QED  BY <3>2, <3>3
  <2>. QED  BY <2>1 DEF Apart
<1>10. Whole(mp, es, io, ds2, u2, S)
  <2>1. \A j : InWork(u2, j) <=> InWork(u, j)
    BY <1>7 DEF InWork, Others
  <2>. QED  BY <1>2, <1>6, <2>1 DEF Whole
<1>. QED  BY <1>2, <1>4, <1>8, <1>9, <1>10 DEF Sound

\* A handler starts to make the file that has just got the name n in the directory
\* of fid x, and Tlcreate opens it.
LEMMA WorkBegins ==
    ASSUME NEW mp \in BOOLEAN, NEW es, NEW io, NEW ds, NEW u, Typed(es, io, ds, u), NEW S,
           Sound(mp, es, io, ds, u, S),
           NEW x \in UFids, NEW u2 \in [UFids -> FidT], Others(u, u2, x),
           u[x].used, u[x].job = NoJob,
           u2[x].used, u2[x].path = u[x].path, u2[x].isdir = u[x].isdir,
           AtWork(u2[x]), JobOn(mp, es, io, u2[x]),
           NEW n \in UNames, u2[x].job.path = Append(u[x].path, n), Vacant(u, u2[x].job.path),
           NEW ds2 \in [Fds -> 0..MaxInodes],
           \/ u2[x].job.k = "make" /\ u2[x].fd = u[x].fd /\ u2[x].dir = u[x].dir /\ ds2 = ds
           \/ /\ u2[x].job.k = "lcreate" /\ HeldIn(u[x]) = {} /\ Takes(u[x], u2[x], u2[x].fd)
              /\ u2[x].fd \in Fds /\ Opening(ds, ds2, u2[x].fd, u2[x].job.ino)
              /\ io[u2[x].job.ino].kind # "none"
    PROVE  Sound(mp, es, io, ds2, u2, S \ {u2[x].job.ino})
<1>1. /\ es \in [Inodes -> DirT] /\ io \in [Inodes -> InodeT] /\ ds \in [Fds -> 0..MaxInodes] /\ u \in [UFids -> FidT]
      /\ \A y \in UFids : u[y] \in FidT /\ u2[y] \in FidT
  BY DEF Typed
<1>2. /\ Tree(mp, es, io) /\ Roots(es) /\ Descs(io, ds, u) /\ Fids(mp, es, io, ds, u) /\ Apart(u)
      /\ Whole(mp, es, io, ds, u, S)
  BY DEF Sound
<1>3. ~AtWork(u[x]) /\ u[x].job.k = "no" /\ u2[x].job.ino \in Inodes
  <2>1. u2[x].job.ino \in 0..MaxInodes /\ u2[x].job.ino # None
    BY <1>1, JobKinds DEF JobOn
  <2>. QED  BY <1>1, <2>1, JobKinds DEF Inodes, None
<1>4. /\ Descs(io, ds2, u2) /\ OnFile(mp, es, io, ds2, u2[x])
      /\ \A y \in UFids \ {x} : \A e \in HeldIn(u[y]) : ds2[e] = ds[e]
      /\ \A j \in Inodes : IsOpen(ds2, j) => IsOpen(ds, j) \/ j = u2[x].job.ino
  <2>1. CASE u2[x].job.k = "make" /\ u2[x].fd = u[x].fd /\ u2[x].dir = u[x].dir /\ ds2 = ds
    <3>1. \A y \in UFids : HeldIn(u2[y]) = HeldIn(u[y]) /\ u2[y].fd = u[y].fd /\ u2[y].dir = u[y].dir
      BY <2>1 DEF HeldIn, Others
    <3>2. ASSUME NEW d \in Fds, ds[d] # None PROVE io[ds[d]].kind # "none" /\ \E y \in UFids : d \in HeldIn(u2[y])
      BY <1>2, <3>1, <3>2 DEF Descs
    <3>3. ASSUME NEW y \in UFids
          PROVE  /\ u2[y].fd # None => u2[y].fd # u2[y].dir
                 /\ \A d \in HeldIn(u2[y]) : ds[d] # None /\ \A z \in UFids : d \in HeldIn(u2[z]) => z = y
      <4>1. /\ u[y].fd # None => u[y].fd # u[y].dir
            /\ \A d \in HeldIn(u[y]) : ds[d] # None /\ \A z \in UFids : d \in HeldIn(u[z]) => z = y
        BY <1>2 DEF Descs
      <4>. QED  BY <3>1, <4>1, Zenon
    <3>4. Descs(io, ds, u2)
      BY <3>2, <3>3 DEF Descs
    <3>5. OnFile(mp, es, io, ds, u[x])
      BY <1>2 DEF Fids
    <3>6. OnFile(mp, es, io, ds, u2[x])
      BY <1>3, <2>1, <3>1, <3>5 DEF OnFile
    <3>. QED  BY <2>1, <3>4, <3>6
  <2>2. CASE /\ u2[x].job.k = "lcreate" /\ HeldIn(u[x]) = {} /\ Takes(u[x], u2[x], u2[x].fd)
             /\ u2[x].fd \in Fds /\ Opening(ds, ds2, u2[x].fd, u2[x].job.ino)
             /\ io[u2[x].job.ino].kind # "none"
    <3>1. PICK d \in Fds : d = u2[x].fd
      BY <2>2
    <3>2. PICK i \in Inodes : i = u2[x].job.ino
      BY <1>3
    <3>3. Takes(u[x], u2[x], d) /\ Opening(ds, ds2, d, i) /\ io[i].kind # "none"
      BY <2>2, <3>1, <3>2
    <3>4. Descs(io, ds2, u2)
      BY <1>1, <1>2, <3>3, DescsOpened
    <3>5. ASSUME NEW y \in UFids, NEW e \in HeldIn(u[y]) PROVE e # d /\ ds2[e] = ds[e]
      <4>1. e \in Fds /\ ds[e] # None
        BY <1>1, <1>2, HeldIs DEF Descs
      <4>. QED  BY <3>3, <4>1 DEF Opening
    <3>6. HeldIn(u2[x]) = HeldIn(u[x]) \cup {d}
      BY <3>3 DEF HeldIn, Takes, Fds, None
    <3>7. OnFile(mp, es, io, ds2, u2[x])
      BY <2>2, <3>2, <3>3, <3>6 DEF OnFile, Opening
    <3>8. \A j \in Inodes : IsOpen(ds2, j) => IsOpen(ds, j) \/ j = i
      BY <3>3 DEF Opening, IsOpen
    <3>. QED  BY <3>2, <3>4, <3>5, <3>7, <3>8
  <2>. QED  BY <2>1, <2>2
<1>5. Fids(mp, es, io, ds2, u2)
  <2>1. ASSUME NEW y \in UFids, y # x
        PROVE  (~u2[y].used => u2[y] = Unused) /\ OnFile(mp, es, io, ds2, u2[y]) /\ JobOn(mp, es, io, u2[y])
    <3>1. (~u[y].used => u[y] = Unused) /\ OnFile(mp, es, io, ds, u[y]) /\ JobOn(mp, es, io, u[y]) /\ u2[y] = u[y]
      BY <1>2, <2>1 DEF Fids, Others
    <3>2. OnFile(mp, es, io, ds2, u[y])
      BY <1>4, <2>1, <3>1 DEF OnFile
    <3>. QED  BY <3>1, <3>2
  <2>. QED  BY <1>4, <2>1 DEF Fids
<1>6. Apart(u2)
  <2>1. ASSUME NEW y \in UFids, NEW z \in UFids, AtWork(u2[y])
        PROVE  /\ u2[z].used => ~IsPrefix(u2[y].job.path, u2[z].path)
               /\ z # y /\ u2[z].job.k # "no" => ~IsPrefix(u2[y].job.path, u2[z].job.path)
    <3>1. \A v \in UFids : v # x => u2[v] = u[v]
      BY DEF Others
    <3>2. ASSUME NEW v \in UFids PROVE u2[v].path = u[v].path /\ (u2[v].used => u[v].used)
      BY <3>1
    <3>3. CASE y = x
      <4>1. u[z].used => ~IsPrefix(u2[x].job.path, u[z].path)
        BY DEF Vacant
      <4>2. u[z].job.k # "no" => ~IsPrefix(u2[x].job.path, u[z].job.path)
        BY DEF Vacant
      <4>. QED  BY <3>1, <3>2, <3>3, <4>1, <4>2
    <3>4. CASE y # x /\ z # x
      BY <1>2, <2>1, <3>1, <3>4 DEF Apart
    <3>5. CASE y # x /\ z = x
      <4>1. u2[y] = u[y] /\ AtWork(u[y]) /\ u[y].job.k # "no"
        BY <2>1, <3>1, <3>5 DEF AtWork
      <4>2. ~IsPrefix(u[y].job.path, u[x].path)
        BY <1>2, <4>1 DEF Apart
      <4>3. ~IsPrefix(u2[x].job.path, u[y].job.path)
        BY <4>1 DEF Vacant
      <4>4. u[y].job.path \in Seq(UNames) /\ u[x].path \in Seq(UNames)
        BY <1>1, JobKinds
      <4>5. u[y].job.path # u2[x].job.path
        BY <4>3, <4>4, PrefixLaws
      <4>6. ~IsPrefix(u[y].job.path, Append(u[x].path, n))
        BY <4>2, <4>4, <4>5, PrefixLaws, SMTT(30)
      <4>. QED  BY <3>5, <4>1, <4>2, <4>6
    <3>. QED  BY <3>3, <3>4, <3>5
  <2>. QED  BY <2>1 DEF Apart
<1>7. Whole(mp, es, io, ds2, u2, S \ {u2[x].job.ino})
  <2>1. \A j : InWork(u2, j) <=> InWork(u, j) \/ j = u2[x].job.ino
    BY <1>3 DEF InWork, Others
  <2>. QED  BY <1>2, <1>4, <2>1 DEF Whole
<1>. QED  BY <1>2, <1>4, <1>5, <1>6, <1>7 DEF Sound

\* A handler starts to set the type of the file it is on.
LEMMA SetBegins ==
    ASSUME NEW mp \in BOOLEAN, NEW es, NEW io, NEW ds, NEW u, Typed(es, io, ds, u), NEW S,
           Sound(mp, es, io, ds, u, S),
           NEW x \in UFids, NEW u2 \in [UFids -> FidT], Others(u, u2, x),
           u[x].used, u[x].job = NoJob,
           u2[x].used, u2[x].path = u[x].path, u2[x].isdir = u[x].isdir,
           u2[x].fd = u[x].fd, u2[x].dir = u[x].dir,
           u2[x].job.k = "set", u2[x].job.path = u[x].path, JobOn(mp, es, io, u2[x])
    PROVE  Sound(mp, es, io, ds, u2, S)
<1>1. \A y \in UFids : u[y] \in FidT /\ u2[y] \in FidT
  BY DEF Typed
<1>2. /\ Tree(mp, es, io) /\ Roots(es) /\ Descs(io, ds, u) /\ Fids(mp, es, io, ds, u) /\ Apart(u)
      /\ Whole(mp, es, io, ds, u, S)
  BY DEF Sound
<1>3. ~AtWork(u[x]) /\ ~AtWork(u2[x]) /\ u[x].job.k = "no"
  BY <1>1, JobKinds DEF AtWork
<1>4. \A y \in UFids : HeldIn(u2[y]) = HeldIn(u[y]) /\ u2[y].fd = u[y].fd /\ u2[y].dir = u[y].dir
  BY DEF HeldIn, Others
<1>5. Descs(io, ds, u2)
  <2>1. ASSUME NEW d \in Fds, ds[d] # None PROVE io[ds[d]].kind # "none" /\ \E y \in UFids : d \in HeldIn(u2[y])
    BY <1>2, <1>4, <2>1 DEF Descs
  <2>2. ASSUME NEW y \in UFids
        PROVE  /\ u2[y].fd # None => u2[y].fd # u2[y].dir
               /\ \A d \in HeldIn(u2[y]) : ds[d] # None /\ \A z \in UFids : d \in HeldIn(u2[z]) => z = y
    <3>1. /\ u[y].fd # None => u[y].fd # u[y].dir
          /\ \A d \in HeldIn(u[y]) : ds[d] # None /\ \A z \in UFids : d \in HeldIn(u[z]) => z = y
      BY <1>2 DEF Descs
    <3>. QED  BY <1>4, <3>1, Zenon
  <2>. QED  BY <2>1, <2>2 DEF Descs
<1>6. Fids(mp, es, io, ds, u2)
  <2>1. ASSUME NEW y \in UFids, y # x
        PROVE  (~u2[y].used => u2[y] = Unused) /\ OnFile(mp, es, io, ds, u2[y]) /\ JobOn(mp, es, io, u2[y])
    BY <1>2, <2>1 DEF Fids, Others
  <2>2. OnFile(mp, es, io, ds, u[x])
    BY <1>2 DEF Fids
  <2>3. OnFile(mp, es, io, ds, u2[x])
    BY <1>3, <1>4, <2>2 DEF OnFile
  <2>. QED  BY <2>1, <2>3 DEF Fids
<1>7. Apart(u2)
  <2>1. ASSUME NEW y \in UFids, NEW z \in UFids, AtWork(u2[y])
        PROVE  /\ u2[z].used => ~IsPrefix(u2[y].job.path, u2[z].path)
               /\ z # y /\ u2[z].job.k # "no" => ~IsPrefix(u2[y].job.path, u2[z].job.path)
    <3>1. y # x /\ u2[y] = u[y] /\ AtWork(u[y])
      BY <1>3, <2>1 DEF Others
    <3>2. CASE z = x
      BY <1>2, <3>1, <3>2 DEF Apart
    <3>3. CASE z # x
      <4>1. u2[z] = u[z]
        BY <3>3 DEF Others
      <4>. QED  BY <1>2, <3>1, <4>1 DEF Apart
    <3>. QED  BY <3>2, <3>3
  <2>. QED  BY <2>1 DEF Apart
<1>8. Whole(mp, es, io, ds, u2, S)
  <2>1. \A i : InWork(u2, i) <=> InWork(u, i)
    BY <1>3 DEF InWork, Others
  <2>. QED  BY <1>2, <2>1 DEF Whole
<1>. QED  BY <1>2, <1>5, <1>6, <1>7, <1>8 DEF Sound

\* A handler ends: what it has made is whole, or is one of those in S2.
LEMMA JobEnds ==
    ASSUME NEW mp \in BOOLEAN, NEW es, NEW io, NEW ds, NEW u, Typed(es, io, ds, u), NEW S,
           Sound(mp, es, io, ds, u, S),
           NEW x \in UFids, NEW u2 \in [UFids -> FidT], Others(u, u2, x),
           u[x].used, u2[x].used, u[x].job.k # "no", u2[x].job = NoJob,
           NEW ds2 \in [Fds -> 0..MaxInodes],
           \/ /\ u[x].job.k \in {"make", "set"} /\ ds2 = ds
              /\ u2[x].fd = u[x].fd /\ u2[x].dir = u[x].dir
              /\ u2[x].path = u[x].path /\ u2[x].isdir = u[x].isdir
           \/ /\ u[x].job.k = "lcreate" /\ ds2 = ds
              /\ u2[x].fd = u[x].fd /\ u2[x].dir = u[x].dir /\ u2[x].path = u[x].job.path
           \/ /\ u[x].job.k = "lcreate" /\ Closing(ds, ds2, u[x])
              /\ u2[x].fd = None /\ u2[x].dir = None /\ u2[x].path = u[x].path,
           NEW S2, S \subseteq S2,
           AtWork(u[x]) => \/ u[x].job.ino \in S2
                           \/ ToSet(Virtfs(u[x].job.as)) \subseteq io[u[x].job.ino].attrs
    PROVE  Sound(mp, es, io, ds2, u2, S2)
<1>1. /\ es \in [Inodes -> DirT] /\ io \in [Inodes -> InodeT] /\ ds \in [Fds -> 0..MaxInodes] /\ u \in [UFids -> FidT]
      /\ \A y \in UFids : u[y] \in FidT /\ u2[y] \in FidT
  BY DEF Typed
<1>2. /\ Tree(mp, es, io) /\ Roots(es) /\ Descs(io, ds, u) /\ Fids(mp, es, io, ds, u) /\ Apart(u)
      /\ Whole(mp, es, io, ds, u, S) /\ OnFile(mp, es, io, ds, u[x]) /\ JobOn(mp, es, io, u[x])
  BY DEF Sound, Fids
<1>3. ~AtWork(u2[x]) /\ u2[x].job.k = "no"
  BY <1>1, JobKinds
<1>4. /\ Descs(io, ds2, u2) /\ OnFile(mp, es, io, ds2, u2[x])
      /\ \A y \in UFids \ {x} : \A e \in HeldIn(u[y]) : ds2[e] = ds[e]
      /\ \A j \in Inodes : IsOpen(ds2, j) => IsOpen(ds, j)
  <2>1. ASSUME u2[x].fd = u[x].fd, u2[x].dir = u[x].dir
        PROVE  Descs(io, ds, u2) /\ HeldIn(u2[x]) = HeldIn(u[x])
    <3>1. \A y \in UFids : HeldIn(u2[y]) = HeldIn(u[y]) /\ u2[y].fd = u[y].fd /\ u2[y].dir = u[y].dir
      BY <2>1 DEF HeldIn, Others
    <3>2. ASSUME NEW d \in Fds, ds[d] # None PROVE io[ds[d]].kind # "none" /\ \E y \in UFids : d \in HeldIn(u2[y])
      BY <1>2, <3>1, <3>2 DEF Descs
    <3>3. ASSUME NEW y \in UFids
          PROVE  /\ u2[y].fd # None => u2[y].fd # u2[y].dir
                 /\ \A d \in HeldIn(u2[y]) : ds[d] # None /\ \A z \in UFids : d \in HeldIn(u2[z]) => z = y
      <4>1. /\ u[y].fd # None => u[y].fd # u[y].dir
            /\ \A d \in HeldIn(u[y]) : ds[d] # None /\ \A z \in UFids : d \in HeldIn(u[z]) => z = y
        BY <1>2 DEF Descs
      <4>. QED  BY <3>1, <4>1, Zenon
    <3>. QED  BY <3>1, <3>2, <3>3 DEF Descs
  <2>2. CASE /\ u[x].job.k \in {"make", "set"} /\ ds2 = ds
             /\ u2[x].fd = u[x].fd /\ u2[x].dir = u[x].dir
             /\ u2[x].path = u[x].path /\ u2[x].isdir = u[x].isdir
    <3>1. OnFile(mp, es, io, ds, u2[x])
      BY <1>2, <1>3, <2>1, <2>2 DEF OnFile
    <3>. QED  BY <2>1, <2>2, <3>1
  <2>3. CASE /\ u[x].job.k = "lcreate" /\ ds2 = ds
             /\ u2[x].fd = u[x].fd /\ u2[x].dir = u[x].dir /\ u2[x].path = u[x].job.path
    <3>1. FollowIn(es, u[x].job.path) = u[x].job.ino
      BY <1>2, <2>3 DEF JobOn, AtWork
    <3>2. OnFile(mp, es, io, ds, u2[x])
      BY <1>2, <1>3, <2>1, <2>3, <3>1 DEF OnFile
    <3>. QED  BY <2>1, <2>3, <3>2
  <2>4. CASE /\ u[x].job.k = "lcreate" /\ Closing(ds, ds2, u[x])
             /\ u2[x].fd = None /\ u2[x].dir = None /\ u2[x].path = u[x].path
    <3>1. Descs(io, ds2, u2) /\ HeldIn(u2[x]) = {}
      BY <1>1, <1>2, <2>4, DescsClosed
    <3>2. \A y \in UFids \ {x} : \A e \in HeldIn(u[y]) : ds2[e] = ds[e]
      BY <1>1, <1>2, <2>4, DescsClosed
    <3>3. \A i \in Inodes : IsOpen(ds2, i) => IsOpen(ds, i)
      BY <1>1, <1>2, <2>4, DescsClosed
    <3>4. OnFile(mp, es, io, ds2, u2[x])
      BY <3>1 DEF OnFile
    <3>. QED  BY <3>1, <3>2, <3>3, <3>4
  <2>. QED  BY <2>2, <2>3, <2>4
<1>5. Fids(mp, es, io, ds2, u2)
  <2>1. ASSUME NEW y \in UFids, y # x
        PROVE  (~u2[y].used => u2[y] = Unused) /\ OnFile(mp, es, io, ds2, u2[y]) /\ JobOn(mp, es, io, u2[y])
    <3>1. (~u[y].used => u[y] = Unused) /\ OnFile(mp, es, io, ds, u[y]) /\ JobOn(mp, es, io, u[y]) /\ u2[y] = u[y]
      BY <1>2, <2>1 DEF Fids, Others
    <3>2. OnFile(mp, es, io, ds2, u[y])
      BY <1>4, <2>1, <3>1 DEF OnFile
    <3>. QED  BY <3>1, <3>2
  <2>2. JobOn(mp, es, io, u2[x])
    BY <1>3 DEF JobOn
  <2>. QED  BY <1>4, <2>1, <2>2 DEF Fids
<1>6. Apart(u2)
  <2>1. ASSUME NEW y \in UFids, NEW z \in UFids, AtWork(u2[y])
        PROVE  /\ u2[z].used => ~IsPrefix(u2[y].job.path, u2[z].path)
               /\ z # y /\ u2[z].job.k # "no" => ~IsPrefix(u2[y].job.path, u2[z].job.path)
    <3>1. y # x /\ u2[y] = u[y] /\ AtWork(u[y])
      BY <1>3, <2>1 DEF Others
    <3>2. CASE z = x
      <4>1. u2[x].path = u[x].path \/ u2[x].path = u[x].job.path
        OBVIOUS
      <4>2. ~IsPrefix(u[y].job.path, u[x].path) /\ ~IsPrefix(u[y].job.path, u[x].job.path)
        BY <1>2, <3>1 DEF Apart
      <4>. QED  BY <1>3, <3>1, <3>2, <4>1, <4>2
    <3>3. CASE z # x
      <4>1. u2[z] = u[z]
        BY <3>3 DEF Others
      <4>. QED  BY <1>2, <3>1, <4>1 DEF Apart
    <3>. QED  BY <3>2, <3>3
  <2>. QED  BY <2>1 DEF Apart
<1>7. Whole(mp, es, io, ds2, u2, S2)
  <2>1. SUFFICES ASSUME mp, NEW i \in Inodes, io[i].as \in Ours
                 PROVE  /\ "mode" \in io[i].attrs => io[i].mode = io[i].as
                        /\ i \notin S2 /\ (Named(es, i) \/ IsOpen(ds2, i)) /\ ~InWork(u2, i)
                             => ToSet(Virtfs(io[i].as)) \subseteq io[i].attrs
    BY DEF Whole
  <2>2. CASE AtWork(u[x]) /\ u[x].job.ino = i
    <3>1. io[i].as = u[x].job.as
      BY <1>2, <2>2 DEF JobOn
    <3>. QED  BY <1>2, <2>1, <2>2, <3>1 DEF Whole
  <2>3. CASE ~(AtWork(u[x]) /\ u[x].job.ino = i)
    <3>1. InWork(u2, i) <=> InWork(u, i)
      BY <1>3, <2>3 DEF InWork, Others
    <3>. QED  BY <1>2, <1>4, <2>1, <3>1 DEF Whole
  <2>. QED  BY <2>2, <2>3
<1>. QED  BY <1>2, <1>4, <1>5, <1>6, <1>7 DEF Sound

\* Where a path leads there is an inode.
LEMMA PathLive ==
    ASSUME NEW mp, NEW es \in [Inodes -> DirT], NEW io \in [Inodes -> InodeT], Tree(mp, es, io),
           NEW p \in Seq(UNames), FollowIn(es, p) # None
    PROVE  FollowIn(es, p) \in Inodes /\ io[FollowIn(es, p)].kind # "none"
<1>1. FollowIn(es, p) \in Inodes /\ HostRoot \in Inodes
  BY FollowType
<1>2. CASE FollowIn(es, p) = HostRoot
  BY <1>2, <1>1 DEF Tree
<1>3. CASE Named(es, FollowIn(es, p))
  <2>1. PICK j \in Inodes, n \in UNames : es[j][n] = FollowIn(es, p)
    BY <1>3 DEF Named
  <2>2. es[j][n] # None
    BY <2>1
  <2>3. io[es[j][n]].kind # "none"
    BY <2>2 DEF Tree
  <2>. QED  BY <1>1, <2>1, <2>3
<1>. QED  BY <1>2, <1>3, PathNamed

\* Attribute a of inode i is set, to as if it is the type.
Carries(io, io2, i, a, as) ==
    /\ \A j \in Inodes \ {i} : io2[j] = io[j]
    /\ io2[i].kind = io[i].kind /\ io2[i].as = io[i].as
    /\ io2[i].attrs = io[i].attrs \cup {a}
    /\ io2[i].mode = IF a = "mode" THEN as ELSE io[i].mode

\* The first of the attributes that are left to set is set.
FirstSet(f, f2) ==
    /\ f2.used = f.used /\ f2.path = f.path /\ f2.isdir = f.isdir /\ f2.fd = f.fd /\ f2.dir = f.dir
    /\ f2.job.k = f.job.k /\ f2.job.path = f.job.path /\ f2.job.as = f.job.as /\ f2.job.ino = f.job.ino
    /\ f2.job.left = Tail(f.job.left)

\* A handler sets an attribute.
LEMMA AttributePut ==
    ASSUME NEW mp \in BOOLEAN, NEW es, NEW io, NEW ds, NEW u, Typed(es, io, ds, u), NEW S,
           Sound(mp, es, io, ds, u, S),
           NEW x \in UFids, NEW u2 \in [UFids -> FidT], Others(u, u2, x), FirstSet(u[x], u2[x]),
           u[x].job.k # "no", u[x].job.left # <<>>,
           NEW i, i = FollowIn(es, u[x].job.path), i # None,
           NEW io2 \in [Inodes -> InodeT], Carries(io, io2, i, Head(u[x].job.left), u[x].job.as)
    PROVE  Sound(mp, es, io2, ds, u2, S)
<1>. DEFINE a == Head(u[x].job.left)
            as == u[x].job.as
<1>1. /\ es \in [Inodes -> DirT] /\ io \in [Inodes -> InodeT] /\ ds \in [Fds -> 0..MaxInodes] /\ u \in [UFids -> FidT]
      /\ \A y \in UFids : u[y] \in FidT /\ u2[y] \in FidT
  BY DEF Typed
<1>2. /\ Tree(mp, es, io) /\ Roots(es) /\ Descs(io, ds, u) /\ Fids(mp, es, io, ds, u) /\ Apart(u)
      /\ Whole(mp, es, io, ds, u, S)
  BY DEF Sound
<1>3. /\ \A y \in UFids : /\ u2[y].used = u[y].used /\ u2[y].path = u[y].path /\ u2[y].isdir = u[y].isdir
                          /\ u2[y].fd = u[y].fd /\ u2[y].dir = u[y].dir
      /\ \A y \in UFids : /\ u2[y].job.k = u[y].job.k /\ u2[y].job.path = u[y].job.path
                          /\ u2[y].job.as = u[y].job.as /\ u2[y].job.ino = u[y].job.ino
  BY DEF Others, FirstSet
<1>4. \A y \in UFids : HeldIn(u2[y]) = HeldIn(u[y]) /\ (AtWork(u2[y]) <=> AtWork(u[y]))
  BY <1>3 DEF HeldIn, AtWork
<1>5. i \in Inodes /\ io[i].kind # "none" /\ u[x].job.path \in Seq(UNames)
  <2>1. u[x].job.path \in Seq(UNames)
    BY <1>1, JobKinds
  <2>. QED  BY <1>1, <1>2, <2>1, PathLive
<1>6. /\ \A j \in Inodes : io2[j].kind = io[j].kind /\ io2[j].as = io[j].as /\ io[j].attrs \subseteq io2[j].attrs
      /\ \A j \in Inodes : j # i => io2[j] = io[j]
      /\ io2[i].attrs = io[i].attrs \cup {a}
      /\ io2[i].mode = IF a = "mode" THEN as ELSE io[i].mode
  BY <1>5 DEF Carries
<1>7. mp
  <2>1. JobOn(mp, es, io, u[x])
    BY <1>2 DEF Fids
  <2>. QED  BY <2>1 DEF JobOn
<1>8. u2[x].job.left = Tail(u[x].job.left) /\ u[x].job.left \in Seq(Attrs)
  <2>1. u[x].job \in JobT
    BY <1>1 DEF FidT
  <2>. QED  BY <2>1 DEF FirstSet, JobT
<1>9. ToSet(u[x].job.left) = ToSet(u2[x].job.left) \cup {a}
  BY <1>8, TailOf
<1>. HIDE DEF a, as
<1>10. Tree(mp, es, io2)
  <2>1. HostRoot \in Inodes /\ \A j \in Inodes, n \in UNames : es[j][n] # None => es[j][n] \in Inodes
    <3>1. ASSUME NEW j \in Inodes, NEW n \in UNames, es[j][n] # None PROVE es[j][n] \in Inodes
      <4>1. es[j][n] \in 0..MaxInodes
        BY <1>1 DEF DirT
      <4>. QED  BY <3>1, <4>1 DEF Inodes, None
    <3>2. HostRoot \in Inodes
      BY NpUfsAssumption DEF Inodes, HostRoot
    <3>. QED  BY <3>1, <3>2
  <2>2. ASSUME NEW j \in Inodes, io2[j].kind = "none" PROVE io2[j] = NoInode
    BY <1>2, <1>5, <1>6, <2>2 DEF Tree
  <2>3. io2[HostRoot].kind = "dir" /\ io2[HostRoot].as = "host"
    BY <1>2, <1>6, <2>1 DEF Tree
  <2>4. ASSUME NEW j \in Inodes, NEW n \in UNames, es[j][n] # None
        PROVE  io2[j].kind = "dir" /\ es[j][n] # HostRoot /\ io2[es[j][n]].kind # "none"
    <3>1. io[j].kind = "dir" /\ es[j][n] # HostRoot /\ io[es[j][n]].kind # "none"
      BY <1>2, <2>4 DEF Tree
    <3>. QED  BY <1>6, <2>1, <2>4, <3>1
  <2>5. ASSUME NEW j \in Inodes, NEW k \in Inodes, NEW n \in UNames, NEW l \in UNames,
               es[j][n] # None, es[j][n] = es[k][l], mp \/ io2[es[j][n]].kind = "dir"
        PROVE  j = k /\ n = l
    BY <1>2, <1>7, <2>5 DEF Tree
  <2>. QED  BY <2>2, <2>3, <2>4, <2>5 DEF Tree
<1>11. Descs(io2, ds, u2)
  <2>1. ASSUME NEW d \in Fds, ds[d] # None
        PROVE  io2[ds[d]].kind # "none" /\ \E y \in UFids : d \in HeldIn(u2[y])
    <3>1. io[ds[d]].kind # "none" /\ \E y \in UFids : d \in HeldIn(u[y])
      BY <1>2, <2>1 DEF Descs
    <3>2. ds[d] \in Inodes
      BY <1>1, <2>1 DEF Inodes, None
    <3>. QED  BY <1>4, <1>6, <3>1, <3>2
  <2>2. ASSUME NEW y \in UFids
        PROVE  /\ u2[y].fd # None => u2[y].fd # u2[y].dir
               /\ \A d \in HeldIn(u2[y]) : ds[d] # None /\ \A z \in UFids : d \in HeldIn(u2[z]) => z = y
    <3>1. /\ u[y].fd # None => u[y].fd # u[y].dir
          /\ \A d \in HeldIn(u[y]) : ds[d] # None /\ \A z \in UFids : d \in HeldIn(u[z]) => z = y
      BY <1>2 DEF Descs
    <3>. QED  BY <1>3, <1>4, <3>1, Zenon
  <2>. QED  BY <2>1, <2>2 DEF Descs
<1>12. Fids(mp, es, io2, ds, u2)
  <2>1. ASSUME NEW y \in UFids
        PROVE  /\ ~u2[y].used => u2[y] = Unused
               /\ OnFile(mp, es, io2, ds, u2[y]) /\ JobOn(mp, es, io2, u2[y])
    <3>1. (~u[y].used => u[y] = Unused) /\ OnFile(mp, es, io, ds, u[y]) /\ JobOn(mp, es, io, u[y])
      BY <1>2 DEF Fids
    <3>2. OnFile(mp, es, io2, ds, u2[y])
      BY <1>3, <1>4, <1>7, <3>1 DEF OnFile
    <3>3. u[x].used
      <4>1. JobOn(mp, es, io, u[x])
        BY <1>2 DEF Fids
      <4>. QED  BY <4>1 DEF JobOn
    <3>4. JobOn(mp, es, io2, u2[y])
      <4>1. u2[y].job.k = "no" => u2[y].job = NoJob
        <5>1. CASE y = x
          BY <1>3, <5>1
        <5>2. CASE y # x
          BY <3>1, <5>2 DEF Others, JobOn
        <5>. QED  BY <5>1, <5>2
      <4>2. u2[y].job.k # "no" => u2[y].used /\ mp
        BY <1>3, <3>1 DEF JobOn
      <4>3. ASSUME AtWork(u2[y])
            PROVE  /\ u2[y].job.path # <<>>
                   /\ u2[y].job.ino # None /\ FollowIn(es, u2[y].job.path) = u2[y].job.ino
                   /\ es[u2[y].job.ino] = NoEnts
                   /\ u2[y].job.as \in Ours /\ io2[u2[y].job.ino].as = u2[y].job.as
                   /\ io2[u2[y].job.ino].kind = IF u2[y].job.as = "dir" THEN "dir" ELSE "file"
                   /\ ToSet(Virtfs(u2[y].job.as)) \subseteq io2[u2[y].job.ino].attrs \cup ToSet(u2[y].job.left)
        <5>1. /\ u[y].job.path # <<>>
              /\ u[y].job.ino # None /\ FollowIn(es, u[y].job.path) = u[y].job.ino
              /\ es[u[y].job.ino] = NoEnts
              /\ u[y].job.as \in Ours /\ io[u[y].job.ino].as = u[y].job.as
              /\ io[u[y].job.ino].kind = IF u[y].job.as = "dir" THEN "dir" ELSE "file"
              /\ ToSet(Virtfs(u[y].job.as)) \subseteq io[u[y].job.ino].attrs \cup ToSet(u[y].job.left)
          BY <1>4, <3>1, <4>3 DEF JobOn
        <5>2. u[y].job.ino \in Inodes
          BY <1>1, <1>2, <1>4, <4>3, WorkIs
        <5>3. ToSet(Virtfs(u[y].job.as)) \subseteq io2[u[y].job.ino].attrs \cup ToSet(u2[y].job.left)
          <6>1. CASE y = x
            <7>1. u[y].job.ino = i
              BY <5>1, <6>1
            <7>. QED  BY <1>6, <1>9, <5>1, <6>1, <7>1
          <6>2. CASE y # x
            <7>1. u2[y] = u[y]
              BY <6>2 DEF Others
            <7>. QED  BY <1>6, <5>1, <5>2, <7>1
          <6>. QED  BY <6>1, <6>2
        <5>4. u2[y].job.path = u[y].job.path /\ u2[y].job.ino = u[y].job.ino /\ u2[y].job.as = u[y].job.as
          BY <1>3
        <5>5. io2[u[y].job.ino].as = io[u[y].job.ino].as /\ io2[u[y].job.ino].kind = io[u[y].job.ino].kind
          BY <1>6, <5>2
        <5>. QED  BY <5>1, <5>3, <5>4, <5>5
      <4>4. u2[y].job.k = "lcreate" => u2[y].job.as = "file" /\ u2[y].fd # None /\ u2[y].dir = None
        BY <1>3, <3>1 DEF JobOn
      <4>5. ASSUME u2[y].job.k = "set"
            PROVE  /\ FollowIn(es, u2[y].job.path) # None
                   /\ io2[FollowIn(es, u2[y].job.path)].as \in Ours =>
                        u2[y].job.as = io2[FollowIn(es, u2[y].job.path)].as
        <5>1. /\ FollowIn(es, u[y].job.path) # None
              /\ io[FollowIn(es, u[y].job.path)].as \in Ours => u[y].job.as = io[FollowIn(es, u[y].job.path)].as
          BY <1>3, <3>1, <4>5 DEF JobOn
        <5>2. u[y].job.path \in Seq(UNames)
          BY <1>1, JobKinds
        <5>3. FollowIn(es, u[y].job.path) \in Inodes
          BY <1>1, <5>1, <5>2, FollowType
        <5>. QED  BY <1>3, <1>6, <5>1, <5>3
      <4>. QED  BY <4>1, <4>2, <4>3, <4>4, <4>5 DEF JobOn
    <3>. QED  BY <1>3, <3>1, <3>2, <3>3, <3>4 DEF Others
  <2>. QED  BY <2>1 DEF Fids
<1>13. Apart(u2)
  <2>1. ASSUME NEW y \in UFids, NEW z \in UFids, AtWork(u2[y])
        PROVE  /\ u2[z].used => ~IsPrefix(u2[y].job.path, u2[z].path)
               /\ z # y /\ u2[z].job.k # "no" => ~IsPrefix(u2[y].job.path, u2[z].job.path)
    <3>1. AtWork(u[y])
      BY <1>4, <2>1
    <3>2. /\ u[z].used => ~IsPrefix(u[y].job.path, u[z].path)
          /\ z # y /\ u[z].job.k # "no" => ~IsPrefix(u[y].job.path, u[z].job.path)
      BY <1>2, <3>1 DEF Apart
    <3>. QED  BY <1>3, <3>2
  <2>. QED  BY <2>1 DEF Apart
<1>14. Whole(mp, es, io2, ds, u2, S)
  <2>1. \A j : InWork(u2, j) <=> InWork(u, j)
    BY <1>3, <1>4 DEF InWork
  <2>2. io[i].as \in Ours => as = io[i].as
    <3>1. JobOn(mp, es, io, u[x]) /\ u[x].job.k \in {"lcreate", "make", "set"}
      BY <1>1, <1>2, JobKinds DEF Fids
    <3>. QED  BY <3>1 DEF JobOn, AtWork, as
  <2>3. ASSUME NEW j \in Inodes, io2[j].as \in Ours
        PROVE  /\ "mode" \in io2[j].attrs => io2[j].mode = io2[j].as
               /\ j \notin S /\ (Named(es, j) \/ IsOpen(ds, j)) /\ ~InWork(u2, j)
                    => ToSet(Virtfs(io2[j].as)) \subseteq io2[j].attrs
    <3>1. /\ "mode" \in io[j].attrs => io[j].mode = io[j].as
          /\ j \notin S /\ (Named(es, j) \/ IsOpen(ds, j)) /\ ~InWork(u, j)
                    => ToSet(Virtfs(io[j].as)) \subseteq io[j].attrs
          /\ io[j].as \in Ours
      BY <1>2, <1>6, <1>7, <2>3 DEF Whole
    <3>2. CASE j # i
      BY <1>6, <2>1, <3>1, <3>2
    <3>3. CASE j = i
      <4>1. "mode" \in io2[j].attrs => io2[j].mode = io2[j].as
        BY <1>6, <2>2, <3>1, <3>3
      <4>. QED  BY <1>6, <2>1, <3>1, <4>1
    <3>. QED  BY <3>2, <3>3
  <2>. QED  BY <2>3 DEF Whole
<1>. QED  BY <1>2, <1>10, <1>11, <1>12, <1>13, <1>14 DEF Sound

----------------------------------------------------------------------------
(* What goes from the host *)

\* An inode without a name or a descriptor is gone.
Swept(es, ds, io, io2) ==
    \A i \in Inodes : io2[i] = IF i # HostRoot /\ ~Named(es, i) /\ ~IsOpen(ds, i) THEN NoInode ELSE io[i]

\* Gone sweeps.
LEMMA GoneSweeps ==
    ASSUME NEW es \in [Inodes -> DirT], NEW ds \in [Fds -> 0..MaxInodes], ino \in [Inodes -> InodeT]
    PROVE  Swept(es, ds, ino, Gone(es, ds)) /\ Gone(es, ds) \in [Inodes -> InodeT]
<1>1. NoInode \in InodeT
  BY DEF NoInode, InodeT, Kinds, Attrs
<1>2. \A i \in Inodes : Gone(es, ds)[i] = IF i # HostRoot /\ ~Named(es, i) /\ ~IsOpen(ds, i) THEN NoInode ELSE ino[i]
  BY DEF Gone, Named, IsOpen
<1>3. Gone(es, ds) \in [Inodes -> InodeT]
  BY <1>1 DEF Gone
<1>. QED  BY <1>2, <1>3 DEF Swept

\* What goes was nobody's; and no exception is left of those that are gone.
LEMMA HostSwept ==
    ASSUME NEW mp \in BOOLEAN, NEW es, NEW io, NEW ds, NEW u, Typed(es, io, ds, u), NEW S,
           Sound(mp, es, io, ds, u, S),
           NEW io2 \in [Inodes -> InodeT], Swept(es, ds, io, io2),
           NEW S2, \A i \in S \ S2 : ~Named(es, i) /\ ~IsOpen(ds, i)
    PROVE  /\ Sound(mp, es, io2, ds, u, S2)
           /\ Kept(es, io2, ds)
<1>1. /\ es \in [Inodes -> DirT] /\ io \in [Inodes -> InodeT] /\ ds \in [Fds -> 0..MaxInodes] /\ u \in [UFids -> FidT]
      /\ \A y \in UFids : u[y] \in FidT
  BY DEF Typed
<1>2. /\ Tree(mp, es, io) /\ Roots(es) /\ Descs(io, ds, u) /\ Fids(mp, es, io, ds, u) /\ Apart(u)
      /\ Whole(mp, es, io, ds, u, S)
  BY DEF Sound
<1>3. /\ HostRoot \in Inodes /\ io2[HostRoot] = io[HostRoot]
      /\ \A i \in Inodes : Named(es, i) \/ IsOpen(ds, i) => io2[i] = io[i]
      /\ \A i \in Inodes : io2[i] = io[i] \/ io2[i] = NoInode
  <2>1. HostRoot \in Inodes
    BY NpUfsAssumption DEF Inodes, HostRoot
  <2>. QED  BY <2>1 DEF Swept
<1>4. NoInode.kind = "none" /\ NoInode.as = "none"
  BY DEF NoInode
<1>5. Kept(es, io2, ds)
  BY <1>4 DEF Kept, Swept
<1>6. \A j \in Inodes, n \in UNames : es[j][n] # None => es[j][n] \in Inodes /\ io2[es[j][n]] = io[es[j][n]]
  <2>1. ASSUME NEW j \in Inodes, NEW n \in UNames, es[j][n] # None
        PROVE  es[j][n] \in Inodes /\ io2[es[j][n]] = io[es[j][n]]
    <3>1. es[j][n] \in Inodes
      BY <1>1, <2>1 DEF DirT, Inodes, None
    <3>2. Named(es, es[j][n])
      BY DEF Named
    <3>. QED  BY <1>3, <3>1, <3>2
  <2>. QED  BY <2>1
<1>7. \A j \in Inodes, n \in UNames : es[j][n] # None => io2[j] = io[j]
  <2>1. ASSUME NEW j \in Inodes, NEW n \in UNames, es[j][n] # None, io2[j] # io[j] PROVE FALSE
    <3>1. j # HostRoot /\ ~Named(es, j)
      BY <1>3, <2>1
    <3>2. es[j] = NoEnts
      BY <1>2, <3>1 DEF Roots
    <3>. QED  BY <2>1, <3>2 DEF NoEnts
  <2>. QED  BY <2>1
<1>8. Tree(mp, es, io2)
  <2>1. ASSUME NEW j \in Inodes, io2[j].kind = "none" PROVE io2[j] = NoInode
    BY <1>2, <1>3, <2>1 DEF Tree
  <2>2. io2[HostRoot].kind = "dir" /\ io2[HostRoot].as = "host"
    BY <1>2, <1>3 DEF Tree
  <2>3. ASSUME NEW j \in Inodes, NEW n \in UNames, es[j][n] # None
        PROVE  io2[j].kind = "dir" /\ es[j][n] # HostRoot /\ io2[es[j][n]].kind # "none"
    <3>1. io[j].kind = "dir" /\ es[j][n] # HostRoot /\ io[es[j][n]].kind # "none"
      BY <1>2, <2>3 DEF Tree
    <3>. QED  BY <1>6, <1>7, <2>3, <3>1
  <2>4. ASSUME NEW j \in Inodes, NEW k \in Inodes, NEW n \in UNames, NEW l \in UNames,
               es[j][n] # None, es[j][n] = es[k][l], mp \/ io2[es[j][n]].kind = "dir"
        PROVE  j = k /\ n = l
    <3>1. mp \/ io[es[j][n]].kind = "dir"
      BY <1>6, <2>4
    <3>. QED  BY <1>2, <2>4, <3>1 DEF Tree
  <2>. QED  BY <2>1, <2>2, <2>3, <2>4 DEF Tree
<1>9. \A d \in Fds : ds[d] # None => ds[d] \in Inodes /\ io2[ds[d]] = io[ds[d]]
  <2>1. ASSUME NEW d \in Fds, ds[d] # None PROVE ds[d] \in Inodes /\ io2[ds[d]] = io[ds[d]]
    <3>1. ds[d] \in Inodes
      BY <1>1, <2>1 DEF Inodes, None
    <3>2. IsOpen(ds, ds[d])
      BY DEF IsOpen
    <3>. QED  BY <1>3, <3>1, <3>2
  <2>. QED  BY <2>1
<1>10. Descs(io2, ds, u)
  BY <1>2, <1>9 DEF Descs
<1>11. \A p \in Seq(UNames) : FollowIn(es, p) # None => FollowIn(es, p) \in Inodes /\ io2[FollowIn(es, p)] = io[FollowIn(es, p)]
  <2>1. ASSUME NEW p \in Seq(UNames), FollowIn(es, p) # None
        PROVE  FollowIn(es, p) \in Inodes /\ io2[FollowIn(es, p)] = io[FollowIn(es, p)]
    <3>1. FollowIn(es, p) \in Inodes
      BY <1>1, <2>1, FollowType
    <3>2. FollowIn(es, p) = HostRoot \/ Named(es, FollowIn(es, p))
      BY <1>1, <2>1, PathNamed
    <3>. QED  BY <1>3, <3>1, <3>2
  <2>. QED  BY <2>1
<1>12. Fids(mp, es, io2, ds, u)
  <2>1. ASSUME NEW y \in UFids
        PROVE  /\ ~u[y].used => u[y] = Unused
               /\ OnFile(mp, es, io2, ds, u[y]) /\ JobOn(mp, es, io2, u[y])
    <3>1. (~u[y].used => u[y] = Unused) /\ OnFile(mp, es, io, ds, u[y]) /\ JobOn(mp, es, io, u[y])
      BY <1>2 DEF Fids
    <3>2. \A d \in HeldIn(u[y]) : io2[ds[d]] = io[ds[d]]
      BY <1>1, <1>2, <1>9, HeldIs DEF Descs
    <3>3. OnFile(mp, es, io2, ds, u[y])
      BY <3>1, <3>2 DEF OnFile
    <3>4. u[y].job.path \in Seq(UNames)
      BY <1>1, JobKinds
    <3>5. FollowIn(es, u[y].job.path) # None => io2[FollowIn(es, u[y].job.path)] = io[FollowIn(es, u[y].job.path)]
      BY <1>11, <3>4
    <3>6. AtWork(u[y]) => io2[u[y].job.ino] = io[u[y].job.ino]
      BY <3>1, <3>5 DEF JobOn
    <3>7. JobOn(mp, es, io2, u[y])
      BY <3>1, <3>5, <3>6 DEF JobOn
    <3>. QED  BY <3>1, <3>3, <3>7
  <2>. QED  BY <2>1 DEF Fids
<1>13. Whole(mp, es, io2, ds, u, S2)
  <2>1. ASSUME mp, NEW j \in Inodes, io2[j].as \in Ours
        PROVE  /\ "mode" \in io2[j].attrs => io2[j].mode = io2[j].as
               /\ j \notin S2 /\ (Named(es, j) \/ IsOpen(ds, j)) /\ ~InWork(u, j)
                    => ToSet(Virtfs(io2[j].as)) \subseteq io2[j].attrs
    <3>1. io2[j] = io[j]
      BY <1>3, <1>4, <2>1 DEF Ours
    <3>2. j \notin S2 /\ (Named(es, j) \/ IsOpen(ds, j)) => j \notin S
      OBVIOUS
    <3>. QED  BY <1>2, <2>1, <3>1, <3>2 DEF Whole
  <2>. QED  BY <2>1 DEF Whole
<1>. QED  BY <1>2, <1>5, <1>8, <1>10, <1>12, <1>13 DEF Sound
\* The entries without one.
LEMMA EntryGone ==
    ASSUME NEW mp \in BOOLEAN, NEW es \in [Inodes -> DirT], NEW io \in [Inodes -> InodeT], Tree(mp, es, io), Roots(es),
           NEW d \in Inodes, NEW n \in UNames, es[d][n] # None, es[es[d][n]] = NoEnts,
           NEW es2 \in [Inodes -> DirT], Rewritten(es, es2, d, n, None)
    PROVE  /\ Tree(mp, es2, io) /\ Roots(es2)
           /\ \A j \in Inodes : Named(es2, j) => Named(es, j)
           /\ mp \/ io[es[d][n]].kind = "dir" => ~Named(es2, es[d][n])
           /\ \A j \in Inodes : j # es[d][n] /\ Named(es, j) => Named(es2, j)
<1>1. \A j \in Inodes, m \in UNames : es2[j][m] = IF j = d /\ m = n THEN None ELSE es[j][m]
  BY DEF Rewritten
<1>2. \A j \in Inodes, m \in UNames : es2[j][m] # None => es2[j][m] = es[j][m] /\ ~(j = d /\ m = n)
  BY <1>1
<1>3. \A j \in Inodes : j # None
  BY DEF Inodes, None
<1>4. \A j \in Inodes : Named(es2, j) => Named(es, j)
  BY <1>2, <1>3 DEF Named
<1>5. \A j \in Inodes : j # es[d][n] /\ Named(es, j) => Named(es2, j)
  <2>1. ASSUME NEW j \in Inodes, j # es[d][n], Named(es, j) PROVE Named(es2, j)
    <3>1. PICK k \in Inodes, m \in UNames : es[k][m] = j
      BY <2>1 DEF Named
    <3>2. es2[k][m] = j
      BY <1>1, <2>1, <3>1
    <3>. QED  BY <3>2 DEF Named
  <2>. QED  BY <2>1
<1>6. es[d][n] \in Inodes /\ es[d][n] # d
  <2>1. es[d][n] \in 0..MaxInodes
    BY DEF DirT
  <2>2. es[d][n] # d
    BY DEF NoEnts
  <2>. QED  BY <2>1, <2>2 DEF Inodes, None
<1>7. \A j \in Inodes \ {d} : es2[j] = es[j]
  BY Untouched
<1>8. Tree(mp, es2, io)
  <2>1. ASSUME NEW j \in Inodes, NEW m \in UNames, es2[j][m] # None
        PROVE  io[j].kind = "dir" /\ es2[j][m] # HostRoot /\ io[es2[j][m]].kind # "none"
    BY <1>2, <2>1 DEF Tree
  <2>2. ASSUME NEW j \in Inodes, NEW k \in Inodes, NEW m \in UNames, NEW l \in UNames,
               es2[j][m] # None, es2[j][m] = es2[k][l], mp \/ io[es2[j][m]].kind = "dir"
        PROVE  j = k /\ m = l
    <3>1. es2[j][m] = es[j][m] /\ es2[k][l] = es[k][l]
      BY <1>2, <2>2
    <3>2. es[j][m] # None /\ es[j][m] = es[k][l] /\ (mp \/ io[es[j][m]].kind = "dir")
      BY <2>2, <3>1
    <3>. QED  BY <3>2 DEF Tree
  <2>. QED  BY <2>1, <2>2 DEF Tree
<1>9. Roots(es2)
  <2>1. ASSUME NEW j \in Inodes, j # HostRoot, ~Named(es2, j) PROVE es2[j] = NoEnts
    <3>1. CASE j = es[d][n]
      BY <1>6, <1>7, <3>1
    <3>2. CASE j # es[d][n]
      <4>1. es[j] = NoEnts
        BY <1>5, <2>1, <3>2 DEF Roots
      <4>2. j # d
        BY <4>1 DEF NoEnts
      <4>. QED  BY <1>7, <4>1, <4>2
    <3>. QED  BY <3>1, <3>2
  <2>. QED  BY <2>1 DEF Roots
<1>10. ASSUME mp \/ io[es[d][n]].kind = "dir", Named(es2, es[d][n]) PROVE FALSE
  <2>1. PICK j \in Inodes, m \in UNames : es2[j][m] = es[d][n]
    BY <1>10 DEF Named
  <2>2. es[j][m] = es[d][n] /\ ~(j = d /\ m = n)
    BY <1>2, <2>1
  <2>3. es[j][m] # None /\ (mp \/ io[es[j][m]].kind = "dir")
    BY <1>10, <2>2
  <2>. QED  BY <2>2, <2>3 DEF Tree
<1>. QED  BY <1>4, <1>5, <1>8, <1>9, <1>10

\* The name n goes from the directory at p, where nobody stands.
Leaves(es, u, es2, p, n) ==
    /\ FollowIn(es, p) # None /\ es[FollowIn(es, p)][n] # None /\ es[es[FollowIn(es, p)][n]] = NoEnts
    /\ Rewritten(es, es2, FollowIn(es, p), n, None)
    /\ Vacant(u, Append(p, n))

\* That leaves everything else as it was.
LEMMA NameGone ==
    ASSUME NEW mp \in BOOLEAN, NEW es, NEW io, NEW ds, NEW u, Typed(es, io, ds, u), NEW S,
           Sound(mp, es, io, ds, u, S),
           NEW p \in Seq(UNames), NEW n \in UNames,
           NEW es2 \in [Inodes -> DirT], Leaves(es, u, es2, p, n)
    PROVE  /\ Sound(mp, es2, io, ds, u, S)
           /\ FollowIn(es2, Append(p, n)) = None
           /\ SameBut(es, es2, Append(p, n))
           /\ mp => ~Named(es2, es[FollowIn(es, p)][n])
<1>0. /\ FollowIn(es, p) # None /\ es[FollowIn(es, p)][n] # None /\ es[es[FollowIn(es, p)][n]] = NoEnts
      /\ Rewritten(es, es2, FollowIn(es, p), n, None)
      /\ Vacant(u, Append(p, n))
  BY DEF Leaves
<1>1. /\ es \in [Inodes -> DirT] /\ io \in [Inodes -> InodeT] /\ ds \in [Fds -> 0..MaxInodes] /\ u \in [UFids -> FidT]
      /\ \A y \in UFids : u[y] \in FidT
      /\ Tree(mp, es, io) /\ Roots(es) /\ Fids(mp, es, io, ds, u) /\ Apart(u)
  BY DEF Typed, Sound
<1>2. FollowIn(es, p) \in Inodes
  BY <1>0, <1>1, FollowType
<1>3. io[FollowIn(es, p)].kind = "dir"
  BY <1>0, <1>1, <1>2 DEF Tree
<1>4. None \in 0..MaxInodes
  BY NpUfsAssumption DEF None
<1>5. SameBut(es, es2, Append(p, n)) /\ FollowIn(es2, Append(p, n)) = None
  <2>1. /\ Rewritten(es, es2, FollowIn(es, p), n, None) /\ Tree(mp, es, io)
        /\ FollowIn(es, p) # None /\ io[FollowIn(es, p)].kind = "dir"
    BY <1>0, <1>1, <1>3
  <2>. QED  BY <1>1, <1>4, <2>1, Changed
<1>. DEFINE d == FollowIn(es, p)
<1>. HIDE DEF d
<1>6. /\ d \in Inodes /\ Rewritten(es, es2, d, n, None) /\ es[d][n] # None /\ es[es[d][n]] = NoEnts
  BY <1>0, <1>2 DEF d
<1>7. /\ Tree(mp, es2, io) /\ Roots(es2)
      /\ \A j \in Inodes : Named(es2, j) => Named(es, j)
      /\ mp => ~Named(es2, es[d][n])
  BY <1>1, <1>6, EntryGone
<1>8. Typed(es2, io, ds, u)
  BY DEF Typed
<1>9. /\ \A y \in UFids : u[y].used => FollowIn(es2, u[y].path) = FollowIn(es, u[y].path)
      /\ \A y \in UFids : u[y].job.k # "no" => FollowIn(es2, u[y].job.path) = FollowIn(es, u[y].job.path)
  BY <1>0, <1>1, <1>5, JobKinds DEF Vacant, SameBut
<1>10. \A y \in UFids : AtWork(u[y]) => es2[u[y].job.ino] = NoEnts
  <2>1. ASSUME NEW y \in UFids, AtWork(u[y]) PROVE es2[u[y].job.ino] = NoEnts
    <3>1. u[y].job.ino \in Inodes /\ es[u[y].job.ino] = NoEnts
      BY <2>1, WorkIs
    <3>2. u[y].job.ino # d
      BY <1>6, <3>1 DEF NoEnts
    <3>. QED  BY <1>1, <1>6, <3>1, <3>2, Untouched
  <2>. QED  BY <2>1
<1>11. \A y, z \in UFids : AtWork(u[y]) /\ u[z].used => ~IsPrefix(u[y].job.path, u[z].path)
  BY <1>1 DEF Apart
<1>12. \A i \in Inodes : mp /\ Named(es2, i) => i \in S \/ Named(es, i)
  BY <1>7
<1>13. Sound(mp, es2, io, ds, u, S)
  BY <1>7, <1>8, <1>9, <1>10, <1>11, <1>12, Rewired
<1>. QED  BY <1>5, <1>7, <1>13 DEF d
\* The tree with an entry that goes, or becomes one of an inode it may be of.
LEMMA TreePut ==
    ASSUME NEW mp \in BOOLEAN, NEW es \in [Inodes -> DirT], NEW io \in [Inodes -> InodeT], Tree(mp, es, io),
           NEW es2 \in [Inodes -> DirT], NEW d \in Inodes, NEW n \in UNames, NEW v \in 0..MaxInodes,
           Rewritten(es, es2, d, n, v), io[d].kind = "dir",
           v # None => v # HostRoot /\ io[v].kind # "none" /\ ((mp \/ io[v].kind = "dir") => ~Named(es, v))
    PROVE  Tree(mp, es2, io)
<1>1. \A j \in Inodes, m \in UNames : es2[j][m] = IF j = d /\ m = n THEN v ELSE es[j][m]
  BY DEF Rewritten
<1>2. ASSUME NEW j \in Inodes, NEW m \in UNames, es2[j][m] # None
      PROVE  io[j].kind = "dir" /\ es2[j][m] # HostRoot /\ io[es2[j][m]].kind # "none"
  <2>1. CASE j = d /\ m = n
    BY <1>1, <1>2, <2>1
  <2>2. CASE ~(j = d /\ m = n)
    BY <1>1, <1>2, <2>2 DEF Tree
  <2>. QED  BY <2>1, <2>2
<1>3. ASSUME NEW j \in Inodes, NEW k \in Inodes, NEW m \in UNames, NEW l \in UNames,
             es2[j][m] # None, es2[j][m] = es2[k][l], mp \/ io[es2[j][m]].kind = "dir"
      PROVE  j = k /\ m = l
  <2>1. CASE ~(j = d /\ m = n) /\ ~(k = d /\ l = n)
    <3>1. es[j][m] # None /\ es[j][m] = es[k][l] /\ (mp \/ io[es[j][m]].kind = "dir")
      BY <1>1, <1>3, <2>1
    <3>. QED  BY <3>1 DEF Tree
  <2>2. CASE j = d /\ m = n /\ ~(k = d /\ l = n)
    <3>1. es[k][l] = v /\ v # None /\ (mp \/ io[v].kind = "dir")
      BY <1>1, <1>3, <2>2
    <3>. QED  BY <3>1 DEF Named
  <2>3. CASE ~(j = d /\ m = n) /\ k = d /\ l = n
    <3>1. es[j][m] = v /\ v # None /\ (mp \/ io[v].kind = "dir")
      BY <1>1, <1>3, <2>3
    <3>. QED  BY <3>1 DEF Named
  <2>. QED  BY <2>1, <2>2, <2>3
<1>. QED  BY <1>2, <1>3 DEF Tree

\* An entry moves, over one of an empty inode if there is one.
LEMMA EntryMoved ==
    ASSUME NEW mp \in BOOLEAN, NEW es \in [Inodes -> DirT], NEW io \in [Inodes -> InodeT], Tree(mp, es, io), Roots(es),
           NEW d \in Inodes, NEW n \in UNames, NEW v \in Inodes, es[d][n] = v,
           NEW e \in Inodes, NEW m \in UNames, es[e][m] # v, io[e].kind = "dir", e = HostRoot \/ Named(es, e),
           es[e][m] # None => es[es[e][m]] = NoEnts,
           NEW es1 \in [Inodes -> DirT], Rewritten(es, es1, d, n, None),
           NEW es2 \in [Inodes -> DirT], Rewritten(es1, es2, e, m, v)
    PROVE  /\ Tree(mp, es1, io) /\ Tree(mp, es2, io) /\ Roots(es2)
           /\ \A j \in Inodes : Named(es2, j) => Named(es, j)
<1>1. /\ v # None /\ None \in 0..MaxInodes /\ v \in 0..MaxInodes
      /\ \A j \in Inodes : j # None
  BY NpUfsAssumption DEF Inodes, None
<1>2. \A j \in Inodes, l \in UNames : es1[j][l] = IF j = d /\ l = n THEN None ELSE es[j][l]
  BY DEF Rewritten
<1>3. \A j \in Inodes, l \in UNames : es2[j][l] = IF j = e /\ l = m THEN v ELSE es1[j][l]
  BY DEF Rewritten
<1>4. io[d].kind = "dir" /\ v # HostRoot /\ io[v].kind # "none"
  BY <1>1 DEF Tree
<1>5. Tree(mp, es1, io)
  BY <1>1, <1>4, TreePut
<1>6. (mp \/ io[v].kind = "dir") => ~Named(es1, v)
  <2>1. ASSUME mp \/ io[v].kind = "dir", NEW j \in Inodes, NEW l \in UNames, es1[j][l] = v PROVE FALSE
    <3>1. es[j][l] = v /\ ~(j = d /\ l = n)
      BY <1>1, <1>2, <2>1
    <3>2. es[j][l] # None /\ es[j][l] = es[d][n] /\ (mp \/ io[es[j][l]].kind = "dir")
      BY <1>1, <2>1, <3>1
    <3>. QED  BY <3>1, <3>2 DEF Tree
  <2>. QED  BY <2>1 DEF Named
<1>7. Tree(mp, es2, io)
  BY <1>1, <1>4, <1>5, <1>6, TreePut
<1>8. \A j \in Inodes : Named(es2, j) => Named(es, j)
  <2>1. ASSUME NEW j \in Inodes, NEW k \in Inodes, NEW l \in UNames, es2[k][l] = j PROVE Named(es, j)
    <3>1. CASE k = e /\ l = m
      BY <1>3, <2>1, <3>1 DEF Named
    <3>2. CASE ~(k = e /\ l = m)
      <4>1. es[k][l] = j
        BY <1>1, <1>2, <1>3, <2>1, <3>2
      <4>. QED  BY <4>1 DEF Named
    <3>. QED  BY <3>1, <3>2
  <2>. QED  BY <2>1 DEF Named
<1>9. ASSUME NEW j \in Inodes, j # HostRoot, ~Named(es2, j) PROVE es2[j] = NoEnts
  <2>1. j # v
    <3>1. es2[e][m] = v
      BY <1>3
    <3>. QED  BY <1>9, <3>1 DEF Named
  <2>2. es[j] = NoEnts /\ j # e
    <3>1. CASE j = es[e][m]
      <4>1. es[e][m] # None
        BY <1>1, <3>1
      <4>2. es[j] = NoEnts
        BY <3>1, <4>1
      <4>3. j # e
        BY <3>1, <4>1, <4>2 DEF NoEnts
      <4>. QED  BY <4>2, <4>3
    <3>2. CASE j # es[e][m]
      <4>1. ~Named(es, j)
        <5>1. ASSUME NEW k \in Inodes, NEW l \in UNames, es[k][l] = j PROVE FALSE
          <6>1. ~(k = e /\ l = m) /\ ~(k = d /\ l = n)
            BY <2>1, <3>2, <5>1
          <6>2. es2[k][l] = j
            BY <1>2, <1>3, <5>1, <6>1
          <6>. QED  BY <1>9, <6>2 DEF Named
        <5>. QED  BY <5>1 DEF Named
      <4>2. es[j] = NoEnts
        BY <1>9, <4>1 DEF Roots
      <4>3. j # e
        BY <1>9, <4>1
      <4>. QED  BY <4>2, <4>3
    <3>. QED  BY <3>1, <3>2
  <2>3. j # d
    BY <1>1, <2>2 DEF NoEnts
  <2>4. es1[j] = es[j] /\ es2[j] = es1[j]
    BY <2>2, <2>3, Untouched
  <2>. QED  BY <2>2, <2>4
<1>. QED  BY <1>5, <1>7, <1>8, <1>9 DEF Roots

\* Nobody stands on the path from or to, but one that moves with it.
Moves(u, u2, from, to) ==
    \A y \in UFids :
        /\ u2[y].job = u[y].job /\ u2[y].used = u[y].used /\ u2[y].isdir = u[y].isdir
        /\ u2[y].fd = u[y].fd /\ u2[y].dir = u[y].dir
        /\ ~u[y].used => u2[y] = u[y]
        /\ u[y].used => \/ u[y].path = from /\ u2[y].path = to
                        \/ u2[y].path = u[y].path /\ ~IsPrefix(from, u[y].path) /\ ~IsPrefix(to, u[y].path)
        /\ u[y].job.k # "no" => ~IsPrefix(from, u[y].job.path) /\ ~IsPrefix(to, u[y].job.path)
        /\ AtWork(u[y]) => ~IsPrefix(u[y].job.path, Front(to))

\* The file at path from gets the name to.
MovedTo(es, es2, from, to) ==
    \/ FollowIn(es, from) = FollowIn(es, to) /\ es2 = es
    \/ /\ FollowIn(es, from) # FollowIn(es, to)
       /\ \E es1 \in [Inodes -> DirT] :
            /\ Rewritten(es, es1, FollowIn(es, Front(from)), Last(from), None)
            /\ Rewritten(es1, es2, FollowIn(es, Front(to)), Last(to), FollowIn(es, from))

\* What MayRename asks.
MayMove(es, io, from, to) ==
    /\ from # <<>> /\ FollowIn(es, from) # None /\ IsDir(es, io, Front(to))
    /\ ~IsPrefix(from, to) /\ ~IsPrefix(to, from)
    /\ FollowIn(es, to) # None => es[FollowIn(es, to)] = NoEnts

\* Every path begins at the root.
LEMMA RootPrefix ==
    ASSUME NEW p \in Seq(UNames)
    PROVE  IsPrefix(<<>>, p)
<1>1. <<>> \in Seq(UNames) /\ Len(<<>>) = 0 /\ Len(p) \in Nat
  OBVIOUS
<1>2. IsPrefix(<<>>, p) <=> Len(<<>>) <= Len(p) /\ \A k \in 1..Len(<<>>) : <<>>[k] = p[k]
  BY <1>1, PrefixIs
<1>. QED  BY <1>1, <1>2

\* What a path and a name may stand on.
LEMMA PrefixOfNext ==
    ASSUME NEW p \in Seq(UNames), NEW q \in Seq(UNames), NEW n \in UNames
    PROVE  IsPrefix(p, Append(q, n)) <=> p = Append(q, n) \/ IsPrefix(p, q)
BY PrefixLaws

\* A file is renamed where nobody else stands.
LEMMA NameMoved ==
    ASSUME NEW mp \in BOOLEAN, NEW es, NEW io, NEW ds, NEW u, Typed(es, io, ds, u), NEW S,
           Sound(mp, es, io, ds, u, S),
           NEW from \in Seq(UNames), NEW to \in Seq(UNames), MayMove(es, io, from, to),
           NEW es2 \in [Inodes -> DirT], MovedTo(es, es2, from, to),
           NEW u2 \in [UFids -> FidT], Moves(u, u2, from, to)
    PROVE  Sound(mp, es2, io, ds, u2, S)
<1>1. /\ es \in [Inodes -> DirT] /\ io \in [Inodes -> InodeT] /\ ds \in [Fds -> 0..MaxInodes] /\ u \in [UFids -> FidT]
      /\ \A y \in UFids : u[y] \in FidT /\ u2[y] \in FidT
      /\ Tree(mp, es, io) /\ Roots(es) /\ Fids(mp, es, io, ds, u) /\ Apart(u)
  BY DEF Typed, Sound
<1>. DEFINE d == FollowIn(es, Front(from))
            n == Last(from)
            v == FollowIn(es, from)
            e == FollowIn(es, Front(to))
            m == Last(to)
<1>2. to # <<>>
  <2>1. IsPrefix(<<>>, from)
    BY RootPrefix
  <2>. QED  BY <2>1 DEF MayMove
<1>3. /\ Front(from) \in Seq(UNames) /\ n \in UNames /\ from = Append(Front(from), n)
      /\ d \in Inodes /\ d # None /\ v \in Inodes /\ v # None /\ es[d][n] = v
  BY <1>1, LastStep DEF MayMove
<1>4. Front(to) \in Seq(UNames) /\ m \in UNames /\ to = Append(Front(to), m)
  BY <1>2, PathParts
<1>5. /\ e \in Inodes /\ e # None /\ io[e].kind = "dir" /\ (e = HostRoot \/ Named(es, e))
      /\ es[e][m] = FollowIn(es, to)
  <2>1. FollowIn(es, Append(Front(to), m)) = IF e = None THEN None ELSE es[e][m]
    BY <1>4, FollowLaws
  <2>2. e # None /\ io[e].kind = "dir"
    BY DEF MayMove, IsDir
  <2>3. e \in Inodes
    BY <1>1, <1>4, <2>2, FollowType
  <2>. QED  BY <1>1, <1>4, <2>1, <2>2, <2>3, PathNamed
<1>6. \A q \in Seq(UNames) : ~IsPrefix(from, q) /\ ~IsPrefix(to, q) => FollowIn(es2, q) = FollowIn(es, q)
  <2>1. CASE es2 = es
    BY <2>1
  <2>2. CASE v # FollowIn(es, to)
    <3>1. PICK es1 \in [Inodes -> DirT] : Rewritten(es, es1, d, n, None) /\ Rewritten(es1, es2, e, m, v)
      BY <2>2 DEF MovedTo
    <3>2. None \in 0..MaxInodes /\ v \in 0..MaxInodes
      BY <1>3, NpUfsAssumption DEF None, Inodes
    <3>3. io[d].kind = "dir"
      BY <1>1, <1>3 DEF Tree
    <3>4. SameBut(es, es1, from)
      <4>1. SameBut(es, es1, Append(Front(from), n))
        BY <1>1, <1>3, <3>1, <3>2, <3>3, Changed
      <4>. QED  BY <1>3, <4>1
    <3>5. es[e][m] # None => es[es[e][m]] = NoEnts
      BY <1>5 DEF MayMove
    <3>6. es[e][m] # v
      BY <1>5, <2>2
    <3>7. Tree(mp, es1, io)
      <4>. HIDE DEF d, n, v, e, m
      <4>. QED  BY <1>1, <1>3, <1>4, <1>5, <3>1, <3>5, <3>6, EntryMoved
    <3>8. FollowIn(es1, Front(to)) = e
      <4>1. ~IsPrefix(from, Front(to))
        <5>1. IsPrefix(from, Append(Front(to), m)) <=> from = Append(Front(to), m) \/ IsPrefix(from, Front(to))
          BY <1>4, PrefixLaws
        <5>. QED  BY <1>4, <5>1 DEF MayMove
      <4>. QED  BY <1>4, <3>4, <4>1 DEF SameBut
    <3>9. SameBut(es1, es2, to)
      <4>1. /\ Rewritten(es1, es2, FollowIn(es1, Front(to)), m, v) /\ FollowIn(es1, Front(to)) # None
            /\ io[FollowIn(es1, Front(to))].kind = "dir"
        BY <1>5, <3>1, <3>8
      <4>2. SameBut(es1, es2, Append(Front(to), m))
        BY <1>1, <1>4, <3>2, <3>7, <4>1, Changed
      <4>. QED  BY <1>4, <4>2
    <3>. QED  BY <3>4, <3>9 DEF SameBut
  <2>. QED  BY <2>1, <2>2 DEF MovedTo
<1>7. FollowIn(es2, to) = v
  <2>1. CASE es2 = es /\ v = FollowIn(es, to)
    BY <2>1
  <2>2. CASE v # FollowIn(es, to)
    <3>1. PICK es1 \in [Inodes -> DirT] : Rewritten(es, es1, d, n, None) /\ Rewritten(es1, es2, e, m, v)
      BY <2>2 DEF MovedTo
    <3>2. ~IsPrefix(from, Front(to)) /\ ~IsPrefix(to, Front(to))
      <4>1. /\ IsPrefix(from, Append(Front(to), m)) <=> from = Append(Front(to), m) \/ IsPrefix(from, Front(to))
            /\ ~IsPrefix(Append(Front(to), m), Front(to))
        BY <1>4, PrefixLaws
      <4>. QED  BY <1>4, <4>1 DEF MayMove
    <3>3. FollowIn(es2, Front(to)) = e
      BY <1>4, <1>6, <3>2
    <3>4. es2[e][m] = v
      BY <1>4, <1>5, <3>1 DEF Rewritten
    <3>5. FollowIn(es2, Append(Front(to), m)) = IF FollowIn(es2, Front(to)) = None THEN None ELSE es2[FollowIn(es2, Front(to))][m]
      BY <1>4, FollowLaws
    <3>. QED  BY <1>4, <1>5, <3>3, <3>4, <3>5
  <2>. QED  BY <2>1, <2>2 DEF MovedTo
<1>8. /\ Tree(mp, es2, io) /\ Roots(es2)
      /\ \A j \in Inodes : Named(es2, j) => Named(es, j)
  <2>1. CASE es2 = es
    BY <1>1, <2>1
  <2>2. CASE v # FollowIn(es, to)
    <3>1. PICK es1 \in [Inodes -> DirT] : Rewritten(es, es1, d, n, None) /\ Rewritten(es1, es2, e, m, v)
      BY <2>2 DEF MovedTo
    <3>2. es[e][m] # None => es[es[e][m]] = NoEnts
      BY <1>5 DEF MayMove
    <3>3. es[e][m] # v
      BY <1>5, <2>2
    <3>. HIDE DEF d, n, v, e, m
    <3>. QED  BY <1>1, <1>3, <1>4, <1>5, <3>1, <3>2, <3>3, EntryMoved
  <2>. QED  BY <2>1, <2>2 DEF MovedTo
<1>9. Typed(es2, io, ds, u2)
  BY DEF Typed
<1>10. \A y \in UFids : u[y].used => FollowIn(es2, u2[y].path) = FollowIn(es, u[y].path)
  <2>1. ASSUME NEW y \in UFids, u[y].used PROVE FollowIn(es2, u2[y].path) = FollowIn(es, u[y].path)
    <3>1. u[y].path \in Seq(UNames)
      BY <1>1, JobKinds
    <3>2. \/ u[y].path = from /\ u2[y].path = to
          \/ u2[y].path = u[y].path /\ ~IsPrefix(from, u[y].path) /\ ~IsPrefix(to, u[y].path)
      BY <2>1 DEF Moves
    <3>. QED  BY <1>6, <1>7, <3>1, <3>2
  <2>. QED  BY <2>1
<1>11. \A y \in UFids : u[y].job.k # "no" => FollowIn(es2, u[y].job.path) = FollowIn(es, u[y].job.path)
  BY <1>1, <1>6, JobKinds DEF Moves
<1>12. \A y \in UFids : AtWork(u[y]) => es2[u[y].job.ino] = NoEnts
  <2>1. ASSUME NEW y \in UFids, AtWork(u[y]), es2 # es PROVE es2[u[y].job.ino] = NoEnts
    <3>1. u[y].job.ino \in Inodes /\ es[u[y].job.ino] = NoEnts /\ u[y].job.path \in Seq(UNames)
      BY <2>1, WorkIs
    <3>2. u[y].job.ino # d
      BY <1>3, <3>1 DEF NoEnts
    <3>3. u[y].job.path # Front(to)
      BY <1>4, <2>1, <3>1, PrefixLaws DEF Moves
    <3>4. u[y].job.ino # e
      BY <1>4, <2>1, <3>3, WorkElsewhere
    <3>5. PICK es1 \in [Inodes -> DirT] : Rewritten(es, es1, d, n, None) /\ Rewritten(es1, es2, e, m, v)
      BY <2>1 DEF MovedTo
    <3>6. es1[u[y].job.ino] = es[u[y].job.ino]
      <4>1. \A i \in Inodes \ {d} : es1[i] = es[i]
        <5>. HIDE DEF d, n
        <5>. QED  BY <1>1, <3>5, Untouched, ZenonT(30)
      <4>. QED  BY <3>1, <3>2, <4>1
    <3>7. es2[u[y].job.ino] = es1[u[y].job.ino]
      <4>1. \A i \in Inodes \ {e} : es2[i] = es1[i]
        <5>. HIDE DEF e, m, v
        <5>. QED  BY <3>5, Untouched
      <4>. QED  BY <3>1, <3>4, <4>1
    <3>. QED  BY <3>1, <3>6, <3>7
  <2>2. ASSUME NEW y \in UFids, AtWork(u[y]), es2 = es PROVE es2[u[y].job.ino] = NoEnts
    BY <2>2, WorkIs
  <2>. QED  BY <2>1, <2>2
<1>13. \A y, z \in UFids : AtWork(u[y]) /\ u[z].used => ~IsPrefix(u[y].job.path, u2[z].path)
  <2>1. ASSUME NEW y \in UFids, NEW z \in UFids, AtWork(u[y]), u[z].used
        PROVE  ~IsPrefix(u[y].job.path, u2[z].path)
    <3>1. ~IsPrefix(u[y].job.path, u[z].path)
      BY <1>1, <2>1 DEF Apart
    <3>2. u[y].job.path \in Seq(UNames) /\ u[y].job.k # "no"
      BY <2>1, WorkIs
    <3>3. ~IsPrefix(u[y].job.path, Front(to)) /\ ~IsPrefix(to, u[y].job.path)
      BY <2>1, <3>2 DEF Moves
    <3>4. IsPrefix(to, to)
      BY PrefixLaws
    <3>5. ~IsPrefix(u[y].job.path, Append(Front(to), m))
      <4>1. u[y].job.path # to
        BY <3>3, <3>4
      <4>2. IsPrefix(u[y].job.path, Append(Front(to), m))
              <=> u[y].job.path = Append(Front(to), m) \/ IsPrefix(u[y].job.path, Front(to))
        BY <1>4, <3>2, PrefixOfNext
      <4>. QED  BY <1>4, <3>3, <4>1, <4>2
    <3>6. u2[z].path = to \/ u2[z].path = u[z].path
      BY <2>1 DEF Moves
    <3>. QED  BY <1>4, <3>1, <3>5, <3>6
  <2>. QED  BY <2>1
<1>14. \A y \in UFids : /\ u2[y].job = u[y].job /\ u2[y].used = u[y].used /\ u2[y].isdir = u[y].isdir
                        /\ u2[y].fd = u[y].fd /\ u2[y].dir = u[y].dir
                        /\ ~u[y].used => u2[y] = u[y]
  BY DEF Moves
<1>15. \A i \in Inodes : mp /\ Named(es2, i) => i \in S \/ Named(es, i)
  BY <1>8
<1>. QED  BY <1>8, <1>9, <1>10, <1>11, <1>12, <1>13, <1>14, <1>15, Rewired
\* More names and descriptors keep what they kept, and what comes has one.
LEMMA KeptGrows ==
    ASSUME NEW es, NEW io, NEW ds, Kept(es, io, ds), NEW es2, NEW io2, NEW ds2,
           \A i \in Inodes : Named(es, i) => Named(es2, i),
           \A i \in Inodes : IsOpen(ds, i) => IsOpen(ds2, i),
           \A i \in Inodes : io2[i].kind # "none" => io[i].kind # "none" \/ Named(es2, i) \/ IsOpen(ds2, i)
    PROVE  Kept(es2, io2, ds2)
BY DEF Kept

\* All fids are new, with the paths they had, and those that were open have their
\* file open again.
Reborn(es, ds2, u, u2, d) ==
    /\ \A x, y \in UFids : x # y => d[x] # d[y]
    /\ \A x \in UFids : ~u[x].used => u2[x] = u[x]
    /\ \A x \in UFids : u[x].used =>
         /\ u2[x].used /\ u2[x].path = u[x].path /\ u2[x].job = NoJob
         /\ u2[x].fd # None => u2[x].fd # u2[x].dir
         /\ HeldIn(u2[x]) = IF u[x].omode = "no" THEN {} ELSE {d[x]}
         /\ u[x].omode # "no" => ds2[d[x]] = FollowIn(es, u[x].path)
    /\ \A e \in Fds : ds2[e] # None => \E x \in UFids : u[x].used /\ u[x].omode # "no" /\ d[x] = e

\* A restored connection.
LEMMA FidsReborn ==
    ASSUME NEW mp \in BOOLEAN, NEW es, NEW io, NEW ds, NEW u, Typed(es, io, ds, u), NEW S,
           Sound(mp, es, io, ds, u, S),
           \A x \in UFids : u[x].used => u[x].job = NoJob /\ FollowIn(es, u[x].path) # None,
           NEW d \in [UFids -> Fds], NEW ds2 \in [Fds -> 0..MaxInodes], NEW u2 \in [UFids -> FidT],
           Reborn(es, ds2, u, u2, d)
    PROVE  Sound(mp, es, io, ds2, u2, S)
<1>1. /\ es \in [Inodes -> DirT] /\ io \in [Inodes -> InodeT] /\ ds \in [Fds -> 0..MaxInodes] /\ u \in [UFids -> FidT]
      /\ \A y \in UFids : u[y] \in FidT /\ u2[y] \in FidT
  BY DEF Typed
<1>2. /\ Tree(mp, es, io) /\ Roots(es) /\ Descs(io, ds, u) /\ Fids(mp, es, io, ds, u) /\ Apart(u)
      /\ Whole(mp, es, io, ds, u, S)
  BY DEF Sound
<1>3. Unused.job = NoJob /\ ~Unused.used /\ HeldIn(Unused) = {} /\ Unused.fd = None
  BY DEF Unused, UfsFid, HeldIn
<1>4. \A x \in UFids : ~u[x].used => u[x] = Unused /\ u2[x] = Unused
  BY <1>2 DEF Fids, Reborn
<1>5. \A x \in UFids : u[x].job = NoJob /\ u2[x].job = NoJob
  BY <1>3, <1>4 DEF Reborn
<1>6. \A x \in UFids : ~AtWork(u[x]) /\ ~AtWork(u2[x]) /\ u2[x].job.k = "no"
  BY <1>1, <1>5, JobKinds
<1>7. \A x \in UFids : u[x].used => /\ FollowIn(es, u[x].path) \in Inodes /\ io[FollowIn(es, u[x].path)].kind # "none"
                                    /\ FollowIn(es, u[x].path) = HostRoot \/ Named(es, FollowIn(es, u[x].path))
  <2>1. ASSUME NEW x \in UFids, u[x].used
        PROVE  /\ FollowIn(es, u[x].path) \in Inodes /\ io[FollowIn(es, u[x].path)].kind # "none"
               /\ FollowIn(es, u[x].path) = HostRoot \/ Named(es, FollowIn(es, u[x].path))
    <3>1. u[x].path \in Seq(UNames) /\ FollowIn(es, u[x].path) # None
      BY <1>1, <2>1, JobKinds
    <3>. QED  BY <1>1, <1>2, <3>1, PathLive, PathNamed
  <2>. QED  BY <2>1
<1>8. \A x \in UFids : \A e \in HeldIn(u2[x]) : /\ u[x].used /\ u[x].omode # "no" /\ e = d[x]
                                                /\ ds2[e] = FollowIn(es, u[x].path)
  <2>1. ASSUME NEW x \in UFids, NEW e \in HeldIn(u2[x])
        PROVE  u[x].used /\ u[x].omode # "no" /\ e = d[x] /\ ds2[e] = FollowIn(es, u[x].path)
    <3>1. u[x].used
      BY <1>3, <1>4, <2>1
    <3>. QED  BY <2>1, <3>1 DEF Reborn
  <2>. QED  BY <2>1
<1>9. Descs(io, ds2, u2)
  <2>1. ASSUME NEW e \in Fds, ds2[e] # None
        PROVE  io[ds2[e]].kind # "none" /\ \E y \in UFids : e \in HeldIn(u2[y])
    <3>1. PICK x \in UFids : u[x].used /\ u[x].omode # "no" /\ d[x] = e
      BY <2>1 DEF Reborn
    <3>2. ds2[e] = FollowIn(es, u[x].path) /\ HeldIn(u2[x]) = {e}
      BY <3>1 DEF Reborn
    <3>. QED  BY <1>7, <3>1, <3>2
  <2>2. ASSUME NEW x \in UFids
        PROVE  /\ u2[x].fd # None => u2[x].fd # u2[x].dir
               /\ \A e \in HeldIn(u2[x]) : ds2[e] # None /\ \A z \in UFids : e \in HeldIn(u2[z]) => z = x
    <3>1. u2[x].fd # None => u2[x].fd # u2[x].dir
      BY <1>3, <1>4 DEF Reborn
    <3>2. ASSUME NEW e \in HeldIn(u2[x])
          PROVE  ds2[e] # None /\ \A z \in UFids : e \in HeldIn(u2[z]) => z = x
      <4>1. ds2[e] # None
        BY <1>7, <1>8, <3>2 DEF Inodes, None
      <4>2. \A z \in UFids : e \in HeldIn(u2[z]) => d[z] = d[x]
        BY <1>8, <3>2
      <4>. QED  BY <4>1, <4>2 DEF Reborn
    <3>. QED  BY <3>1, <3>2
  <2>. QED  BY <2>1, <2>2 DEF Descs
<1>10. Fids(mp, es, io, ds2, u2)
  <2>1. ASSUME NEW x \in UFids
        PROVE  (~u2[x].used => u2[x] = Unused) /\ OnFile(mp, es, io, ds2, u2[x]) /\ JobOn(mp, es, io, u2[x])
    <3>1. ~u2[x].used => u2[x] = Unused
      BY <1>4 DEF Reborn
    <3>2. OnFile(mp, es, io, ds2, u2[x])
      <4>1. \A e \in HeldIn(u2[x]) : ds2[e] = FollowIn(es, u2[x].path)
        BY <1>8 DEF Reborn
      <4>. QED  BY <1>6, <4>1 DEF OnFile
    <3>3. JobOn(mp, es, io, u2[x])
      BY <1>5, <1>6 DEF JobOn
    <3>. QED  BY <3>1, <3>2, <3>3
  <2>. QED  BY <2>1 DEF Fids
<1>11. Apart(u2)
  BY <1>6 DEF Apart
<1>12. Whole(mp, es, io, ds2, u2, S)
  <2>1. ASSUME mp, NEW i \in Inodes, io[i].as \in Ours
        PROVE  /\ "mode" \in io[i].attrs => io[i].mode = io[i].as
               /\ i \notin S /\ (Named(es, i) \/ IsOpen(ds2, i)) /\ ~InWork(u2, i)
                     => ToSet(Virtfs(io[i].as)) \subseteq io[i].attrs
    <3>1. /\ "mode" \in io[i].attrs => io[i].mode = io[i].as
          /\ i \notin S /\ Named(es, i) /\ ~InWork(u, i) => ToSet(Virtfs(io[i].as)) \subseteq io[i].attrs
      BY <1>2, <2>1 DEF Whole
    <3>2. ~InWork(u, i)
      BY <1>6 DEF InWork
    <3>3. IsOpen(ds2, i) => Named(es, i)
      <4>1. ASSUME NEW e \in Fds, ds2[e] = i PROVE Named(es, i)
        <5>1. ds2[e] # None
          BY <4>1 DEF Inodes, None
        <5>2. PICK x \in UFids : u[x].used /\ u[x].omode # "no" /\ d[x] = e
          BY <5>1 DEF Reborn
        <5>3. i = FollowIn(es, u[x].path)
          BY <4>1, <5>2 DEF Reborn
        <5>4. i # HostRoot
          BY <1>2, <2>1 DEF Tree, Ours
        <5>. QED  BY <1>7, <5>2, <5>3, <5>4
      <4>. QED  BY <4>1 DEF IsOpen
    <3>. QED  BY <3>1, <3>2, <3>3
  <2>. QED  BY <2>1 DEF Whole
<1>. QED  BY <1>2, <1>9, <1>10, <1>11, <1>12 DEF Sound
----------------------------------------------------------------------------
(* ufs_checkpoint and ufs_restore *)

\* A buffer at place p, whose end is ep.
Buf(p, ep, put, got) == [p |-> p, ep |-> ep, put |-> put, got |-> got]

\* There is room for the field.
LEMMA PutFits ==
    ASSUME NEW p \in Nat, NEW ep \in Nat, NEW put, NEW got, NEW fld,
           fld.n \in Nat, p + fld.n <= ep
    PROVE  buf_put(Buf(p, ep, put, got), fld) = Buf(p + fld.n, ep, Append(put, fld), got)
<1>. DEFINE b == Buf(p, ep, put, got)
<1>1. b.p = p /\ b.ep = ep /\ b.put = put /\ b.got = got
  BY DEF Buf
<1>2. buf_put(b, fld) = [b EXCEPT !.p = @ + fld.n, !.put = Append(@, fld)]
  BY <1>1 DEF buf_put, buf_check_size
<1>3. ASSUME NEW a, NEW c PROVE [b EXCEPT !.p = a, !.put = c] = Buf(a, ep, c, got)
  <2>1. [b EXCEPT !.p = a] = Buf(a, ep, put, got)
    BY DEF Buf
  <2>2. [Buf(a, ep, put, got) EXCEPT !.put = c] = Buf(a, ep, c, got)
    BY DEF Buf
  <2>. QED  BY <2>1, <2>2
<1>. QED  BY <1>1, <1>2, <1>3

\* The next field is of the length asked for.
LEMMA GetFits ==
    ASSUME NEW p \in Nat, NEW ep \in Nat, NEW put, NEW got, NEW n \in Nat,
           put[Len(got) + 1].n = n, p + n <= ep
    PROVE  buf_get(Buf(p, ep, put, got), n) = Buf(p + n, ep, put, Append(got, put[Len(got) + 1].v))
<1>. DEFINE b == Buf(p, ep, put, got)
            w == put[Len(got) + 1].v
<1>1. b.p = p /\ b.ep = ep /\ b.put = put /\ b.got = got
  BY DEF Buf
<1>2. Field(b) = put[Len(got) + 1]
  BY <1>1 DEF Field
<1>3. buf_get(b, n) = [b EXCEPT !.p = @ + n, !.got = Append(@, w)]
  BY <1>1, <1>2 DEF buf_get, buf_check_size
<1>4. ASSUME NEW a, NEW c PROVE [b EXCEPT !.p = a, !.got = c] = Buf(a, ep, put, c)
  <2>1. [b EXCEPT !.p = a] = Buf(a, ep, put, got)
    BY DEF Buf
  <2>2. [Buf(a, ep, put, got) EXCEPT !.got = c] = Buf(a, ep, put, c)
    BY DEF Buf
  <2>. QED  BY <2>1, <2>2
<1>. QED  BY <1>1, <1>3, <1>4

\* Getting a string moves by the length it was put with.
LEMMA GetStrFits ==
    ASSUME NEW p \in Nat, NEW ep \in Nat, NEW put, NEW got,
           put[Len(got) + 1].n \in Nat, p + put[Len(got) + 1].n <= ep
    PROVE  buf_get_str(Buf(p, ep, put, got)) =
             Buf(p + put[Len(got) + 1].n, ep, put, Append(got, put[Len(got) + 1].v))
<1>1. Field(Buf(p, ep, put, got)).n = put[Len(got) + 1].n
  BY DEF Field, Buf
<1>. QED  BY <1>1, GetFits DEF buf_get_str

\* The first m of s.
Pre(s, m) == [j \in 1..m |-> s[j]]

\* One more of s.
LEMMA PreLaws ==
    ASSUME NEW s, NEW m \in Nat
    PROVE  /\ Len(Pre(s, m)) = m /\ Pre(s, 0) = <<>>
           /\ Append(Pre(s, m), s[m + 1]) = Pre(s, m + 1)
<1>. DEFINE S == {s[j] : j \in 1..(m + 1)}
            t == Pre(s, m)
            t2 == Pre(s, m + 1)
<1>1. t \in Seq(S) /\ t2 \in Seq(S) /\ Len(t) = m /\ Len(t2) = m + 1
  BY DEF Pre
<1>2. s[m + 1] \in S
  OBVIOUS
<1>3. /\ \A j \in 1..m : t[j] = s[j] /\ t2[j] = s[j]
      /\ t2[m + 1] = s[m + 1]
  BY DEF Pre
<1>4. Pre(s, 0) = <<>>
  BY DEF Pre
<1>. HIDE DEF S, t, t2
<1>5. /\ Append(t, s[m + 1]) \in Seq(S) /\ Len(Append(t, s[m + 1])) = m + 1
      /\ \A j \in 1..m : Append(t, s[m + 1])[j] = t[j]
      /\ Append(t, s[m + 1])[m + 1] = s[m + 1]
  BY <1>1, <1>2, AppendOf
<1>6. \A j \in 1..(m + 1) : Append(t, s[m + 1])[j] = t2[j]
  BY <1>3, <1>5
<1>7. Append(t, s[m + 1]) = t2
  BY <1>1, <1>5, <1>6
<1>. QED  BY <1>1, <1>4, <1>7 DEF t, t2

\* The fields s stand one after the other, the j-th up to place q[j].
Laid(s, q, m) ==
    /\ m \in Nat /\ q \in [0..m -> Nat] /\ q[0] = 0
    /\ \A j \in 1..m : s[j].n \in Nat /\ q[j] = q[j - 1] + s[j].n

\* There are such places.
LEMMA PlacesExist ==
    ASSUME NEW s, NEW m \in Nat, \A j \in 1..m : s[j].n \in Nat
    PROVE  \E q : Laid(s, q, m)
<1>. DEFINE T == {k \in 0..m : ~\E q : Laid(s, q, k)}
<1>1. SUFFICES ASSUME T # {} PROVE FALSE
  OBVIOUS
<1>0. T \subseteq Nat
  OBVIOUS
<1>. HIDE DEF T
<1>2. PICK k \in T : \A j \in T : k <= j
  BY <1>0, <1>1, LeastNat
<1>. USE DEF T
<1>3. CASE k = 0
  <2>1. Laid(s, [j \in 0..0 |-> 0], 0)
    BY DEF Laid
  <2>. QED  BY <1>3, <2>1
<1>4. CASE k # 0
  <2>1. k - 1 \in 0..m /\ k - 1 \notin T /\ k \in 1..m /\ k \in Nat
    BY <1>2, <1>4
  <2>2. PICK q : Laid(s, q, k - 1)
    BY <2>1
  <2>. DEFINE r == [j \in 0..k |-> IF j = k THEN q[k - 1] + s[k].n ELSE q[j]]
  <2>3. q \in [0..(k - 1) -> Nat] /\ q[0] = 0 /\ \A j \in 1..(k - 1) : s[j].n \in Nat /\ q[j] = q[j - 1] + s[j].n
    BY <2>2 DEF Laid
  <2>4. q[k - 1] \in Nat /\ s[k].n \in Nat
    BY <2>1, <2>3
  <2>5. r \in [0..k -> Nat] /\ r[0] = 0
    BY <1>4, <2>1, <2>3, <2>4
  <2>6. ASSUME NEW j \in 1..k PROVE s[j].n \in Nat /\ r[j] = r[j - 1] + s[j].n
    BY <2>1, <2>3, <2>4, <2>6
  <2>. HIDE DEF r
  <2>7. Laid(s, r, k)
    BY <2>1, <2>5, <2>6 DEF Laid
  <2>. QED  BY <1>2, <2>7
<1>. QED  BY <1>3, <1>4

\* No place is behind the last.
LEMMA PlacesGrow ==
    ASSUME NEW s, NEW q, NEW m, Laid(s, q, m)
    PROVE  \A j \in 0..m : q[j] \in Nat /\ q[j] <= q[m]
<1>1. m \in Nat /\ \A j \in 0..m : q[j] \in Nat
  BY DEF Laid
<1>. DEFINE T == {k \in 0..m : ~(q[m - k] <= q[m])}
<1>2. ASSUME T # {} PROVE FALSE
  <2>0. T \subseteq Nat
    OBVIOUS
  <2>. HIDE DEF T
  <2>1. PICK k \in T : \A j \in T : k <= j
    BY <1>2, <2>0, LeastNat
  <2>. USE DEF T
  <2>2. k # 0
    BY <1>1, <2>1
  <2>3. k - 1 \in 0..m /\ k - 1 \notin T
    BY <1>1, <2>1, <2>2
  <2>4. q[m - (k - 1)] <= q[m]
    BY <2>3
  <2>5. m - k \in 0..m /\ m - (k - 1) \in 1..m /\ (m - (k - 1)) - 1 = m - k
    BY <1>1, <2>1, <2>2
  <2>6. q[m - (k - 1)] = q[m - k] + s[m - (k - 1)].n /\ s[m - (k - 1)].n \in Nat
    BY <2>5 DEF Laid
  <2>7. q[m - k] <= q[m]
    BY <1>1, <2>4, <2>5, <2>6
  <2>. QED  BY <2>1, <2>7
<1>3. ASSUME NEW j \in 0..m PROVE q[j] <= q[m]
  <2>1. m - j \in 0..m /\ m - (m - j) = j
    BY <1>1
  <2>. QED  BY <1>2, <2>1
<1>. QED  BY <1>1, <1>3

\* The values of the first m of s.
Vals(s, m) == [j \in 1..m |-> s[j].v]

\* The buffer after j of the m fields have been put, or got.
Written(s, q, m, j) == Buf(q[j], q[m], Pre(s, j), <<>>)
Got(s, q, m, j) == Buf(q[j], q[m], s, Vals(s, j))

\* The next field is put.
LEMMA PutNext ==
    ASSUME NEW s, NEW q, NEW m, Laid(s, q, m), NEW j \in 1..m
    PROVE  buf_put(Written(s, q, m, j - 1), s[j]) = Written(s, q, m, j)
<1>1. /\ m \in Nat /\ j - 1 \in Nat /\ j - 1 \in 0..m /\ (j - 1) + 1 = j
      /\ s[j].n \in Nat /\ q[j] = q[j - 1] + s[j].n
  BY DEF Laid
<1>2. q[j - 1] \in Nat /\ q[m] \in Nat /\ q[j] <= q[m]
  <2>1. m \in 0..m /\ j \in 0..m
    BY <1>1
  <2>. QED  BY <1>1, <2>1, PlacesGrow
<1>3. Append(Pre(s, j - 1), s[j]) = Pre(s, j)
  BY <1>1, PreLaws
<1>. DEFINE put == Pre(s, j - 1)
            p == q[j - 1]
            ep == q[m]
            fld == s[j]
<1>4. p \in Nat /\ ep \in Nat /\ fld.n \in Nat /\ p + fld.n <= ep
  BY <1>1, <1>2
<1>5. q[j] = p + fld.n
  BY <1>1
<1>. HIDE DEF put, p, ep, fld
<1>6. buf_put(Buf(p, ep, put, <<>>), fld) = Buf(p + fld.n, ep, Append(put, fld), <<>>)
  BY <1>4, PutFits
<1>. QED  BY <1>3, <1>5, <1>6 DEF Written, put, p, ep, fld

\* The next field is got, as a field of its length or as a string.
LEMMA GetNext ==
    ASSUME NEW s, NEW q, NEW m, Laid(s, q, m), NEW j \in 1..m
    PROVE  /\ buf_get(Got(s, q, m, j - 1), s[j].n) = Got(s, q, m, j)
           /\ buf_get_str(Got(s, q, m, j - 1)) = Got(s, q, m, j)
<1>1. /\ m \in Nat /\ j - 1 \in Nat /\ j - 1 \in 0..m /\ (j - 1) + 1 = j
      /\ s[j].n \in Nat /\ q[j] = q[j - 1] + s[j].n
  BY DEF Laid
<1>2. q[j - 1] \in Nat /\ q[m] \in Nat /\ q[j] <= q[m]
  <2>1. m \in 0..m /\ j \in 0..m
    BY <1>1
  <2>. QED  BY <1>1, <2>1, PlacesGrow
<1>. DEFINE v == [k \in 1..m |-> s[k].v]
            got == Pre(v, j - 1)
            p == q[j - 1]
            ep == q[m]
            n == s[j].n
<1>3. got = Vals(s, j - 1) /\ Pre(v, j) = Vals(s, j) /\ v[j] = s[j].v
  BY <1>1 DEF Pre, Vals
<1>. HIDE DEF v
<1>4. Append(got, v[j]) = Pre(v, j) /\ Len(got) = j - 1
  <2>1. Append(Pre(v, j - 1), v[(j - 1) + 1]) = Pre(v, (j - 1) + 1) /\ Len(Pre(v, j - 1)) = j - 1
    BY <1>1, PreLaws
  <2>. QED  BY <1>1, <2>1
<1>5. p \in Nat /\ ep \in Nat /\ n \in Nat /\ p + n <= ep /\ q[j] = p + n
  BY <1>1, <1>2
<1>6. Len(got) + 1 = j
  BY <1>1, <1>4
<1>7. s[Len(got) + 1] = s[j] /\ s[Len(got) + 1].n = n /\ s[Len(got) + 1].v = v[j]
  BY <1>3, <1>6
<1>. HIDE DEF got, p, ep, n
<1>8. buf_get(Buf(p, ep, s, got), n) = Buf(p + n, ep, s, Append(got, s[Len(got) + 1].v))
  BY <1>5, <1>7, GetFits
<1>9. buf_get_str(Buf(p, ep, s, got)) = Buf(p + n, ep, s, Append(got, s[Len(got) + 1].v))
  BY <1>5, <1>7, GetStrFits
<1>10. Append(got, s[Len(got) + 1].v) = Vals(s, j)
  BY <1>3, <1>4, <1>7
<1>11. Got(s, q, m, j - 1) = Buf(p, ep, s, got) /\ Got(s, q, m, j) = Buf(p + n, ep, s, Vals(s, j))
  BY <1>3, <1>5 DEF Got, p, ep
<1>12. s[j].n = n
  BY DEF n
<1>. QED  BY <1>8, <1>9, <1>10, <1>11, <1>12

\* The fields flds are those behind the first a.
FieldsAt(s, a, flds) == \A k \in 1..Len(flds) : flds[k] = s[a + k]

\* Some fields are put.
LEMMA PutAll ==
    ASSUME NEW s, NEW q, NEW m, Laid(s, q, m), NEW a \in Nat, NEW flds, Len(flds) \in Nat,
           a + Len(flds) <= m, FieldsAt(s, a, flds)
    PROVE  buf_put_all(Written(s, q, m, a), flds) = Written(s, q, m, a + Len(flds))
<1>. DEFINE n == Len(flds)
            b == Written(s, q, m, a)
            F(c) == [k \in 0..n |-> IF k = 0 THEN b ELSE buf_put(c[k - 1], flds[k])]
            f == [k \in 0..n |-> Written(s, q, m, a + k)]
            d == CHOOSE c : c = F(c)
<1>1. ASSUME NEW k \in 1..n
      PROVE  buf_put(Written(s, q, m, a + (k - 1)), flds[k]) = Written(s, q, m, a + k)
  <2>1. m \in Nat /\ a + k \in 1..m /\ a + (k - 1) = (a + k) - 1
    BY DEF Laid
  <2>2. buf_put(Written(s, q, m, (a + k) - 1), s[a + k]) = Written(s, q, m, a + k)
    BY <2>1, PutNext
  <2>3. flds[k] = s[a + k]
    BY DEF FieldsAt
  <2>. QED  BY <2>1, <2>2, <2>3
<1>2. f = F(f)
  <2>1. ASSUME NEW k \in 0..n
        PROVE  f[k] = IF k = 0 THEN b ELSE buf_put(f[k - 1], flds[k])
    <3>1. CASE k = 0
      <4>1. a + 0 = a
        OBVIOUS
      <4>. QED  BY <3>1, <4>1
    <3>2. CASE k # 0
      <4>1. k \in 1..n /\ k - 1 \in 0..n
        BY <3>2
      <4>2. f[k] = Written(s, q, m, a + k) /\ f[k - 1] = Written(s, q, m, a + (k - 1))
        BY <4>1
      <4>. QED  BY <1>1, <3>2, <4>1, <4>2
    <3>. QED  BY <3>1, <3>2
  <2>2. f = [k \in 0..n |-> f[k]]
    OBVIOUS
  <2>. HIDE DEF f, b
  <2>. QED  BY <2>1, <2>2
<1>3. d = F(d)
  <2>. HIDE DEF F, f
  <2>. QED  BY <1>2
<1>. DEFINE T == {k \in 0..n : d[k] # f[k]}
<1>4. ASSUME T # {} PROVE FALSE
  <2>0. T \subseteq Nat
    OBVIOUS
  <2>. HIDE DEF T
  <2>1. PICK k \in T : \A j \in T : k <= j
    BY <1>4, <2>0, LeastNat
  <2>. USE DEF T
  <2>. HIDE DEF d, f, b
  <2>2. k \in 0..n /\ d[k] # f[k]
    OBVIOUS
  <2>3. d[k] = (IF k = 0 THEN b ELSE buf_put(d[k - 1], flds[k])) /\ f[k] = IF k = 0 THEN b ELSE buf_put(f[k - 1], flds[k])
    BY <1>2, <1>3, <2>2, Zenon
  <2>4. k # 0
    BY <2>2, <2>3
  <2>5. k - 1 \in 0..n /\ ~(k <= k - 1)
    BY <2>2, <2>4
  <2>6. d[k - 1] = f[k - 1]
    BY <2>1, <2>5
  <2>. QED  BY <2>2, <2>3, <2>6
<1>5. d[n] = f[n]
  <2>1. n \in 0..n
    OBVIOUS
  <2>. HIDE DEF d, f
  <2>. QED  BY <1>4, <2>1
<1>6. buf_put_all(b, flds) = d[n]
  BY DEF buf_put_all
<1>. QED  BY <1>5, <1>6

\* The lengths of the fields of a record.
LEMMA RecordLens ==
    ASSUME NEW x
    PROVE  /\ Len(FidRecord(x)) = 11
           /\ FidRecord(x)[1].n = 4 /\ FidRecord(x)[2].n = 2 /\ FidRecord(x)[3].n = 2
           /\ FidRecord(x)[4].n = 4 /\ FidRecord(x)[5].n = 4
           /\ FidRecord(x)[6].n = 2 + Len(uf[x].path)
           /\ FidRecord(x)[7].n = 4 /\ FidRecord(x)[8].n = 2 + NameLen(x) /\ FidRecord(x)[9].n = 4
           /\ FidRecord(x)[10].n = 8 /\ FidRecord(x)[11].n = XattrSize(x)
           /\ FidRecord(x)[2].v = uf[x].omode
           /\ FidRecord(x)[3].v = [dir |-> uf[x].isdir, xattr |-> IsXattr(x)]
           /\ FidRecord(x)[6].v = uf[x].path /\ FidRecord(x)[8].v = uf[x].xname
           /\ FidRecord(x)[10].v = XattrSize(x) /\ FidRecord(x)[11].v = uf[x].xa
BY DEF FidRecord, Num, Str

\* The record of x stands behind the first a fields.
RecordAt(s, a, x) == \A k \in 1..11 : s[a + k] = FidRecord(x)[k]

\* A record is got.
LEMMA RecordGot ==
    ASSUME NEW s, NEW q, NEW m, Laid(s, q, m), NEW a \in Nat, a + 11 <= m,
           NEW x, RecordAt(s, a, x)
    PROVE  ReadRecord(Got(s, q, m, a)) = Got(s, q, m, a + 11)
<1>. DEFINE len == <<4, 2, 2, 4, 4, 0, 4, 0, 4, 8>>
            b == Got(s, q, m, a)
            G(c, k) == IF k \in {6, 8} THEN buf_get_str(c)
                       ELSE buf_get(c, IF k = 11 THEN Last(c.got) ELSE len[k])
            F(c) == [k \in 0..11 |->
                       IF k = 0 THEN b
                       ELSE IF k \in {6, 8} THEN buf_get_str(c[k - 1])
                       ELSE buf_get(c[k - 1], IF k = 11 THEN Last(c[k - 1].got) ELSE len[k])]
            f == [k \in 0..11 |-> Got(s, q, m, a + k)]
            d == CHOOSE c : c = F(c)
<1>1. ASSUME NEW k \in 1..11 PROVE G(Got(s, q, m, a + (k - 1)), k) = Got(s, q, m, a + k)
  <2>1. m \in Nat /\ a + k \in 1..m /\ a + (k - 1) = (a + k) - 1
    BY DEF Laid
  <2>2. /\ buf_get(Got(s, q, m, a + (k - 1)), s[a + k].n) = Got(s, q, m, a + k)
        /\ buf_get_str(Got(s, q, m, a + (k - 1))) = Got(s, q, m, a + k)
    BY <2>1, GetNext
  <2>3. CASE k \in {6, 8}
    BY <2>2, <2>3
  <2>4. CASE k = 11
    <3>1. Got(s, q, m, a + (k - 1)).got = Vals(s, a + 10)
      BY <2>4 DEF Got, Buf
    <3>2. Last(Vals(s, a + 10)) = s[a + 10].v
      <4>1. Len(Vals(s, a + 10)) = a + 10 /\ Vals(s, a + 10)[a + 10] = s[a + 10].v
        BY DEF Vals
      <4>. QED  BY <4>1 DEF Last
    <3>3. s[a + 10] = FidRecord(x)[10] /\ s[a + 11] = FidRecord(x)[11]
      BY DEF RecordAt
    <3>4. s[a + 10].v = XattrSize(x) /\ s[a + 11].n = XattrSize(x)
      BY <3>3, RecordLens
    <3>. QED  BY <2>2, <2>4, <3>1, <3>2, <3>4
  <2>5. CASE k \notin {6, 8, 11}
    <3>1. k \in {1, 2, 3, 4, 5, 7, 9, 10}
      BY <2>5
    <3>2. len[k] = FidRecord(x)[k].n
      <4>1. /\ len[1] = 4 /\ len[2] = 2 /\ len[3] = 2 /\ len[4] = 4 /\ len[5] = 4
            /\ len[7] = 4 /\ len[9] = 4 /\ len[10] = 8
        OBVIOUS
      <4>. HIDE DEF len
      <4>. QED  BY <3>1, <4>1, RecordLens, ZenonT(40)
    <3>3. len[k] = s[a + k].n
      BY <3>2 DEF RecordAt
    <3>. HIDE DEF len
    <3>. QED  BY <2>2, <2>5, <3>3
  <2>. QED  BY <2>3, <2>4, <2>5
<1>. HIDE DEF len
<1>2. f = F(f)
  <2>1. ASSUME NEW k \in 0..11
        PROVE  f[k] = IF k = 0 THEN b
                      ELSE IF k \in {6, 8} THEN buf_get_str(f[k - 1])
                      ELSE buf_get(f[k - 1], IF k = 11 THEN Last(f[k - 1].got) ELSE len[k])
    <3>1. CASE k = 0
      <4>1. a + 0 = a
        OBVIOUS
      <4>. QED  BY <3>1, <4>1
    <3>2. CASE k # 0
      <4>1. k \in 1..11 /\ k - 1 \in 0..11
        BY <3>2
      <4>2. f[k] = Got(s, q, m, a + k) /\ f[k - 1] = Got(s, q, m, a + (k - 1))
        BY <4>1
      <4>3. f[k] = G(f[k - 1], k)
        BY <1>1, <4>1, <4>2
      <4>. HIDE DEF f
      <4>. QED  BY <3>2, <4>3
    <3>. QED  BY <3>1, <3>2
  <2>2. f = [k \in 0..11 |-> f[k]]
    OBVIOUS
  <2>. HIDE DEF f, b
  <2>. QED  BY <2>1, <2>2
<1>3. d = F(d)
  <2>. HIDE DEF F, f
  <2>. QED  BY <1>2
<1>. DEFINE T == {k \in 0..11 : d[k] # f[k]}
<1>4. ASSUME T # {} PROVE FALSE
  <2>0. T \subseteq Nat
    OBVIOUS
  <2>. HIDE DEF T
  <2>1. PICK k \in T : \A j \in T : k <= j
    BY <1>4, <2>0, LeastNat
  <2>. USE DEF T
  <2>. HIDE DEF d, f, b
  <2>2. k \in 0..11 /\ d[k] # f[k]
    OBVIOUS
  <2>3. /\ d[k] = IF k = 0 THEN b ELSE G(d[k - 1], k)
        /\ f[k] = IF k = 0 THEN b ELSE G(f[k - 1], k)
    BY <1>2, <1>3, <2>2, Zenon
  <2>4. k # 0
    BY <2>2, <2>3
  <2>5. k - 1 \in 0..11 /\ ~(k <= k - 1)
    BY <2>2, <2>4
  <2>6. d[k - 1] = f[k - 1]
    BY <2>1, <2>5
  <2>. QED  BY <2>2, <2>3, <2>6
<1>5. d[11] = f[11]
  <2>. HIDE DEF d, f
  <2>. QED  BY <1>4
<1>6. ReadRecord(b) = d[11]
  BY DEF ReadRecord, len
<1>. QED  BY <1>5, <1>6

\* A record takes so much.
LEMMA RecordSize ==
    ASSUME NEW s, NEW q, NEW m, Laid(s, q, m), NEW a \in Nat, a + 11 <= m, NEW x, RecordAt(s, a, x),
           Len(uf[x].path) \in Nat
    PROVE  q[a + 11] = q[a] + 36 + Len(uf[x].path) + NameLen(x) + XattrSize(x)
<1>1. \A k \in 1..11 : q[a + k] = q[a + (k - 1)] + FidRecord(x)[k].n
  <2>1. ASSUME NEW k \in 1..11 PROVE q[a + k] = q[a + (k - 1)] + FidRecord(x)[k].n
    <3>1. m \in Nat
      BY DEF Laid
    <3>2. a + k \in 1..m /\ (a + k) - 1 = a + (k - 1)
      BY <3>1
    <3>3. q[a + k] = q[(a + k) - 1] + s[a + k].n
      BY <3>2 DEF Laid
    <3>4. s[a + k] = FidRecord(x)[k]
      BY DEF RecordAt
    <3>. QED  BY <3>2, <3>3, <3>4
  <2>. QED  BY <2>1
<1>2. NameLen(x) \in Nat /\ XattrSize(x) \in Nat
  BY DEF NameLen, XattrSize
<1>3. q[a] \in Nat
  <2>1. m \in Nat /\ a \in 0..m
    BY DEF Laid
  <2>. QED  BY <2>1 DEF Laid
<1>. DEFINE l == Len(uf[x].path)
            n == NameLen(x)
            v == XattrSize(x)
<1>4. l \in Nat /\ n \in Nat /\ v \in Nat
  BY <1>2
<1>5. /\ FidRecord(x)[1].n = 4 /\ FidRecord(x)[2].n = 2 /\ FidRecord(x)[3].n = 2
      /\ FidRecord(x)[4].n = 4 /\ FidRecord(x)[5].n = 4 /\ FidRecord(x)[6].n = 2 + l
      /\ FidRecord(x)[7].n = 4 /\ FidRecord(x)[8].n = 2 + n /\ FidRecord(x)[9].n = 4
      /\ FidRecord(x)[10].n = 8 /\ FidRecord(x)[11].n = v
  BY RecordLens, Zenon
<1>. HIDE DEF l, n, v
<1>6. q[a + 1] = q[a] + 4
  <2>1. q[a + 1] = q[a + (1 - 1)] + FidRecord(x)[1].n
    BY <1>1
  <2>2. q[a + 1] = q[a] + 4
    BY <1>5, <2>1
  <2>. QED  BY <1>3, <1>4, <2>2
<1>7. q[a + 2] = q[a] + 6
  <2>1. q[a + 2] = q[a + (2 - 1)] + FidRecord(x)[2].n
    BY <1>1
  <2>2. q[a + 2] = q[a + 1] + 2
    BY <1>5, <2>1
  <2>. QED  BY <1>3, <1>4, <1>6, <2>2
<1>8. q[a + 3] = q[a] + 8
  <2>1. q[a + 3] = q[a + (3 - 1)] + FidRecord(x)[3].n
    BY <1>1
  <2>2. q[a + 3] = q[a + 2] + 2
    BY <1>5, <2>1
  <2>. QED  BY <1>3, <1>4, <1>7, <2>2
<1>9. q[a + 4] = q[a] + 12
  <2>1. q[a + 4] = q[a + (4 - 1)] + FidRecord(x)[4].n
    BY <1>1
  <2>2. q[a + 4] = q[a + 3] + 4
    BY <1>5, <2>1
  <2>. QED  BY <1>3, <1>4, <1>8, <2>2
<1>10. q[a + 5] = q[a] + 16
  <2>1. q[a + 5] = q[a + (5 - 1)] + FidRecord(x)[5].n
    BY <1>1
  <2>2. q[a + 5] = q[a + 4] + 4
    BY <1>5, <2>1
  <2>. QED  BY <1>3, <1>4, <1>9, <2>2
<1>11. q[a + 6] = q[a] + 18 + l
  <2>1. q[a + 6] = q[a + (6 - 1)] + FidRecord(x)[6].n
    BY <1>1
  <2>2. q[a + 6] = q[a + 5] + (2 + l)
    BY <1>5, <2>1
  <2>3. (q[a] + 16) + (2 + l) = q[a] + 18 + l
    BY <1>3, <1>4, SMTT(30)
  <2>. QED  BY <1>10, <2>2, <2>3, Zenon
<1>12. q[a + 7] = q[a] + 22 + l
  <2>1. q[a + 7] = q[a + (7 - 1)] + FidRecord(x)[7].n
    BY <1>1
  <2>2. q[a + 7] = q[a + 6] + 4
    BY <1>5, <2>1
  <2>. QED  BY <1>3, <1>4, <1>11, <2>2
<1>13. q[a + 8] = q[a] + 24 + l + n
  <2>1. q[a + 8] = q[a + (8 - 1)] + FidRecord(x)[8].n
    BY <1>1
  <2>2. q[a + 8] = q[a + 7] + (2 + n)
    BY <1>5, <2>1
  <2>3. ASSUME NEW i \in Nat, NEW j \in Nat, NEW k \in Nat
        PROVE  (i + 22 + j) + (2 + k) = i + 24 + j + k
    OBVIOUS
  <2>4. (q[a] + 22 + l) + (2 + n) = q[a] + 24 + l + n
    BY <1>3, <1>4, <2>3, ZenonT(40)
  <2>. QED  BY <1>12, <2>2, <2>4, Zenon
<1>14. q[a + 9] = q[a] + 28 + l + n
  <2>1. q[a + 9] = q[a + (9 - 1)] + FidRecord(x)[9].n
    BY <1>1
  <2>2. q[a + 9] = q[a + 8] + 4
    BY <1>5, <2>1
  <2>. QED  BY <1>3, <1>4, <1>13, <2>2, SMTT(30)
<1>15. q[a + 10] = q[a] + 36 + l + n
  <2>1. q[a + 10] = q[a + (10 - 1)] + FidRecord(x)[10].n
    BY <1>1
  <2>2. q[a + 10] = q[a + 9] + 8
    BY <1>5, <2>1
  <2>. QED  BY <1>3, <1>4, <1>14, <2>2, SMTT(30)
<1>16. q[a + 11] = q[a] + 36 + l + n + v
  <2>1. q[a + 11] = q[a + (11 - 1)] + FidRecord(x)[11].n
    BY <1>1
  <2>2. q[a + 11] = q[a + 10] + v
    BY <1>5, <2>1
  <2>. QED  BY <1>3, <1>4, <1>15, <2>2
<1>. QED  BY <1>16 DEF l, n, v

\* The header, and all that is put after it.
Header(xs) == <<Num(4, 0), Num(1, 0), Num(1, 0), Num(4, Len(xs))>>
Fields(xs) ==
    [j \in 1..(4 + 11 * Len(xs)) |->
       IF j <= 4 THEN Header(xs)[j] ELSE FidRecord(xs[((j - 5) \div 11) + 1])[((j - 5) % 11) + 1]]

\* The fields of the header, and of every record where it begins.
LEMMA FieldsAre ==
    ASSUME NEW xs \in Seq(UFids), uf \in [UFids -> FidT]
    PROVE  /\ \A k \in 1..4 : Fields(xs)[k] = Header(xs)[k]
           /\ \A i \in 1..Len(xs) : RecordAt(Fields(xs), 4 + 11 * (i - 1), xs[i])
           /\ \A j \in 1..(4 + 11 * Len(xs)) : Fields(xs)[j].n \in Nat
           /\ Len(Header(xs)) = 4
<1>0. Len(xs) \in Nat
  OBVIOUS
<1>1. ASSUME NEW k \in 1..4 PROVE Fields(xs)[k] = Header(xs)[k]
  BY <1>0 DEF Fields
<1>2. ASSUME NEW i \in 1..Len(xs) PROVE RecordAt(Fields(xs), 4 + 11 * (i - 1), xs[i])
  <2>1. ASSUME NEW k \in 1..11 PROVE Fields(xs)[(4 + 11 * (i - 1)) + k] = FidRecord(xs[i])[k]
    <3>. DEFINE j == (4 + 11 * (i - 1)) + k
    <3>1. j \in 1..(4 + 11 * Len(xs)) /\ ~(j <= 4) /\ j - 5 = 11 * (i - 1) + (k - 1)
      BY <1>0
    <3>2. (j - 5) \div 11 = i - 1 /\ (j - 5) % 11 = k - 1
      BY <3>1
    <3>3. ((j - 5) \div 11) + 1 = i /\ ((j - 5) % 11) + 1 = k
      BY <3>2
    <3>. HIDE DEF j
    <3>4. Fields(xs)[j] = FidRecord(xs[((j - 5) \div 11) + 1])[((j - 5) % 11) + 1]
      BY <3>1 DEF Fields
    <3>. QED  BY <3>3, <3>4 DEF j
  <2>. QED  BY <2>1 DEF RecordAt
<1>3. ASSUME NEW x \in UFids, NEW k \in 1..11 PROVE FidRecord(x)[k].n \in Nat
  <2>1. Len(uf[x].path) \in Nat /\ NameLen(x) \in Nat /\ XattrSize(x) \in Nat
    <3>1. uf[x].path \in Seq(UNames)
      BY DEF FidT
    <3>. QED  BY <3>1 DEF NameLen, XattrSize
  <2>2. k \in {1, 2, 3, 4, 5, 6, 7, 8, 9, 10, 11}
    OBVIOUS
  <2>3. /\ FidRecord(x)[1].n = 4 /\ FidRecord(x)[2].n = 2 /\ FidRecord(x)[3].n = 2
        /\ FidRecord(x)[4].n = 4 /\ FidRecord(x)[5].n = 4 /\ FidRecord(x)[6].n = 2 + Len(uf[x].path)
        /\ FidRecord(x)[7].n = 4 /\ FidRecord(x)[8].n = 2 + NameLen(x) /\ FidRecord(x)[9].n = 4
        /\ FidRecord(x)[10].n = 8 /\ FidRecord(x)[11].n = XattrSize(x)
    BY RecordLens, Zenon
  <2>4. 2 + Len(uf[x].path) \in Nat /\ 2 + NameLen(x) \in Nat
    BY <2>1
  <2>5. /\ FidRecord(x)[1].n \in Nat /\ FidRecord(x)[2].n \in Nat /\ FidRecord(x)[3].n \in Nat
        /\ FidRecord(x)[4].n \in Nat /\ FidRecord(x)[5].n \in Nat /\ FidRecord(x)[6].n \in Nat
        /\ FidRecord(x)[7].n \in Nat /\ FidRecord(x)[8].n \in Nat /\ FidRecord(x)[9].n \in Nat
        /\ FidRecord(x)[10].n \in Nat /\ FidRecord(x)[11].n \in Nat
    BY <2>1, <2>3, <2>4
  <2>. QED  BY <2>2, <2>5
<1>4. ASSUME NEW j \in 1..(4 + 11 * Len(xs)) PROVE Fields(xs)[j].n \in Nat
  <2>1. CASE j <= 4
    <3>1. j \in {1, 2, 3, 4}
      BY <1>0, <2>1
    <3>2. Fields(xs)[j] = Header(xs)[j]
      BY <1>1, <3>1
    <3>3. Header(xs)[j].n \in Nat
      BY <3>1 DEF Header, Num
    <3>. QED  BY <3>2, <3>3
  <2>2. CASE ~(j <= 4)
    <3>. DEFINE i == ((j - 5) \div 11) + 1
                k == ((j - 5) % 11) + 1
    <3>1. j - 5 \in 0..(11 * Len(xs) - 1)
      BY <1>0, <2>2
    <3>2. i \in 1..Len(xs) /\ k \in 1..11
      BY <1>0, <3>1
    <3>3. Fields(xs)[j] = FidRecord(xs[i])[k]
      BY <2>2 DEF Fields
    <3>4. xs[i] \in UFids
      BY <3>2
    <3>. HIDE DEF i, k
    <3>. QED  BY <1>3, <3>2, <3>3, <3>4
  <2>. QED  BY <2>1, <2>2
<1>5. Len(Header(xs)) = 4
  BY DEF Header
<1>. QED  BY <1>1, <1>2, <1>4, <1>5

\* Where the header ends, and where the records do.
Marks(xs, q) ==
    /\ q[4] = 10
    /\ \A i \in 1..Len(xs) :
         q[4 + 11 * i] = q[4 + 11 * (i - 1)] + 36 + Len(uf[xs[i]].path) + NameLen(xs[i]) + XattrSize(xs[i])

\* Where the fields are laid one after the other the records begin at the marks.
LEMMA MarksAre ==
    ASSUME NEW xs \in Seq(UFids), uf \in [UFids -> FidT], NEW q, Laid(Fields(xs), q, 4 + 11 * Len(xs))
    PROVE  Marks(xs, q)
<1>. DEFINE m == 4 + 11 * Len(xs)
            s == Fields(xs)
<1>0. Len(xs) \in Nat /\ m \in Nat
  OBVIOUS
<1>1. q[4] = 10
  <2>1. \A k \in 1..4 : s[k] = Header(xs)[k]
    BY FieldsAre
  <2>2. \A j \in 1..m : q[j] = q[j - 1] + s[j].n
    BY DEF Laid
  <2>3. q[0] = 0
    BY DEF Laid
  <2>. HIDE DEF s, m
  <2>4. s[1].n = 4 /\ s[2].n = 1 /\ s[3].n = 1 /\ s[4].n = 4
    BY <2>1 DEF Header, Num
  <2>5. 1 \in 1..m /\ 2 \in 1..m /\ 3 \in 1..m /\ 4 \in 1..m
    BY <1>0 DEF m
  <2>6. q[1] = q[1 - 1] + 4 /\ q[2] = q[2 - 1] + 1 /\ q[3] = q[3 - 1] + 1 /\ q[4] = q[4 - 1] + 4
    BY <2>2, <2>4, <2>5
  <2>7. q[1] = 4
    BY <2>3, <2>6
  <2>8. q[2] = 5
    BY <2>6, <2>7
  <2>9. q[3] = 6
    BY <2>6, <2>8
  <2>. QED  BY <2>6, <2>9
<1>2. ASSUME NEW i \in 1..Len(xs)
      PROVE  q[4 + 11 * i] = q[4 + 11 * (i - 1)] + 36 + Len(uf[xs[i]].path) + NameLen(xs[i]) + XattrSize(xs[i])
  <2>. DEFINE a == 4 + 11 * (i - 1)
  <2>1. a \in Nat /\ a + 11 <= m /\ a + 11 = 4 + 11 * i
    BY <1>0
  <2>2. RecordAt(s, a, xs[i]) /\ Len(uf[xs[i]].path) \in Nat
    <3>1. xs[i] \in UFids
      OBVIOUS
    <3>2. uf[xs[i]].path \in Seq(UNames)
      BY <3>1 DEF FidT
    <3>. QED  BY <3>2, FieldsAre
  <2>3. Laid(s, q, m)
    OBVIOUS
  <2>. HIDE DEF a, m, s
  <2>4. q[a + 11] = q[a] + 36 + Len(uf[xs[i]].path) + NameLen(xs[i]) + XattrSize(xs[i])
    BY <2>1, <2>2, <2>3, RecordSize
  <2>. QED  BY <2>1, <2>4 DEF a
<1>. QED  BY <1>1, <1>2 DEF Marks

\* The size that is computed first is that of all fields.
LEMMA SizeIs ==
    ASSUME NEW xs \in Seq(UFids), NEW q, Marks(xs, q)
    PROVE  CheckpointSize(xs) = q[4 + 11 * Len(xs)]
<1>. DEFINE n == Len(xs)
            G(c, i) == c + 36 + Len(uf[xs[i]].path) + NameLen(xs[i]) + XattrSize(xs[i])
            F(c) == [i \in 0..n |->
                       IF i = 0 THEN 10
                       ELSE c[i - 1] + 36 + Len(uf[xs[i]].path) + NameLen(xs[i]) + XattrSize(xs[i])]
            f == [i \in 0..n |-> q[4 + 11 * i]]
            d == CHOOSE c : c = F(c)
<1>0. n \in Nat
  OBVIOUS
<1>2. f = F(f)
  <2>1. ASSUME NEW i \in 0..n PROVE f[i] = IF i = 0 THEN 10 ELSE G(f[i - 1], i)
    <3>1. CASE i = 0
      <4>1. 4 + 11 * 0 = 4
        OBVIOUS
      <4>2. f[i] = q[4]
        BY <3>1, <4>1
      <4>. QED  BY <3>1, <4>2 DEF Marks
    <3>2. CASE i # 0
      <4>1. i \in 1..n /\ i - 1 \in 0..n
        BY <3>2
      <4>2. f[i] = q[4 + 11 * i] /\ f[i - 1] = q[4 + 11 * (i - 1)]
        BY <4>1
      <4>3. q[4 + 11 * i] = G(q[4 + 11 * (i - 1)], i)
        BY <4>1 DEF Marks
      <4>. HIDE DEF f
      <4>. QED  BY <3>2, <4>2, <4>3
    <3>. QED  BY <3>1, <3>2
  <2>2. f = [i \in 0..n |-> f[i]]
    OBVIOUS
  <2>. HIDE DEF f
  <2>. QED  BY <2>1, <2>2
<1>3. d = F(d)
  <2>. HIDE DEF F, f
  <2>. QED  BY <1>2
<1>. DEFINE T == {i \in 0..n : d[i] # f[i]}
<1>4. ASSUME T # {} PROVE FALSE
  <2>0. T \subseteq Nat
    OBVIOUS
  <2>. HIDE DEF T
  <2>1. PICK i \in T : \A j \in T : i <= j
    BY <1>4, <2>0, LeastNat
  <2>. USE DEF T
  <2>. HIDE DEF d, f
  <2>2. i \in 0..n /\ d[i] # f[i]
    OBVIOUS
  <2>3. /\ d[i] = IF i = 0 THEN 10 ELSE G(d[i - 1], i)
        /\ f[i] = IF i = 0 THEN 10 ELSE G(f[i - 1], i)
    BY <1>2, <1>3, <2>2, Zenon
  <2>. HIDE DEF G
  <2>4. i # 0
    BY <2>2, <2>3
  <2>5. i - 1 \in 0..n /\ ~(i <= i - 1)
    BY <2>2, <2>4
  <2>6. d[i - 1] = f[i - 1]
    BY <2>1, <2>5
  <2>. QED  BY <2>2, <2>3, <2>6
<1>5. d[n] = f[n]
  <2>1. n \in 0..n
    BY <1>0
  <2>. HIDE DEF d, f
  <2>. QED  BY <1>4, <2>1
<1>6. f[n] = q[4 + 11 * n]
  BY <1>0
<1>7. CheckpointSize(xs) = d[n]
  BY DEF CheckpointSize
<1>. QED  BY <1>5, <1>6, <1>7

\* All of it is written.
LEMMA Checkpointed ==
    ASSUME NEW xs \in Seq(UFids), uf \in [UFids -> FidT], NEW q, Laid(Fields(xs), q, 4 + 11 * Len(xs)),
           CheckpointSize(xs) = q[4 + 11 * Len(xs)]
    PROVE  ufs_checkpoint(xs) = Written(Fields(xs), q, 4 + 11 * Len(xs), 4 + 11 * Len(xs))
<1>. DEFINE n == Len(xs)
            m == 4 + 11 * n
            s == Fields(xs)
            hdr == Header(xs)
            b == buf_init(CheckpointSize(xs), <<>>)
            F(c) == [i \in 0..n |-> IF i = 0 THEN buf_put_all(b, hdr)
                                    ELSE buf_put_all(c[i - 1], FidRecord(xs[i]))]
            f == [i \in 0..n |-> Written(s, q, m, 4 + 11 * i)]
            d == CHOOSE c : c = F(c)
<1>0. n \in Nat /\ m \in Nat /\ Laid(s, q, m) /\ q[0] = 0
  BY DEF Laid
<1>1. b = Written(s, q, m, 0)
  <2>1. Pre(s, 0) = <<>>
    BY PreLaws
  <2>2. q[m] = CheckpointSize(xs)
    OBVIOUS
  <2>. QED  BY <1>0, <2>1, <2>2 DEF buf_init, Written, Buf
<1>2. buf_put_all(b, hdr) = Written(s, q, m, 4)
  <2>1. Len(hdr) = 4 /\ \A k \in 1..4 : s[k] = hdr[k]
    BY FieldsAre
  <2>. HIDE DEF hdr, s
  <2>2. 0 + Len(hdr) <= m /\ FieldsAt(s, 0, hdr) /\ Len(hdr) \in Nat
    BY <1>0, <2>1 DEF FieldsAt
  <2>. HIDE DEF m, b
  <2>3. buf_put_all(Written(s, q, m, 0), hdr) = Written(s, q, m, 0 + Len(hdr))
    BY <1>0, <2>2, PutAll
  <2>. QED  BY <1>1, <2>1, <2>3
<1>3. ASSUME NEW i \in 1..n
      PROVE  buf_put_all(Written(s, q, m, 4 + 11 * (i - 1)), FidRecord(xs[i])) = Written(s, q, m, 4 + 11 * i)
  <2>. DEFINE a == 4 + 11 * (i - 1)
              r == FidRecord(xs[i])
  <2>1. a \in Nat /\ a + 11 <= m /\ a + 11 = 4 + 11 * i
    BY <1>0
  <2>2. RecordAt(s, a, xs[i]) /\ Len(r) = 11
    BY FieldsAre, RecordLens
  <2>3. FieldsAt(s, a, r) /\ Len(r) \in Nat
    BY <2>2 DEF RecordAt, FieldsAt
  <2>4. a + Len(r) <= m
    BY <2>1, <2>2
  <2>. HIDE DEF a, m, s, r
  <2>5. buf_put_all(Written(s, q, m, a), r) = Written(s, q, m, a + Len(r))
    BY <1>0, <2>1, <2>3, <2>4, PutAll
  <2>. QED  BY <2>1, <2>2, <2>5 DEF a, r
<1>4. f = F(f)
  <2>1. ASSUME NEW i \in 0..n
        PROVE  f[i] = IF i = 0 THEN buf_put_all(b, hdr) ELSE buf_put_all(f[i - 1], FidRecord(xs[i]))
    <3>1. CASE i = 0
      <4>1. 4 + 11 * 0 = 4
        OBVIOUS
      <4>2. f[i] = Written(s, q, m, 4)
        BY <3>1, <4>1
      <4>. QED  BY <1>2, <3>1, <4>2
    <3>2. CASE i # 0
      <4>1. i \in 1..n /\ i - 1 \in 0..n
        BY <3>2
      <4>2. f[i] = Written(s, q, m, 4 + 11 * i) /\ f[i - 1] = Written(s, q, m, 4 + 11 * (i - 1))
        BY <4>1
      <4>3. f[i] = buf_put_all(f[i - 1], FidRecord(xs[i]))
        BY <1>3, <4>1, <4>2
      <4>. HIDE DEF f
      <4>. QED  BY <3>2, <4>3
    <3>. QED  BY <3>1, <3>2
  <2>2. f = [i \in 0..n |-> f[i]]
    OBVIOUS
  <2>. HIDE DEF f, b, hdr
  <2>. QED  BY <2>1, <2>2
<1>5. d = F(d)
  <2>. HIDE DEF F, f
  <2>. QED  BY <1>4
<1>. DEFINE T == {i \in 0..n : d[i] # f[i]}
<1>6. ASSUME T # {} PROVE FALSE
  <2>0. T \subseteq Nat
    OBVIOUS
  <2>. HIDE DEF T
  <2>1. PICK i \in T : \A j \in T : i <= j
    BY <1>6, <2>0, LeastNat
  <2>. USE DEF T
  <2>. HIDE DEF d, f, b, hdr
  <2>2. i \in 0..n /\ d[i] # f[i]
    OBVIOUS
  <2>3. /\ d[i] = IF i = 0 THEN buf_put_all(b, hdr) ELSE buf_put_all(d[i - 1], FidRecord(xs[i]))
        /\ f[i] = IF i = 0 THEN buf_put_all(b, hdr) ELSE buf_put_all(f[i - 1], FidRecord(xs[i]))
    BY <1>4, <1>5, <2>2, Zenon
  <2>4. i # 0
    BY <2>2, <2>3
  <2>5. i - 1 \in 0..n /\ ~(i <= i - 1)
    BY <2>2, <2>4
  <2>6. d[i - 1] = f[i - 1]
    BY <2>1, <2>5
  <2>. QED  BY <2>2, <2>3, <2>6
<1>7. d[n] = f[n]
  <2>1. n \in 0..n
    BY <1>0
  <2>. HIDE DEF d, f
  <2>. QED  BY <1>6, <2>1
<1>8. f[n] = Written(s, q, m, m)
  BY <1>0
<1>9. ufs_checkpoint(xs) = d[n]
  BY DEF ufs_checkpoint, Header
<1>. HIDE DEF d, f
<1>. QED  BY <1>7, <1>8, <1>9

\* All of it is read.
LEMMA ReadBack ==
    ASSUME NEW xs \in Seq(UFids), uf \in [UFids -> FidT], NEW q, Laid(Fields(xs), q, 4 + 11 * Len(xs))
    PROVE  ReadRecords(buf_init(q[4 + 11 * Len(xs)], Fields(xs)), Len(xs)) =
             Got(Fields(xs), q, 4 + 11 * Len(xs), 4 + 11 * Len(xs))
<1>. DEFINE n == Len(xs)
            m == 4 + 11 * n
            s == Fields(xs)
            b == buf_init(q[m], s)
            hdr == buf_get(buf_get(buf_get(buf_get(b, 4), 1), 1), 4)
            F(c) == [i \in 0..n |-> IF i = 0 THEN buf_get(buf_get(buf_get(buf_get(b, 4), 1), 1), 4)
                                    ELSE ReadRecord(c[i - 1])]
            f == [i \in 0..n |-> Got(s, q, m, 4 + 11 * i)]
            d == CHOOSE c : c = F(c)
<1>0. n \in Nat /\ m \in Nat /\ Laid(s, q, m) /\ q[0] = 0
  BY DEF Laid
<1>1. b = Got(s, q, m, 0)
  <2>1. Vals(s, 0) = <<>>
    BY DEF Vals
  <2>. HIDE DEF s, m
  <2>. QED  BY <1>0, <2>1 DEF buf_init, Got, Buf
<1>2. hdr = Got(s, q, m, 4)
  <2>1. \A k \in 1..4 : s[k] = Header(xs)[k]
    BY FieldsAre
  <2>2. 1 \in 1..m /\ 2 \in 1..m /\ 3 \in 1..m /\ 4 \in 1..m
    BY <1>0
  <2>. HIDE DEF s, m
  <2>3. s[1].n = 4 /\ s[2].n = 1 /\ s[3].n = 1 /\ s[4].n = 4
    BY <2>1 DEF Header, Num
  <2>4. /\ buf_get(Got(s, q, m, 1 - 1), s[1].n) = Got(s, q, m, 1)
        /\ buf_get(Got(s, q, m, 2 - 1), s[2].n) = Got(s, q, m, 2)
        /\ buf_get(Got(s, q, m, 3 - 1), s[3].n) = Got(s, q, m, 3)
        /\ buf_get(Got(s, q, m, 4 - 1), s[4].n) = Got(s, q, m, 4)
    BY <1>0, <2>2, GetNext
  <2>5. /\ buf_get(Got(s, q, m, 0), 4) = Got(s, q, m, 1)
        /\ buf_get(Got(s, q, m, 1), 1) = Got(s, q, m, 2)
        /\ buf_get(Got(s, q, m, 2), 1) = Got(s, q, m, 3)
        /\ buf_get(Got(s, q, m, 3), 4) = Got(s, q, m, 4)
    BY <2>3, <2>4
  <2>. HIDE DEF b
  <2>. QED  BY <1>1, <2>5, Zenon
<1>3. ASSUME NEW i \in 1..n
      PROVE  ReadRecord(Got(s, q, m, 4 + 11 * (i - 1))) = Got(s, q, m, 4 + 11 * i)
  <2>. DEFINE a == 4 + 11 * (i - 1)
  <2>1. a \in Nat /\ a + 11 <= m /\ a + 11 = 4 + 11 * i
    BY <1>0
  <2>2. RecordAt(s, a, xs[i])
    BY FieldsAre
  <2>. HIDE DEF a, m, s
  <2>3. ReadRecord(Got(s, q, m, a)) = Got(s, q, m, a + 11)
    BY <1>0, <2>1, <2>2, RecordGot
  <2>. QED  BY <2>1, <2>3 DEF a
<1>4. f = F(f)
  <2>1. ASSUME NEW i \in 0..n PROVE f[i] = IF i = 0 THEN hdr ELSE ReadRecord(f[i - 1])
    <3>1. CASE i = 0
      <4>1. 4 + 11 * 0 = 4
        OBVIOUS
      <4>2. f[i] = Got(s, q, m, 4)
        BY <3>1, <4>1
      <4>. HIDE DEF f, hdr
      <4>. QED  BY <1>2, <3>1, <4>2
    <3>2. CASE i # 0
      <4>1. i \in 1..n /\ i - 1 \in 0..n
        BY <3>2
      <4>2. f[i] = Got(s, q, m, 4 + 11 * i) /\ f[i - 1] = Got(s, q, m, 4 + 11 * (i - 1))
        BY <4>1
      <4>. HIDE DEF f, hdr
      <4>3. f[i] = ReadRecord(f[i - 1])
        BY <1>3, <4>1, <4>2
      <4>. QED  BY <3>2, <4>3
    <3>. QED  BY <3>1, <3>2
  <2>2. f = [i \in 0..n |-> f[i]]
    OBVIOUS
  <2>3. F(f) = [i \in 0..n |-> IF i = 0 THEN hdr ELSE ReadRecord(f[i - 1])]
    <3>. HIDE DEF f, b
    <3>. QED  OBVIOUS
  <2>. HIDE DEF f, hdr, F
  <2>. QED  BY <2>1, <2>2, <2>3
<1>5. d = F(d)
  <2>. HIDE DEF F, f
  <2>. QED  BY <1>4
<1>. DEFINE T == {i \in 0..n : d[i] # f[i]}
<1>6. ASSUME T # {} PROVE FALSE
  <2>0. T \subseteq Nat
    OBVIOUS
  <2>. HIDE DEF T
  <2>1. PICK i \in T : \A j \in T : i <= j
    BY <1>6, <2>0, LeastNat
  <2>. USE DEF T
  <2>. HIDE DEF d, f, b
  <2>2. i \in 0..n /\ d[i] # f[i]
    OBVIOUS
  <2>3. /\ d[i] = IF i = 0 THEN hdr ELSE ReadRecord(d[i - 1])
        /\ f[i] = IF i = 0 THEN hdr ELSE ReadRecord(f[i - 1])
    BY <1>4, <1>5, <2>2, Zenon
  <2>. HIDE DEF hdr
  <2>4. i # 0
    BY <2>2, <2>3
  <2>5. i - 1 \in 0..n /\ ~(i <= i - 1)
    BY <2>2, <2>4
  <2>6. d[i - 1] = f[i - 1]
    BY <2>1, <2>5
  <2>. QED  BY <2>2, <2>3, <2>6
<1>7. d[n] = f[n]
  <2>1. n \in 0..n
    BY <1>0
  <2>. HIDE DEF d, f
  <2>. QED  BY <1>6, <2>1
<1>8. f[n] = Got(s, q, m, m)
  BY <1>0
<1>9. ReadRecords(b, n) = d[n]
  BY DEF ReadRecords
<1>. HIDE DEF d, f
<1>. QED  BY <1>7, <1>8, <1>9

\* What a restore knows of a fid.
Recalled(f) ==
    [UfsFid(f.path) EXCEPT !.omode = f.omode, !.isdir = f.isdir, !.xname = f.xname, !.xa = f.xa]

\* Every record comes back as it was written.
LEMMA ReadAgainIs ==
    ASSUME NEW xs \in Seq(UFids), uf \in [UFids -> FidT]
    PROVE  \A i \in 1..Len(xs) : Unpacked(ReadAgain(xs).got, i) = Recalled(uf[xs[i]])
<1>. DEFINE m == 4 + 11 * Len(xs)
            s == Fields(xs)
<1>0. Len(xs) \in Nat /\ m \in Nat
  OBVIOUS
<1>1. PICK q : Laid(s, q, m)
  <2>1. \A j \in 1..m : s[j].n \in Nat
    BY FieldsAre
  <2>. HIDE DEF s, m
  <2>. QED  BY <1>0, <2>1, PlacesExist
<1>2. CheckpointSize(xs) = q[m]
  BY <1>1, MarksAre, SizeIs
<1>3. ufs_checkpoint(xs) = Written(s, q, m, m)
  BY <1>1, <1>2, Checkpointed
<1>4. Pre(s, m) = s
  BY <1>0 DEF Pre, Fields
<1>5. q[m] \in Nat
  <2>1. m \in 0..m
    BY <1>0
  <2>. QED  BY <1>1, <2>1 DEF Laid
<1>6. ReadAgain(xs) = ReadRecords(buf_init(q[m], s), Len(xs))
  <2>. HIDE DEF s, m
  <2>1. Written(s, q, m, m).p = q[m] /\ Written(s, q, m, m).ep = q[m] /\ Written(s, q, m, m).put = s
    BY <1>4 DEF Written, Buf
  <2>2. ~(q[m] > q[m])
    BY <1>5
  <2>. QED  BY <1>3, <2>1, <2>2 DEF ReadAgain, buf_check_overflow
<1>7. ReadAgain(xs) = Got(s, q, m, m)
  BY <1>1, <1>6, ReadBack
<1>8. ReadAgain(xs).got = Vals(s, m)
  <2>. HIDE DEF s, m
  <2>. QED  BY <1>7 DEF Got, Buf
<1>9. ASSUME NEW i \in 1..Len(xs) PROVE Unpacked(ReadAgain(xs).got, i) = Recalled(uf[xs[i]])
  <2>. DEFINE a == 4 + 11 * (i - 1)
              r == SubSeq(Vals(s, m), 11 * i - 6, 11 * i + 4)
              x == xs[i]
  <2>1. RecordAt(s, a, x) /\ x \in UFids
    BY FieldsAre
  <2>2. a \in Nat /\ a + 11 <= m /\ 11 * i - 6 = a + 1 /\ 11 * i + 4 = a + 11
    BY <1>0
  <2>. HIDE DEF s, m, a, x
  <2>3. ASSUME NEW k \in 1..11 PROVE r[k] = FidRecord(x)[k].v
    <3>1. Vals(s, m)[a + k] = s[a + k].v
      BY <1>0, <2>2 DEF Vals
    <3>2. r[k] = Vals(s, m)[a + k]
      <4>1. 1 \in Nat /\ k \in 1..((a + 11) - (a + 1) + 1) /\ ((a + 1) + k) - 1 = a + k
        BY <2>2
      <4>. QED  BY <2>2, <4>1
    <3>3. s[a + k] = FidRecord(x)[k]
      BY <2>1 DEF RecordAt
    <3>. QED  BY <3>1, <3>2, <3>3
  <2>. HIDE DEF r
  <2>4. /\ r[2] = FidRecord(x)[2].v /\ r[3] = FidRecord(x)[3].v /\ r[6] = FidRecord(x)[6].v
        /\ r[8] = FidRecord(x)[8].v /\ r[10] = FidRecord(x)[10].v /\ r[11] = FidRecord(x)[11].v
    BY <2>3
  <2>5. /\ FidRecord(x)[2].v = uf[x].omode
        /\ FidRecord(x)[3].v = [dir |-> uf[x].isdir, xattr |-> IsXattr(x)]
        /\ FidRecord(x)[6].v = uf[x].path /\ FidRecord(x)[8].v = uf[x].xname
        /\ FidRecord(x)[10].v = XattrSize(x) /\ FidRecord(x)[11].v = uf[x].xa
    BY RecordLens, Zenon
  <2>6. r[3].dir = uf[x].isdir /\ r[3].xattr = IsXattr(x)
    BY <2>4, <2>5
  <2>7. RestoredXattr(r[3].xattr, r[10], r[11]) = uf[x].xa
    <3>1. uf[x].xa \in {"none", "fetched", "raw", "full", "empty"}
      BY <2>1 DEF FidT
    <3>2. RestoredXattr(IsXattr(x), XattrSize(x), uf[x].xa) = uf[x].xa
      BY <3>1 DEF RestoredXattr, IsXattr, XattrSize
    <3>. QED  BY <2>4, <2>5, <2>6, <3>2
  <2>8. Unpacked(Vals(s, m), i) =
          [UfsFid(r[6]) EXCEPT !.omode = r[2], !.isdir = r[3].dir, !.xname = r[8],
                               !.xa = RestoredXattr(r[3].xattr, r[10], r[11])]
    BY DEF Unpacked, r
  <2>9. Unpacked(Vals(s, m), i) = Recalled(uf[x])
    BY <2>4, <2>5, <2>6, <2>7, <2>8, Zenon DEF Recalled
  <2>. QED  BY <1>8, <2>9 DEF x
<1>. QED  BY <1>9

\* The fids that are written: each one that is used, once.
LEMMA UsedFidsAre ==
    /\ UsedFids \in Seq(UFids)
    /\ \A x \in UFids : uf[x].used => \E k \in 1..Len(UsedFids) : UsedFids[k] = x
<1>. DEFINE S == {x \in UFids : uf[x].used}
            n == Cardinality(S)
<1>1. IsFiniteSet(S)
  <2>1. S \subseteq UFids /\ IsFiniteSet(UFids)
    BY NpUfsAssumption
  <2>. HIDE DEF S
  <2>. QED  BY <2>1, FS_Subset
<1>. HIDE DEF S
<1>2. n \in Nat /\ ExistsBijection(1..n, S)
  BY <1>1, FS_CardinalityType
<1>3. \E f \in [1..n -> S] : IsInjective(f)
  BY <1>2 DEF ExistsBijection, Bijection, Injection
<1>4. UsedFids = CHOOSE f \in [1..n -> S] : IsInjective(f)
  BY DEF UsedFids, SetToSeq, S
<1>5. UsedFids \in [1..n -> S] /\ IsInjective(UsedFids)
  BY <1>3, <1>4
<1>6. UsedFids \in Injection(1..n, S)
  BY <1>5 DEF Injection
<1>7. Cardinality(1..n) = n
  BY <1>2, FS_Interval
<1>8. UsedFids \in Surjection(1..n, S)
  BY <1>1, <1>6, <1>7, FS_Injection
<1>9. Len(UsedFids) = n /\ UsedFids \in Seq(S)
  BY <1>2, <1>5
<1>10. \A x \in S : \E k \in 1..n : UsedFids[k] = x
  BY <1>8 DEF Surjection
<1>. QED  BY <1>9, <1>10 DEF S

\* What the fids are after a restore.
LEMMA FidsRestored ==
    ASSUME uf \in [UFids -> FidT], NEW x \in UFids, uf[x].used, NEW d
    PROVE  (LET i == CHOOSE k \in DOMAIN UsedFids : UsedFids[k] = x IN
            Restored(Unpacked(ReadAgain(UsedFids).got, i), d)) = Restored(Recalled(uf[x]), d)
<1>. DEFINE i == CHOOSE k \in DOMAIN UsedFids : UsedFids[k] = x
<1>1. /\ UsedFids \in Seq(UFids)
      /\ \E k \in 1..Len(UsedFids) : UsedFids[k] = x
  BY UsedFidsAre
<1>2. DOMAIN UsedFids = 1..Len(UsedFids)
  BY <1>1
<1>3. i \in 1..Len(UsedFids) /\ UsedFids[i] = x
  BY <1>1, <1>2
<1>. HIDE DEF i
<1>4. Unpacked(ReadAgain(UsedFids).got, i) = Recalled(uf[x])
  BY <1>1, <1>3, ReadAgainIs
<1>. QED  BY <1>4 DEF i

----------------------------------------------------------------------------
(* The steps *)

\* The fids and jobs there can be.
LEMMA FidTypes ==
    /\ NoJob \in JobT /\ Unused \in FidT /\ None \in 0..MaxFds /\ None \in 0..MaxInodes /\ HostRoot \in Inodes
    /\ \A p \in Seq(UNames) : UfsFid(p) \in FidT
    /\ \A p \in Seq(UNames) : UfsFid(p).used /\ UfsFid(p).path = p /\ UfsFid(p).job = NoJob /\ HeldIn(UfsFid(p)) = {}
    /\ HeldIn(Unused) = {} /\ Unused.job = NoJob /\ ~Unused.used
<1>1. /\ None \in 0..MaxFds /\ None \in 0..MaxInodes /\ HostRoot \in Inodes
      /\ \A i : i \in Inodes => i \in 0..MaxInodes
  BY NpUfsAssumption DEF None, HostRoot, Inodes
<1>2. <<>> \in Seq(UNames) /\ <<>> \in Seq(Attrs)
  OBVIOUS
<1>3. NoJob \in JobT
  BY <1>1, <1>2 DEF NoJob, JobT, Kinds
<1>4. \A p \in Seq(UNames) : UfsFid(p) \in FidT
  BY <1>1, <1>3 DEF UfsFid, FidT
<1>5. Unused \in FidT
  BY <1>2, <1>4 DEF Unused, FidT
<1>6. HeldIn(Unused) = {} /\ Unused.job = NoJob /\ ~Unused.used
  BY DEF Unused, UfsFid, HeldIn
<1>7. \A p \in Seq(UNames) : UfsFid(p).used /\ UfsFid(p).path = p /\ UfsFid(p).job = NoJob /\ HeldIn(UfsFid(p)) = {}
  BY DEF UfsFid, HeldIn
<1>. QED  BY <1>1, <1>3, <1>4, <1>5, <1>6, <1>7

\* What is known where a step starts.
LEMMA Before ==
    ASSUME UfsInv, calm
    PROVE  /\ mapped \in BOOLEAN /\ Typed(ents, ino, fds, uf)
           /\ ents \in [Inodes -> DirT] /\ ino \in [Inodes -> InodeT]
           /\ fds \in [Fds -> 0..MaxInodes] /\ uf \in [UFids -> FidT]
           /\ \A x \in UFids : uf[x] \in FidT /\ uf[x].path \in Seq(UNames)
           /\ Sound(mapped, ents, ino, fds, uf, {}) /\ Kept(ents, ino, fds)
           /\ Tree(mapped, ents, ino) /\ Fids(mapped, ents, ino, fds, uf) /\ Apart(uf)
           /\ \A x \in UFids : Ready(x) => uf[x].used /\ uf[x].job = NoJob
           /\ \A x \in UFids : ~uf[x].used => HeldIn(uf[x]) = {} /\ uf[x].job = NoJob
<1>1. /\ mapped \in BOOLEAN /\ Typed(ents, ino, fds, uf)
      /\ ents \in [Inodes -> DirT] /\ ino \in [Inodes -> InodeT]
      /\ fds \in [Fds -> 0..MaxInodes] /\ uf \in [UFids -> FidT]
      /\ Sound(mapped, ents, ino, fds, uf, {}) /\ Kept(ents, ino, fds)
  BY DEF UfsInv, UfsTypeOK, Typed
<1>2. Tree(mapped, ents, ino) /\ Fids(mapped, ents, ino, fds, uf) /\ Apart(uf)
  BY <1>1 DEF Sound
<1>3. \A x \in UFids : uf[x] \in FidT /\ uf[x].path \in Seq(UNames)
  BY <1>1, JobKinds
<1>4. \A x \in UFids : ~uf[x].used => HeldIn(uf[x]) = {} /\ uf[x].job = NoJob
  <2>1. \A x \in UFids : ~uf[x].used => uf[x] = Unused
    BY <1>2 DEF Fids
  <2>. QED  BY <2>1, FidTypes
<1>. QED  BY <1>1, <1>2, <1>3, <1>4 DEF Ready

\* What is shown where it ends.
LEMMA After ==
    ASSUME mapped \in BOOLEAN, mapped' = mapped, calm' \in BOOLEAN, Typed(ents', ino', fds', uf'),
           calm' => Sound(mapped, ents', ino', fds', uf', {}) /\ Kept(ents', ino', fds')
    PROVE  UfsInv'
BY DEF UfsInv, UfsTypeOK

\* The same of a step of the fids alone.
LEMMA AfterFids ==
    ASSUME UfsInv, calm, UNCHANGED <<mapped, ents, ino, fds>>, calm' \in BOOLEAN, uf' \in [UFids -> FidT],
           calm' => Sound(mapped, ents, ino, fds, uf', {})
    PROVE  UfsInv'
<1>1. /\ mapped \in BOOLEAN /\ Typed(ents, ino, fds, uf) /\ Kept(ents, ino, fds)
  BY Before
<1>2. ents' = ents /\ ino' = ino /\ fds' = fds /\ mapped' = mapped
  OBVIOUS
<1>3. Typed(ents', ino', fds', uf')
  BY <1>1, <1>2 DEF Typed
<1>4. calm' => Sound(mapped, ents', ino', fds', uf', {}) /\ Kept(ents', ino', fds')
  BY <1>1, <1>2
<1>. QED  BY <1>1, <1>2, <1>3, <1>4, After

\* One fid becomes f.
LEMMA OneFid ==
    ASSUME uf \in [UFids -> FidT], NEW x \in UFids, NEW f \in FidT, uf' = [uf EXCEPT ![x] = f]
    PROVE  uf' \in [UFids -> FidT] /\ uf'[x] = f /\ Others(uf, uf', x)
BY DEF Others

\* Tattach.
LEMMA AttachStep ==
    ASSUME UfsInv, calm, NEW x \in UFids, npfs_attach(x)
    PROVE  UfsInv'
<1>1. uf' = [uf EXCEPT ![x] = UfsFid(<<>>)] /\ ~uf[x].used /\ UNCHANGED <<mapped, calm, ents, ino, fds>>
  BY DEF npfs_attach
<1>2. <<>> \in Seq(UNames)
  OBVIOUS
<1>3. uf' \in [UFids -> FidT] /\ uf'[x] = UfsFid(<<>>) /\ Others(uf, uf', x)
  BY <1>1, <1>2, Before, FidTypes, OneFid
<1>4. HeldIn(uf[x]) = {} /\ uf[x].job = NoJob /\ uf[x].fd = None /\ uf[x].dir = None
  <2>1. HeldIn(uf[x]) = {} /\ uf[x].job = NoJob
    BY <1>1, Before
  <2>. QED  BY <2>1 DEF HeldIn
<1>5. \A y \in UFids : AtWork(uf[y]) => ~IsPrefix(uf[y].job.path, <<>>)
  <2>1. ASSUME NEW y \in UFids, AtWork(uf[y]) PROVE ~IsPrefix(uf[y].job.path, <<>>)
    <3>1. uf[y].job.path \in Seq(UNames) /\ uf[y].job.path # <<>>
      BY <2>1, Before, WorkIs
    <3>. QED  BY <1>2, <3>1, PrefixLaws
  <2>. QED  BY <2>1
<1>6. uf'[x].used /\ uf'[x].path = <<>> /\ uf'[x].job = NoJob /\ uf'[x].fd = None /\ uf'[x].dir = None
  BY <1>3 DEF UfsFid
<1>7. Sound(mapped, ents, ino, fds, uf', {})
  BY <1>3, <1>4, <1>5, <1>6, Before, FidMoves
<1>. QED  BY <1>1, <1>3, <1>7, AfterFids
\* A fid that is used does not stand on what is being made, nor in it.
LEMMA PathFree ==
    ASSUME UfsInv, calm, NEW x \in UFids, uf[x].used
    PROVE  \A y \in UFids : AtWork(uf[y]) => /\ uf[y].job.path \in Seq(UNames)
                                             /\ ~IsPrefix(uf[y].job.path, uf[x].path)
                                             /\ uf[y].job.path # uf[x].path
<1>1. ASSUME NEW y \in UFids, AtWork(uf[y])
      PROVE  /\ uf[y].job.path \in Seq(UNames)
             /\ ~IsPrefix(uf[y].job.path, uf[x].path) /\ uf[y].job.path # uf[x].path
  <2>1. Apart(uf)
    BY Before
  <2>2. ~IsPrefix(uf[y].job.path, uf[x].path)
    BY <1>1, <2>1 DEF Apart
  <2>3. uf[y].job.path \in Seq(UNames)
    BY <1>1, Before, WorkIs
  <2>. QED  BY <2>2, <2>3, PrefixLaws
<1>. QED  BY <1>1

\* A fid that is not used gets the path of another.
LEMMA FidMade ==
    ASSUME UfsInv, calm, NEW x \in UFids, uf[x].used, NEW y \in UFids, ~uf[y].used,
           NEW f \in FidT, f.used, f.path = uf[x].path, f.job = NoJob, f.fd = None, f.dir = None,
           uf' = [uf EXCEPT ![y] = f], UNCHANGED <<mapped, calm, ents, ino, fds>>
    PROVE  UfsInv'
<1>1. uf' \in [UFids -> FidT] /\ uf'[y] = f /\ Others(uf, uf', y)
  BY Before, OneFid
<1>2. HeldIn(uf[y]) = {} /\ uf[y].job = NoJob /\ uf[y].fd = None /\ uf[y].dir = None
  <2>1. HeldIn(uf[y]) = {} /\ uf[y].job = NoJob
    BY Before
  <2>. QED  BY <2>1 DEF HeldIn
<1>3. \A z \in UFids : AtWork(uf[z]) => ~IsPrefix(uf[z].job.path, uf'[y].path)
  BY <1>1, PathFree
<1>4. uf'[y].used /\ uf'[y].job = NoJob /\ uf'[y].fd = uf[y].fd /\ uf'[y].dir = uf[y].dir
  BY <1>1, <1>2
<1>5. Sound(mapped, ents, ino, fds, uf', {})
  BY <1>1, <1>2, <1>3, <1>4, Before, FidMoves
<1>. QED  BY <1>1, <1>5, AfterFids, Before DEF UfsInv, UfsTypeOK

\* Twalk without names.
LEMMA CloneStep ==
    ASSUME UfsInv, calm, NEW x \in UFids, NEW y \in UFids, npfs_clone(x, y)
    PROVE  UfsInv'
<1>. DEFINE f == [UfsFid(uf[x].path) EXCEPT !.isdir = uf[x].isdir]
<1>1. /\ Ready(x) /\ ~uf[y].used /\ uf' = [uf EXCEPT ![y] = f] /\ UNCHANGED <<mapped, calm, ents, ino, fds>>
  BY DEF npfs_clone
<1>2. uf[x].used /\ uf[x].path \in Seq(UNames) /\ uf[x] \in FidT
  BY <1>1, Before
<1>3. UfsFid(uf[x].path) \in FidT /\ uf[x].isdir \in BOOLEAN
  BY <1>2, FidTypes DEF FidT
<1>4. f \in FidT
  BY <1>3 DEF FidT
<1>5. f.used /\ f.path = uf[x].path /\ f.job = NoJob /\ f.fd = None /\ f.dir = None
  BY DEF UfsFid
<1>. HIDE DEF f
<1>. QED  BY <1>1, <1>2, <1>4, <1>5, FidMade

\* Txattrwalk.
LEMMA XattrwalkStep ==
    ASSUME UfsInv, calm, NEW x \in UFids, NEW y \in UFids, npfs_xattrwalk(x, y)
    PROVE  UfsInv'
<1>. DEFINE f == [UfsFid(uf[x].path) EXCEPT !.omode = "read", !.isdir = FALSE, !.xa = "fetched"]
<1>1. /\ Ready(x) /\ ~uf[y].used /\ uf' = [uf EXCEPT ![y] = f] /\ UNCHANGED <<mapped, calm, ents, ino, fds>>
  BY DEF npfs_xattrwalk
<1>2. uf[x].used /\ uf[x].path \in Seq(UNames)
  BY <1>1, Before
<1>3. UfsFid(uf[x].path) \in FidT
  BY <1>2, FidTypes
<1>4. f \in FidT
  BY <1>3 DEF FidT
<1>5. f.used /\ f.path = uf[x].path /\ f.job = NoJob /\ f.fd = None /\ f.dir = None
  BY DEF UfsFid
<1>. HIDE DEF f
<1>. QED  BY <1>1, <1>2, <1>4, <1>5, FidMade

\* A fid that no handler works for becomes f: the same descriptors, and the same file
\* if there are any.
LEMMA FidChanged ==
    ASSUME UfsInv, calm, NEW x \in UFids, uf[x].used, uf[x].job = NoJob,
           NEW f \in FidT, uf' = [uf EXCEPT ![x] = f], UNCHANGED <<mapped, ents, ino, fds>>, calm' \in BOOLEAN,
           calm' => /\ f.used /\ f.job = NoJob /\ f.fd = uf[x].fd /\ f.dir = uf[x].dir
                    /\ HeldIn(uf[x]) = {} \/ (f.path = uf[x].path /\ f.isdir = uf[x].isdir)
                    /\ \A y \in UFids : AtWork(uf[y]) => ~IsPrefix(uf[y].job.path, f.path)
    PROVE  UfsInv'
<1>1. uf' \in [UFids -> FidT] /\ uf'[x] = f /\ Others(uf, uf', x)
  BY Before, OneFid
<1>2. ASSUME calm' PROVE Sound(mapped, ents, ino, fds, uf', {})
  <2>1. /\ uf'[x].used /\ uf'[x].job = NoJob /\ uf'[x].fd = uf[x].fd /\ uf'[x].dir = uf[x].dir
        /\ HeldIn(uf[x]) = {} \/ (uf'[x].path = uf[x].path /\ uf'[x].isdir = uf[x].isdir)
        /\ \A y \in UFids : AtWork(uf[y]) => ~IsPrefix(uf[y].job.path, uf'[x].path)
    BY <1>1, <1>2
  <2>. QED  BY <1>1, <2>1, Before, FidMoves
<1>. QED  BY <1>1, <1>2, AfterFids

\* Twalk by one name.
LEMMA WalkStep ==
    ASSUME UfsInv, calm, NEW x \in UFids, NEW n \in UNames, npfs_walk(x, n)
    PROVE  UfsInv'
<1>. DEFINE np == Append(uf[x].path, n)
            b == ustat2qidtype(ufs_lstat(np))
            f == [uf[x] EXCEPT !.path = np, !.isdir = b]
<1>1. /\ Ready(x) /\ UNCHANGED <<mapped, ents, ino, fds>>
      /\ uf' = [uf EXCEPT ![x].path = np, ![x].isdir = b]
      /\ calm' = (Bare(x) /\ \A y \in UFids : uf[y].job.k # "no" => uf[y].job.path # np)
  BY DEF npfs_walk, ufs_join, Calm
<1>2. uf[x].used /\ uf[x].job = NoJob /\ uf[x].path \in Seq(UNames) /\ uf[x] \in FidT /\ uf \in [UFids -> FidT]
  BY <1>1, Before
<1>3. np \in Seq(UNames) /\ b \in BOOLEAN
  BY <1>2 DEF ustat2qidtype
<1>4. calm' \in BOOLEAN
  BY <1>1
<1>. HIDE DEF np, b
<1>5. uf' = [uf EXCEPT ![x] = f] /\ f \in FidT
  BY <1>1, <1>2, <1>3 DEF FidT
<1>6. f.used /\ f.job = NoJob /\ f.fd = uf[x].fd /\ f.dir = uf[x].dir /\ f.path = np
  BY <1>2 DEF FidT
<1>. HIDE DEF f
<1>7. ASSUME calm' PROVE HeldIn(uf[x]) = {} /\ \A y \in UFids : AtWork(uf[y]) => ~IsPrefix(uf[y].job.path, f.path)
  <2>1. HeldIn(uf[x]) = {}
    BY <1>1, <1>7 DEF Bare, HeldIn
  <2>2. ASSUME NEW y \in UFids, AtWork(uf[y]) PROVE ~IsPrefix(uf[y].job.path, np)
    <3>1. uf[y].job.path \in Seq(UNames) /\ ~IsPrefix(uf[y].job.path, uf[x].path)
      BY <1>2, <2>2, PathFree
    <3>2. uf[y].job.path # np
      BY <1>1, <1>7, <2>2 DEF AtWork
    <3>. QED  BY <1>2, <3>1, <3>2, PrefixOfNext DEF np
  <2>. QED  BY <1>6, <2>1, <2>2
<1>. QED  BY <1>1, <1>2, <1>4, <1>5, <1>6, <1>7, FidChanged, ZenonT(40)

\* An open that the host refuses.
LEMMA OpenRefusedStep ==
    ASSUME UfsInv, calm, NEW x \in UFids, OpenRefused(x)
    PROVE  UfsInv'
<1>. DEFINE v == IF fidstat(x) \notin {"dir", "error"} THEN None ELSE uf[x].fd
            w == IF fidstat(x) = "dir" THEN None ELSE uf[x].dir
            f == [uf[x] EXCEPT !.omode = "read", !.fd = v, !.dir = w]
<1>1. /\ Ready(x) /\ UNCHANGED <<mapped, ents, ino, fds>>
      /\ uf' = [uf EXCEPT ![x].omode = "read", ![x].fd = IF fidstat(x) \notin {"dir", "error"} THEN None ELSE @,
                          ![x].dir = IF fidstat(x) = "dir" THEN None ELSE @]
      /\ calm' = (~IsXattr(x) /\ (Bare(x) \/ (uf[x].dir = None /\ fidstat(x) = "dir")))
  BY DEF OpenRefused, Calm
<1>2. uf[x].used /\ uf[x].job = NoJob /\ uf[x].path \in Seq(UNames) /\ uf[x] \in FidT /\ uf \in [UFids -> FidT]
  BY <1>1, Before
<1>3. v \in 0..MaxFds /\ w \in 0..MaxFds
  BY <1>2, FidTypes DEF FidT
<1>4. calm' \in BOOLEAN /\ (calm' => v = uf[x].fd /\ w = uf[x].dir)
  BY <1>1 DEF Bare
<1>5. uf' = [uf EXCEPT ![x] = f]
  BY <1>1, <1>2 DEF FidT
<1>. HIDE DEF v, w
<1>6. f \in FidT
  BY <1>2, <1>3 DEF FidT
<1>7. f.used /\ f.job = NoJob /\ f.fd = v /\ f.dir = w /\ f.path = uf[x].path /\ f.isdir = uf[x].isdir
  BY <1>2 DEF FidT
<1>. HIDE DEF f
<1>8. \A y \in UFids : AtWork(uf[y]) => ~IsPrefix(uf[y].job.path, f.path)
  BY <1>2, <1>7, PathFree
<1>. QED  BY <1>1, <1>2, <1>4, <1>5, <1>6, <1>7, <1>8, FidChanged, ZenonT(40)

\* Txattrcreate.
LEMMA XattrcreateStep ==
    ASSUME UfsInv, calm, NEW x \in UFids, NEW v \in {"raw", "empty"}, npfs_xattrcreate(x, v)
    PROVE  UfsInv'
<1>. DEFINE f == [uf[x] EXCEPT !.xa = v, !.xname = TRUE, !.omode = "write"]
<1>1. /\ Ready(x) /\ UNCHANGED <<mapped, ents, ino, fds>> /\ calm' = Bare(x)
      /\ uf' = [uf EXCEPT ![x].xa = v, ![x].xname = TRUE, ![x].omode = "write"]
  BY DEF npfs_xattrcreate, Calm
<1>2. uf[x].used /\ uf[x].job = NoJob /\ uf[x].path \in Seq(UNames) /\ uf[x] \in FidT /\ uf \in [UFids -> FidT]
  BY <1>1, Before
<1>3. uf' = [uf EXCEPT ![x] = f] /\ f \in FidT
  BY <1>1, <1>2 DEF FidT
<1>4. f.used /\ f.job = NoJob /\ f.fd = uf[x].fd /\ f.dir = uf[x].dir /\ f.path = uf[x].path /\ f.isdir = uf[x].isdir
  BY <1>2 DEF FidT
<1>5. calm' \in BOOLEAN
  BY <1>1 DEF Bare
<1>. HIDE DEF f
<1>6. \A y \in UFids : AtWork(uf[y]) => ~IsPrefix(uf[y].job.path, f.path)
  BY <1>2, <1>4, PathFree
<1>. QED  BY <1>1, <1>2, <1>3, <1>4, <1>5, <1>6, FidChanged

\* Twrite of an attribute value.
LEMMA XattrwriteStep ==
    ASSUME UfsInv, calm, NEW x \in UFids, npfs_xattrwrite(x)
    PROVE  UfsInv'
<1>. DEFINE f == [uf[x] EXCEPT !.xa = "full"]
<1>1. /\ Ready(x) /\ UNCHANGED <<mapped, calm, ents, ino, fds>> /\ uf' = [uf EXCEPT ![x].xa = "full"]
  BY DEF npfs_xattrwrite
<1>2. uf[x].used /\ uf[x].job = NoJob /\ uf[x].path \in Seq(UNames) /\ uf[x] \in FidT /\ uf \in [UFids -> FidT]
  BY <1>1, Before
<1>3. uf' = [uf EXCEPT ![x] = f] /\ f \in FidT
  BY <1>1, <1>2 DEF FidT
<1>4. f.used /\ f.job = NoJob /\ f.fd = uf[x].fd /\ f.dir = uf[x].dir /\ f.path = uf[x].path /\ f.isdir = uf[x].isdir
  BY <1>2 DEF FidT
<1>. HIDE DEF f
<1>5. \A y \in UFids : AtWork(uf[y]) => ~IsPrefix(uf[y].job.path, f.path)
  BY <1>2, <1>4, PathFree
<1>6. calm' \in BOOLEAN
  BY <1>1
<1>. QED  BY <1>1, <1>2, <1>3, <1>4, <1>5, <1>6, FidChanged
\* The least of some numbers is one of them.
LEMMA LeastIn ==
    ASSUME NEW T, T \subseteq Nat, T # {}
    PROVE  Least(T) \in T
<1>1. \E m \in T : \A k \in T : m <= k
  BY LeastNat
<1>. QED  BY <1>1 DEF Least

\* The descriptor and the inode the host takes.
LEMMA FreeOnes ==
    ASSUME UfsInv, calm
    PROVE  /\ FreeFds # {} => /\ Least(FreeFds) \in Fds /\ fds[Least(FreeFds)] = None
                              /\ Least(FreeFds) \in 0..MaxFds /\ Least(FreeFds) # None
           /\ FreeInodes # {} => /\ Least(FreeInodes) \in Inodes /\ ino[Least(FreeInodes)].kind = "none"
                                 /\ Least(FreeInodes) \in 0..MaxInodes /\ Least(FreeInodes) # None
<1>1. FreeFds \subseteq Nat /\ FreeInodes \subseteq Nat
  BY DEF FreeFds, FreeInodes, Fds, Inodes
<1>2. FreeFds # {} => Least(FreeFds) \in FreeFds
  BY <1>1, LeastIn
<1>3. FreeInodes # {} => Least(FreeInodes) \in FreeInodes
  BY <1>1, LeastIn
<1>4. /\ \A d \in FreeFds : d \in Fds /\ fds[d] = None /\ d \in 0..MaxFds /\ d # None
      /\ \A i \in FreeInodes : i \in Inodes /\ ino[i].kind = "none" /\ i \in 0..MaxInodes /\ i # None
  BY DEF FreeFds, FreeInodes, Fds, Inodes, None
<1>. QED  BY <1>2, <1>3, <1>4

\* Descriptor d is opened on i.
LEMMA DescMade ==
    ASSUME fds \in [Fds -> 0..MaxInodes], NEW d \in Fds, fds[d] = None, NEW i \in 0..MaxInodes,
           fds' = [fds EXCEPT ![d] = i]
    PROVE  /\ fds' \in [Fds -> 0..MaxInodes] /\ Opening(fds, fds', d, i) /\ IsOpen(fds', i)
           /\ \A j \in Inodes : IsOpen(fds, j) => IsOpen(fds', j)
<1>1. fds' \in [Fds -> 0..MaxInodes] /\ fds'[d] = i /\ \A e \in Fds \ {d} : fds'[e] = fds[e]
  OBVIOUS
<1>2. \A j \in Inodes : j # None
  BY DEF Inodes, None
<1>. QED  BY <1>1, <1>2 DEF Opening, IsOpen

\* Topen, Tlopen.
LEMMA OpenStep ==
    ASSUME UfsInv, calm, NEW x \in UFids, Open(x)
    PROVE  UfsInv'
<1>. DEFINE d == Least(FreeFds)
            i == Follow(uf[x].path)
<1>1. /\ Ready(x) /\ FreeFds # {} /\ Opens(uf[x].path) /\ UNCHANGED <<mapped, ents, ino>>
      /\ calm' = (Bare(x) /\ ~IsXattr(x))
      /\ uf' = [uf EXCEPT ![x] = Opened(x, d)] /\ fds' = [fds EXCEPT ![d] = i]
  BY DEF Open, Calm
<1>2. uf[x].used /\ uf[x].job = NoJob /\ uf[x].path \in Seq(UNames) /\ uf[x] \in FidT
  BY <1>1, Before
<1>3. d \in Fds /\ fds[d] = None /\ d \in 0..MaxFds /\ d # None
  BY <1>1, FreeOnes
<1>4. i = FollowIn(ents, uf[x].path) /\ i # None
  BY <1>1, FollowIs DEF Opens
<1>5. i \in Inodes /\ ino[i].kind # "none" /\ i \in 0..MaxInodes
  BY <1>2, <1>4, Before, PathLive, FollowType
<1>. HIDE DEF d, i
<1>6. fds' \in [Fds -> 0..MaxInodes] /\ Opening(fds, fds', d, i) /\ \A j \in Inodes : IsOpen(fds, j) => IsOpen(fds', j)
  BY <1>1, <1>3, <1>5, Before, DescMade
<1>7. Opened(x, d) \in FidT
  BY <1>2, <1>3 DEF Opened, FidT
<1>8. uf' \in [UFids -> FidT] /\ uf'[x] = Opened(x, d) /\ Others(uf, uf', x)
  BY <1>1, <1>7, Before, OneFid
<1>9. Typed(ents', ino', fds', uf') /\ calm' \in BOOLEAN /\ mapped' = mapped
  BY <1>1, <1>6, <1>8, Before DEF Typed, Bare
<1>10. ASSUME calm' PROVE Sound(mapped, ents', ino', fds', uf', {}) /\ Kept(ents', ino', fds')
  <2>1. uf[x].fd = None /\ uf[x].dir = None
    BY <1>1, <1>10 DEF Bare
  <2>2. /\ Takes(uf[x], Opened(x, d), d) /\ Opened(x, d).used /\ Opened(x, d).job = NoJob
        /\ Opened(x, d).path = uf[x].path /\ Opened(x, d).isdir = uf[x].isdir
    BY <1>2, <2>1 DEF Opened, Takes, FidT
  <2>3. Sound(mapped, ents, ino, fds', uf', {})
    BY <1>2, <1>3, <1>4, <1>5, <1>6, <1>8, <2>2, Before, FidOpens
  <2>4. Kept(ents, ino, fds')
    BY <1>6, Before, KeptGrows
  <2>. QED  BY <1>1, <2>3, <2>4
<1>. QED  BY <1>9, <1>10, Before, After

\* Without mapped ids no file is an exception.
LEMMA Unmapped ==
    ASSUME NEW mp, ~mp, NEW es, NEW io, NEW ds, NEW u, NEW S, Sound(mp, es, io, ds, u, S), NEW S2
    PROVE  Sound(mp, es, io, ds, u, S2)
BY DEF Sound, Whole

\* A name in the directory of a fid is of nobody when no other fid uses it.
LEMMA NewVacant ==
    ASSUME UfsInv, calm, NEW x \in UFids, Ready(x), NEW n \in UNames, ~InUse(x, Append(uf[x].path, n))
    PROVE  Vacant(uf, Append(uf[x].path, n))
<1>1. uf[x].path \in Seq(UNames) /\ uf[x].job = NoJob /\ uf[x] \in FidT
  BY Before
<1>2. ASSUME NEW y \in UFids, uf[y].used PROVE ~IsPrefix(Append(uf[x].path, n), uf[y].path)
  <2>1. CASE y = x
    BY <1>1, <2>1, PrefixLaws
  <2>2. CASE y # x
    BY <1>2, <2>2 DEF InUse
  <2>. QED  BY <2>1, <2>2
<1>3. ASSUME NEW y \in UFids, uf[y].job.k # "no" PROVE ~IsPrefix(Append(uf[x].path, n), uf[y].job.path)
  <2>1. y # x
    BY <1>1, <1>3, JobKinds
  <2>2. uf[y].job # NoJob
    BY <1>3 DEF NoJob
  <2>. QED  BY <2>1, <2>2 DEF InUse
<1>. QED  BY <1>2, <1>3 DEF Vacant

\* The entries with the new name.
LEMMA EnteredIs ==
    ASSUME UfsInv, calm, NEW x \in UFids, NEW n \in UNames, NameFree(x, n),
           NEW i \in 0..MaxInodes, ents' = Entered(x, n, i)
    PROVE  /\ uf[x].used /\ uf[x].job = NoJob /\ uf[x].isdir /\ uf[x].path \in Seq(UNames)
           /\ ufs_join(uf[x].path, n) = Append(uf[x].path, n) /\ Append(uf[x].path, n) \in Seq(UNames)
           /\ ents' \in [Inodes -> DirT]
           /\ IsDir(ents, ino, uf[x].path) /\ FollowIn(ents, uf[x].path) \in Inodes
           /\ ents[FollowIn(ents, uf[x].path)][n] = None
           /\ Rewritten(ents, ents', FollowIn(ents, uf[x].path), n, i)
<1>1. /\ Ready(x) /\ uf[x].isdir /\ Follow(uf[x].path) # None /\ ino[Follow(uf[x].path)].kind = "dir"
      /\ Follow(ufs_join(uf[x].path, n)) = None
  BY DEF NameFree, InDir
<1>2. uf[x].used /\ uf[x].job = NoJob /\ uf[x].path \in Seq(UNames)
  BY <1>1, Before
<1>3. ufs_join(uf[x].path, n) = Append(uf[x].path, n) /\ Append(uf[x].path, n) \in Seq(UNames)
  BY <1>2 DEF ufs_join
<1>. DEFINE d == FollowIn(ents, uf[x].path)
<1>4. Follow(uf[x].path) = d /\ Follow(Append(uf[x].path, n)) = FollowIn(ents, Append(uf[x].path, n))
  BY FollowIs
<1>5. FollowIn(ents, Append(uf[x].path, n)) = IF d = None THEN None ELSE ents[d][n]
  BY <1>2, FollowLaws
<1>6. d \in Inodes /\ IsDir(ents, ino, uf[x].path) /\ ents[d][n] = None
  <2>1. d # None
    BY <1>1, <1>4
  <2>2. d \in Inodes
    BY <1>2, <2>1, Before, FollowType
  <2>. QED  BY <1>1, <1>3, <1>4, <1>5, <2>1, <2>2 DEF IsDir
<1>7. ents' = [ents EXCEPT ![d][n] = i]
  BY <1>4 DEF Entered
<1>. HIDE DEF d
<1>8. ents' \in [Inodes -> DirT] /\ Rewritten(ents, ents', d, n, i)
  <2>1. ents \in [Inodes -> DirT] /\ d \in Inodes
    BY <1>6, Before
  <2>2. /\ [ents EXCEPT ![d][n] = i] \in [Inodes -> DirT]
        /\ Rewritten(ents, [ents EXCEPT ![d][n] = i], d, n, i)
    BY <2>1, RewrittenIs
  <2>. QED  BY <1>7, <2>2
<1>. QED  BY <1>1, <1>2, <1>3, <1>6, <1>8 DEF d

\* The host makes inode i and gives it the name n in the directory of fid x.
HostMakes(x, n, kind, as, i) ==
    /\ Makes(x, n)
    /\ i = Least(FreeInodes)
    /\ ino' = [ino EXCEPT ![i] = Inode(kind, as)] /\ ents' = Entered(x, n, i)

\* What there is then.
HostMade(x, n, kind, as, i) ==
    /\ ents' \in [Inodes -> DirT] /\ ino' \in [Inodes -> InodeT] /\ i \in Inodes
    /\ ino'[i] = Inode(kind, as) /\ ino'[i].kind = kind /\ ino'[i].as = as /\ ino'[i].attrs = {}
    /\ uf[x].used /\ uf[x].job = NoJob /\ uf[x].isdir /\ uf[x].path \in Seq(UNames)
    /\ ufs_join(uf[x].path, n) = Append(uf[x].path, n) /\ Append(uf[x].path, n) \in Seq(UNames)
    /\ Kept(ents', ino', fds)
    /\ NotUsed(x, n) => /\ Sound(mapped, ents', ino', fds, uf, {i})
                        /\ FollowIn(ents', Append(uf[x].path, n)) = i /\ ents'[i] = NoEnts
                        /\ Vacant(uf, Append(uf[x].path, n))

\* A file is made and gets its name.
LEMMA FileMade ==
    ASSUME UfsInv, calm, NEW x \in UFids, NEW n \in UNames,
           NEW kind \in Ours, NEW as \in Ours, NEW i, HostMakes(x, n, kind, as, i)
    PROVE  HostMade(x, n, kind, as, i)
<1>1. NameFree(x, n) /\ FreeInodes # {}
  BY DEF Makes, HostMakes
<1>2. i \in Inodes /\ ino[i].kind = "none" /\ i \in 0..MaxInodes /\ i # None
  BY <1>1, FreeOnes DEF HostMakes
<1>3. /\ uf[x].used /\ uf[x].job = NoJob /\ uf[x].isdir /\ uf[x].path \in Seq(UNames)
      /\ ufs_join(uf[x].path, n) = Append(uf[x].path, n) /\ Append(uf[x].path, n) \in Seq(UNames)
      /\ ents' \in [Inodes -> DirT]
      /\ IsDir(ents, ino, uf[x].path) /\ FollowIn(ents, uf[x].path) \in Inodes
      /\ ents[FollowIn(ents, uf[x].path)][n] = None
      /\ Rewritten(ents, ents', FollowIn(ents, uf[x].path), n, i)
  BY <1>1, <1>2, EnteredIs DEF HostMakes
<1>4. Inode(kind, as) \in InodeT /\ Inode(kind, as).kind = kind /\ Inode(kind, as).as = as /\ Inode(kind, as).attrs = {}
  BY DEF Inode, NoInode, InodeT, Kinds, Attrs, Ours
<1>5. /\ ino' \in [Inodes -> InodeT] /\ ino'[i] = Inode(kind, as) /\ \A j \in Inodes \ {i} : ino'[j] = ino[j]
      /\ ino'[i].kind = kind /\ ino'[i].as = as /\ ino'[i].attrs = {} /\ kind # "none"
  BY <1>2, <1>4, Before DEF Ours, HostMakes
<1>6. /\ Sound(mapped, ents, ino', fds, uf, {})
      /\ i # HostRoot /\ ~Named(ents, i) /\ ents[i] = NoEnts
  <2>1. Typed(ents, ino, fds, uf) /\ Sound(mapped, ents, ino, fds, uf, {})
    BY Before
  <2>2. /\ ino'[i].kind # "none" /\ ino'[i].attrs = {} /\ i \in Inodes /\ ino[i].kind = "none"
        /\ ino' \in [Inodes -> InodeT] /\ \A j \in Inodes \ {i} : ino'[j] = ino[j]
    BY <1>2, <1>5
  <2>. QED  BY <2>1, <2>2, InodeMade
<1>7. i # FollowIn(ents, uf[x].path)
  BY <1>2, <1>3 DEF IsDir
<1>8. ents'[i] = NoEnts
  <2>1. ents \in [Inodes -> DirT]
    BY Before
  <2>2. \A j \in Inodes \ {FollowIn(ents, uf[x].path)} : ents'[j] = ents[j]
    BY <1>3, <2>1, Untouched
  <2>. QED  BY <1>2, <1>6, <1>7, <2>2
<1>9. Kept(ents', ino', fds)
  <2>1. \A j \in Inodes : Named(ents', j) <=> Named(ents, j) \/ j = i
    <3>1. ents \in [Inodes -> DirT]
      BY Before
    <3>. QED  BY <1>2, <1>3, <3>1, EntryMade
  <2>2. \A j \in Inodes : ino'[j].kind # "none" => ino[j].kind # "none" \/ Named(ents', j) \/ IsOpen(fds, j)
    BY <1>5, <2>1
  <2>. QED  BY <2>1, <2>2, Before, KeptGrows
<1>10. ASSUME NotUsed(x, n)
       PROVE  /\ Sound(mapped, ents', ino', fds, uf, {i}) /\ FollowIn(ents', Append(uf[x].path, n)) = i
              /\ Vacant(uf, Append(uf[x].path, n))
  <2>1. Vacant(uf, Append(uf[x].path, n))
    <3>1. Ready(x) /\ ~InUse(x, Append(uf[x].path, n))
      BY <1>1, <1>3, <1>10 DEF NotUsed, NameFree, InDir
    <3>. QED  BY <3>1, NewVacant
  <2>2. IsDir(ents, ino', uf[x].path)
    BY <1>3, <1>5, <1>7 DEF IsDir
  <2>3. \A y \in UFids : AtWork(uf[y]) => uf[y].job.path # uf[x].path
    BY <1>3, PathFree
  <2>4. Typed(ents, ino', fds, uf)
    BY <1>5, Before DEF Typed
  <2>5. mapped \in BOOLEAN /\ ino'[i].kind # "none" /\ MayName(mapped, ents, ino', i)
    BY <1>5, <1>6, Before DEF MayName
  <2>6. Sound(mapped, ents', ino', fds, uf, {i}) /\ FollowIn(ents', Append(uf[x].path, n)) = i
    <3>1. Enters(mapped, ents, ino', uf, ents', uf[x].path, n, i)
      BY <1>3, <1>6, <2>1, <2>2, <2>3, <2>5 DEF Enters
    <3>2. {} \subseteq {i} /\ i \in {i}
      OBVIOUS
    <3>3. i \in Inodes /\ uf[x].path \in Seq(UNames) /\ ents' \in [Inodes -> DirT] /\ mapped \in BOOLEAN
      BY <1>2, <1>3, <2>5
    <3>. QED  BY <1>6, <2>4, <3>1, <3>2, <3>3, NameEntered
  <2>. QED  BY <2>1, <2>6
<1>. QED  BY <1>2, <1>3, <1>5, <1>8, <1>9, <1>10 DEF HostMade
\* A fid that has nothing open goes to another path as f, and opens what is there.
OpensAt(es, io, ds, ds2, u, u2, x, f, d) ==
    /\ u[x].used /\ u[x].job = NoJob /\ HeldIn(u[x]) = {} /\ Others(u, u2, x) /\ u2[x] = f
    /\ f.used /\ f.job = NoJob /\ Takes(u[x], f, d)
    /\ io[FollowIn(es, f.path)].kind # "none" /\ Opening(ds, ds2, d, FollowIn(es, f.path))
    /\ \A y \in UFids : AtWork(u[y]) => ~IsPrefix(u[y].job.path, f.path)

\* A fid goes to another path and opens what is there.
LEMMA FidMovesAndOpens ==
    ASSUME NEW mp \in BOOLEAN, NEW es, NEW io, NEW ds, NEW u, Typed(es, io, ds, u), NEW S,
           Sound(mp, es, io, ds, u, S),
           NEW x \in UFids, NEW d \in Fds, NEW ds2 \in [Fds -> 0..MaxInodes], NEW u2 \in [UFids -> FidT],
           NEW f \in FidT, FollowIn(es, f.path) \in Inodes, OpensAt(es, io, ds, ds2, u, u2, x, f, d)
    PROVE  Sound(mp, es, io, ds2, u2, S)
<1>. DEFINE g == [f EXCEPT !.fd = u[x].fd, !.dir = u[x].dir]
            u1 == [u EXCEPT ![x] = g]
<1>0. /\ u[x].used /\ u[x].job = NoJob /\ HeldIn(u[x]) = {} /\ Others(u, u2, x) /\ u2[x] = f
      /\ f.used /\ f.job = NoJob /\ Takes(u[x], f, d)
      /\ io[FollowIn(es, f.path)].kind # "none" /\ Opening(ds, ds2, d, FollowIn(es, f.path))
      /\ \A y \in UFids : AtWork(u[y]) => ~IsPrefix(u[y].job.path, f.path)
  BY DEF OpensAt
<1>1. u \in [UFids -> FidT] /\ u[x] \in FidT
  BY DEF Typed
<1>2. g \in FidT /\ g.fd = u[x].fd /\ g.dir = u[x].dir
  BY <1>1 DEF FidT
<1>3. g.path = f.path /\ g.isdir = f.isdir /\ g.used = f.used /\ g.job = f.job
  BY DEF FidT
<1>. HIDE DEF g
<1>4. u1 \in [UFids -> FidT] /\ u1[x] = g /\ Others(u, u1, x)
  BY <1>1, <1>2 DEF Others
<1>. HIDE DEF u1
<1>5. Others(u1, u2, x)
  BY <1>0, <1>4 DEF Others
<1>6. Sound(mp, es, io, ds, u1, S)
  <2>1. /\ u1[x].job = NoJob /\ u1[x].used /\ u1[x].fd = u[x].fd /\ u1[x].dir = u[x].dir
        /\ \A y \in UFids : AtWork(u[y]) => ~IsPrefix(u[y].job.path, u1[x].path)
    BY <1>0, <1>2, <1>3, <1>4
  <2>. QED  BY <1>0, <1>4, <2>1, FidMoves
<1>7. Typed(es, io, ds, u1)
  BY <1>4 DEF Typed
<1>8. /\ u1[x].used /\ u1[x].job = NoJob /\ u2[x].used /\ u2[x].job = NoJob
      /\ u2[x].path = u1[x].path /\ u2[x].isdir = u1[x].isdir
  BY <1>0, <1>3, <1>4
<1>9. Takes(u1[x], u2[x], d)
  BY <1>0, <1>2, <1>4 DEF Takes
<1>10. PICK i \in Inodes : i = FollowIn(es, u1[x].path)
  BY <1>3, <1>4
<1>11. io[i].kind # "none" /\ Opening(ds, ds2, d, i)
  BY <1>0, <1>3, <1>4, <1>10
<1>. QED  BY <1>5, <1>6, <1>7, <1>8, <1>9, <1>10, <1>11, FidOpens

\* The fid x on the file at p it has made, which is a directory or not.
OnNewFacts(x, p, d) ==
    \A b \in BOOLEAN :
        /\ OnNew(x, p, d, b) \in FidT
        /\ OnNew(x, p, d, b).path = p
        /\ OnNew(x, p, d, b).used = uf[x].used /\ OnNew(x, p, d, b).job = uf[x].job
        /\ OnNew(x, p, d, b).fd = IF b THEN uf[x].fd ELSE d
        /\ OnNew(x, p, d, b).dir = IF b THEN d ELSE uf[x].dir

\* What OnNew is.
LEMMA OnNewIs ==
    ASSUME uf \in [UFids -> FidT], NEW x \in UFids, NEW p \in Seq(UNames), NEW d \in 0..MaxFds
    PROVE  OnNewFacts(x, p, d)
<1>1. uf[x] \in FidT
  OBVIOUS
<1>2. ASSUME NEW b \in BOOLEAN
      PROVE  /\ OnNew(x, p, d, b) \in FidT
             /\ OnNew(x, p, d, b).path = p
             /\ OnNew(x, p, d, b).used = uf[x].used /\ OnNew(x, p, d, b).job = uf[x].job
             /\ OnNew(x, p, d, b).fd = IF b THEN uf[x].fd ELSE d
             /\ OnNew(x, p, d, b).dir = IF b THEN d ELSE uf[x].dir
  BY <1>1 DEF OnNew, FidT
<1>. QED  BY <1>2 DEF OnNewFacts

\* Without mapped ids no handler sets attributes.
LEMMA NoWork ==
    ASSUME UfsInv, calm, ~mapped
    PROVE  \A y \in UFids : ~AtWork(uf[y])
<1>1. ASSUME NEW y \in UFids, AtWork(uf[y]) PROVE FALSE
  <2>1. JobOn(mapped, ents, ino, uf[y])
    BY Before DEF Fids
  <2>. QED  BY <1>1, <2>1 DEF JobOn, AtWork
<1>. QED  BY <1>1

\* Tsymlink, Tmknod and Tmkdir.
LEMMA MakeStep ==
    ASSUME UfsInv, calm, NEW x \in UFids, NEW n \in UNames, NEW kind \in Ours, Make(x, n, kind)
    PROVE  UfsInv'
<1>1. /\ ~mapped /\ Makes(x, n) /\ calm' = NotUsed(x, n) /\ UNCHANGED <<mapped, fds, uf>>
      /\ ino' = [ino EXCEPT ![Least(FreeInodes)] = Inode(kind, kind)]
      /\ ents' = Entered(x, n, Least(FreeInodes))
  BY DEF Make, Calm
<1>2. PICK i : i = Least(FreeInodes)
  OBVIOUS
<1>3. HostMakes(x, n, kind, kind, i)
  BY <1>1, <1>2 DEF HostMakes
<1>4. HostMade(x, n, kind, kind, i)
  BY <1>3, FileMade
<1>5. /\ ents' \in [Inodes -> DirT] /\ ino' \in [Inodes -> InodeT] /\ Kept(ents', ino', fds)
      /\ NotUsed(x, n) => Sound(mapped, ents', ino', fds, uf, {i})
  BY <1>4 DEF HostMade
<1>6. NotUsed(x, n) => Sound(mapped, ents', ino', fds, uf, {})
  BY <1>1, <1>5, Unmapped
<1>7. Typed(ents', ino', fds', uf') /\ calm' \in BOOLEAN
  BY <1>1, <1>5, Before DEF Typed, NotUsed
<1>8. calm' => Sound(mapped, ents', ino', fds', uf', {}) /\ Kept(ents', ino', fds')
  BY <1>1, <1>5, <1>6
<1>. QED  BY <1>1, <1>7, <1>8, Before, After

\* Tcreate of a file or a directory.
LEMMA CreateStep ==
    ASSUME UfsInv, calm, NEW x \in UFids, NEW n \in UNames, NEW kind \in {"file", "dir"}, npfs_create(x, n, kind)
    PROVE  UfsInv'
<1>. DEFINE np == Append(uf[x].path, n)
<1>1. PICK i, d : i = Least(FreeInodes) /\ d = Least(FreeFds)
  OBVIOUS
<1>2. /\ ~mapped /\ Makes(x, n) /\ FreeFds # {} /\ calm' = (Bare(x) /\ NotUsed(x, n)) /\ UNCHANGED mapped
      /\ fds' = [fds EXCEPT ![d] = i] /\ ino' = [ino EXCEPT ![i] = Inode(kind, kind)]
      /\ \/ ents' = Entered(x, n, i) /\ uf' = [uf EXCEPT ![x] = OnNew(x, ufs_join(uf[x].path, n), d, kind = "dir")]
         \/ kind = "file" /\ uf' = [uf EXCEPT ![x].fd = d] /\ UNCHANGED ents
  BY <1>1 DEF npfs_create, Calm
<1>3. d \in Fds /\ fds[d] = None /\ d \in 0..MaxFds /\ d # None
  BY <1>1, <1>2, FreeOnes
<1>4. i \in Inodes /\ ino[i].kind = "none" /\ i \in 0..MaxInodes
  BY <1>1, <1>2, FreeOnes DEF Makes
<1>5. /\ fds' \in [Fds -> 0..MaxInodes] /\ Opening(fds, fds', d, i) /\ IsOpen(fds', i)
      /\ \A j \in Inodes : IsOpen(fds, j) => IsOpen(fds', j)
  BY <1>2, <1>3, <1>4, Before, DescMade
<1>6. /\ calm' \in BOOLEAN /\ kind \in Ours /\ uf \in [UFids -> FidT] /\ uf[x] \in FidT
      /\ mapped \in BOOLEAN
      /\ uf[x].used /\ uf[x].job = NoJob /\ uf[x].isdir /\ uf[x].path \in Seq(UNames)
  BY <1>2, Before DEF Bare, Ours, Makes, NameFree, InDir
<1>7. calm' => uf[x].fd = None /\ uf[x].dir = None /\ HeldIn(uf[x]) = {}
  BY <1>2 DEF Bare, HeldIn
<1>8. CASE ents' = Entered(x, n, i) /\ uf' = [uf EXCEPT ![x] = OnNew(x, ufs_join(uf[x].path, n), d, kind = "dir")]
  <2>1. HostMakes(x, n, kind, kind, i)
    BY <1>1, <1>2, <1>8 DEF HostMakes
  <2>0. HostMade(x, n, kind, kind, i)
    BY <1>6, <2>1, FileMade
  <2>2. /\ ents' \in [Inodes -> DirT] /\ ino' \in [Inodes -> InodeT] /\ Kept(ents', ino', fds)
        /\ ino'[i].kind = kind /\ ufs_join(uf[x].path, n) = np /\ np \in Seq(UNames)
    BY <2>0 DEF HostMade
  <2>3. calm' => Sound(mapped, ents', ino', fds, uf, {i}) /\ FollowIn(ents', np) = i
    <3>1. NotUsed(x, n) => Sound(mapped, ents', ino', fds, uf, {i}) /\ FollowIn(ents', np) = i
      BY <2>0 DEF HostMade
    <3>. QED  BY <1>2, <3>1
  <2>. DEFINE f == OnNew(x, np, d, kind = "dir")
  <2>4. /\ f \in FidT /\ f.path = np /\ f.used = uf[x].used /\ f.job = uf[x].job
        /\ f.fd = IF kind = "dir" THEN uf[x].fd ELSE d
        /\ f.dir = IF kind = "dir" THEN d ELSE uf[x].dir
    <3>1. PICK q \in Seq(UNames) : q = np
      BY <2>2
    <3>2. PICK e \in 0..MaxFds : e = d
      BY <1>3
    <3>3. OnNewFacts(x, q, e)
      BY <1>6, OnNewIs
    <3>4. f = OnNew(x, q, e, kind = "dir") /\ kind \in {"file", "dir"}
      BY <3>1, <3>2
    <3>. HIDE DEF f, np
    <3>. QED  BY <3>1, <3>2, <3>3, <3>4 DEF OnNewFacts
  <2>5. uf' = [uf EXCEPT ![x] = f]
    BY <1>8, <2>2
  <2>. HIDE DEF f, np
  <2>6. uf' \in [UFids -> FidT] /\ uf'[x] = f /\ Others(uf, uf', x)
    BY <1>6, <2>4, <2>5, OneFid
  <2>7. Typed(ents', ino', fds', uf')
    BY <1>5, <2>2, <2>6 DEF Typed
  <2>8. Kept(ents', ino', fds')
    BY <1>5, <2>2, KeptGrows
  <2>9. ASSUME calm' PROVE Sound(mapped, ents', ino', fds', uf', {})
    <3>1. Sound(mapped, ents', ino', fds, uf, {})
      BY <1>2, <2>3, <2>9, Unmapped
    <3>2. Typed(ents', ino', fds, uf)
      BY <2>2, Before DEF Typed
    <3>3. FollowIn(ents', f.path) = i /\ kind # "none"
      BY <1>6, <2>3, <2>4, <2>9 DEF Ours
    <3>4. Takes(uf[x], f, d)
      BY <1>7, <2>4, <2>9 DEF Takes
    <3>5. \A y \in UFids : ~AtWork(uf[y])
      BY <1>2, NoWork
    <3>6. OpensAt(ents', ino', fds, fds', uf, uf', x, f, d)
      BY <1>5, <1>6, <1>7, <2>2, <2>4, <2>6, <2>9, <3>3, <3>4, <3>5 DEF OpensAt
    <3>7. FollowIn(ents', f.path) \in Inodes
      BY <1>4, <3>3
    <3>. QED  BY <1>3, <1>5, <1>6, <2>4, <2>6, <3>1, <3>2, <3>6, <3>7, FidMovesAndOpens
  <2>. QED  BY <1>2, <1>6, <2>7, <2>8, <2>9, After
<1>9. CASE kind = "file" /\ uf' = [uf EXCEPT ![x].fd = d] /\ UNCHANGED ents
  <2>. DEFINE f == [uf[x] EXCEPT !.fd = d]
  <2>1. f \in FidT /\ f.fd = d /\ f.used = uf[x].used /\ f.job = uf[x].job /\ f.dir = uf[x].dir
    BY <1>3, <1>6 DEF FidT
  <2>2. f.path = uf[x].path /\ f.isdir = uf[x].isdir
    BY <1>6 DEF FidT
  <2>3. uf' = [uf EXCEPT ![x] = f]
    BY <1>6, <1>9
  <2>. HIDE DEF f
  <2>4. uf' \in [UFids -> FidT] /\ uf'[x] = f /\ Others(uf, uf', x)
    BY <1>6, <2>1, <2>3, OneFid
  <2>5. /\ ino' \in [Inodes -> InodeT] /\ ino'[i].kind = "file" /\ ino'[i].attrs = {}
        /\ \A j \in Inodes \ {i} : ino'[j] = ino[j]
    <3>1. Inode("file", "file") \in InodeT /\ Inode("file", "file").kind = "file" /\ Inode("file", "file").attrs = {}
      BY DEF Inode, NoInode, InodeT, Kinds, Attrs
    <3>2. ino \in [Inodes -> InodeT] /\ ino' = [ino EXCEPT ![i] = Inode("file", "file")]
      BY <1>2, <1>9, Before
    <3>. QED  BY <1>4, <3>1, <3>2
  <2>6. Typed(ents', ino', fds', uf') /\ Typed(ents, ino', fds, uf)
    BY <1>5, <1>9, <2>4, <2>5, Before DEF Typed
  <2>7. Kept(ents', ino', fds')
    <3>1. \A j \in Inodes : ino'[j].kind # "none" => ino[j].kind # "none" \/ Named(ents, j) \/ IsOpen(fds', j)
      BY <1>5, <2>5
    <3>2. Kept(ents, ino', fds')
      BY <1>5, <3>1, Before, KeptGrows
    <3>. QED  BY <1>9, <3>2
  <2>8. ASSUME calm' PROVE Sound(mapped, ents', ino', fds', uf', {})
    <3>1. Typed(ents, ino, fds, uf) /\ Sound(mapped, ents, ino, fds, uf, {}) /\ ino'[i].kind # "none"
      BY <2>5, Before
    <3>2. Sound(mapped, ents, ino', fds, uf, {})
      BY <1>4, <2>5, <3>1, InodeMade
    <3>3. /\ Takes(uf[x], uf'[x], d) /\ uf'[x].used /\ uf'[x].job = NoJob
          /\ uf'[x].path = uf[x].path /\ uf'[x].isdir = uf[x].isdir
      BY <1>6, <1>7, <2>1, <2>2, <2>4, <2>8 DEF Takes
    <3>4. i = FollowIn(ents, uf[x].path) \/ (~mapped /\ uf[x].isdir /\ ino'[i].kind # "dir")
      BY <1>2, <1>6, <2>5
    <3>5. Sound(mapped, ents, ino', fds', uf', {})
      BY <1>3, <1>4, <1>5, <1>6, <2>4, <2>6, <3>1, <3>2, <3>3, <3>4, FidOpens
    <3>. QED  BY <1>9, <3>5
  <2>. QED  BY <1>2, <1>6, <2>6, <2>7, <2>8, After
<1>. QED  BY <1>2, <1>8, <1>9
\* Without mapped ids a fid that has nothing open may go anywhere.
LEMMA FidGoes ==
    ASSUME UfsInv, calm, ~mapped, NEW es, NEW io, NEW ds, Typed(es, io, ds, uf), Sound(mapped, es, io, ds, uf, {}),
           NEW x \in UFids, uf[x].used, uf[x].job = NoJob, HeldIn(uf[x]) = {},
           NEW u2 \in [UFids -> FidT], Others(uf, u2, x), u2[x].used, u2[x].job = NoJob,
           u2[x].fd = uf[x].fd, u2[x].dir = uf[x].dir
    PROVE  Sound(mapped, es, io, ds, u2, {})
<1>1. \A y \in UFids : AtWork(uf[y]) => ~IsPrefix(uf[y].job.path, u2[x].path)
  BY NoWork
<1>. QED  BY <1>1, FidMoves

\* Tcreate of a symlink, a device or a pipe.
LEMMA CreateSpecialStep ==
    ASSUME UfsInv, calm, NEW x \in UFids, NEW n \in UNames, NEW kind \in Ours, npfs_create_special(x, n, kind)
    PROVE  UfsInv'
<1>1. PICK i : i = Least(FreeInodes)
  OBVIOUS
<1>2. PICK p : p = ufs_join(uf[x].path, n)
  OBVIOUS
<1>3. /\ ~mapped /\ Makes(x, n) /\ calm' = (Bare(x) /\ NotUsed(x, n)) /\ UNCHANGED <<mapped, fds>>
      /\ ino' = [ino EXCEPT ![i] = Inode(kind, kind)] /\ ents' = Entered(x, n, i)
      /\ uf' = [uf EXCEPT ![x] = OnNew(x, p, uf[x].fd, FALSE)] \/ uf' = uf
  BY <1>1, <1>2 DEF npfs_create_special, Calm
<1>4. HostMade(x, n, kind, kind, i)
  <2>1. HostMakes(x, n, kind, kind, i)
    BY <1>1, <1>3 DEF HostMakes
  <2>. QED  BY <2>1, FileMade
<1>5. /\ ents' \in [Inodes -> DirT] /\ ino' \in [Inodes -> InodeT] /\ Kept(ents', ino', fds)
      /\ p \in Seq(UNames) /\ uf[x].used /\ uf[x].job = NoJob
      /\ NotUsed(x, n) => Sound(mapped, ents', ino', fds, uf, {i})
  BY <1>2, <1>4 DEF HostMade
<1>6. calm' => Sound(mapped, ents', ino', fds, uf, {})
  BY <1>3, <1>5, Unmapped
<1>7. uf \in [UFids -> FidT] /\ uf[x] \in FidT /\ fds \in [Fds -> 0..MaxInodes] /\ mapped \in BOOLEAN
  BY Before
<1>8. Typed(ents', ino', fds, uf) /\ calm' \in BOOLEAN
  BY <1>3, <1>5, <1>7 DEF Typed, Bare, NotUsed
<1>9. CASE uf' = uf
  <2>1. Typed(ents', ino', fds', uf')
    BY <1>3, <1>8, <1>9
  <2>2. calm' => Sound(mapped, ents', ino', fds', uf', {}) /\ Kept(ents', ino', fds')
    BY <1>3, <1>5, <1>6, <1>9
  <2>. QED  BY <1>3, <1>7, <1>8, <2>1, <2>2, After
<1>10. CASE uf' = [uf EXCEPT ![x] = OnNew(x, p, uf[x].fd, FALSE)]
  <2>1. PICK v \in 0..MaxFds : v = uf[x].fd
    BY <1>7 DEF FidT
  <2>2. PICK f : f = OnNew(x, p, v, FALSE)
    OBVIOUS
  <2>3. f \in FidT /\ f.used /\ f.job = NoJob /\ f.fd = uf[x].fd /\ f.dir = uf[x].dir
    <3>1. OnNewFacts(x, p, v)
      BY <1>5, <1>7, OnNewIs
    <3>. QED  BY <1>5, <2>1, <2>2, <3>1 DEF OnNewFacts
  <2>4. uf' \in [UFids -> FidT] /\ uf'[x] = f /\ Others(uf, uf', x)
    <3>1. uf' = [uf EXCEPT ![x] = f]
      BY <1>10, <2>1, <2>2
    <3>. QED  BY <1>7, <2>3, <3>1, OneFid
  <2>5. Typed(ents', ino', fds', uf')
    BY <1>3, <1>8, <2>4 DEF Typed
  <2>6. ASSUME calm' PROVE Sound(mapped, ents', ino', fds, uf', {})
    <3>1. HeldIn(uf[x]) = {}
      BY <1>3, <2>6 DEF Bare, HeldIn
    <3>2. uf'[x].used /\ uf'[x].job = NoJob /\ uf'[x].fd = uf[x].fd /\ uf'[x].dir = uf[x].dir
      BY <2>3, <2>4
    <3>3. Sound(mapped, ents', ino', fds, uf, {})
      BY <1>6, <2>6
    <3>. QED  BY <1>3, <1>5, <1>8, <2>4, <3>1, <3>2, <3>3, FidGoes
  <2>7. calm' => Sound(mapped, ents', ino', fds', uf', {}) /\ Kept(ents', ino', fds')
    BY <1>3, <1>5, <2>6
  <2>. QED  BY <1>3, <1>7, <1>8, <2>5, <2>7, After
<1>. QED  BY <1>3, <1>9, <1>10

\* Tcreate of a link.
LEMMA CreateLinkStep ==
    ASSUME UfsInv, calm, NEW x \in UFids, NEW n \in UNames, NEW y \in UFids, CreateLink(x, n, y)
    PROVE  UfsInv'
<1>1. PICK i : i = Follow(uf[y].path)
  OBVIOUS
<1>2. PICK p : p = ufs_join(uf[x].path, n)
  OBVIOUS
<1>3. /\ ~mapped /\ NameFree(x, n) /\ i # None /\ ino[i].kind # "dir"
      /\ calm' = (Bare(x) /\ NotUsed(x, n)) /\ UNCHANGED <<mapped, ino, fds>>
      /\ ents' = Entered(x, n, i) /\ (uf' = [uf EXCEPT ![x] = OnNew(x, p, uf[x].fd, FALSE)] \/ uf' = uf)
  BY <1>1, <1>2 DEF CreateLink, Calm
<1>4. i \in Inodes /\ i \in 0..MaxInodes /\ ino[i].kind # "none" /\ i # HostRoot
  <2>1. uf[y].path \in Seq(UNames) /\ i = FollowIn(ents, uf[y].path)
    BY <1>1, Before, FollowIs
  <2>2. i \in Inodes /\ ino[i].kind # "none"
    BY <1>3, <2>1, Before, PathLive
  <2>3. i # HostRoot
    BY <1>3, Before DEF Tree
  <2>. QED  BY <2>2, <2>3 DEF Inodes
<1>5. /\ uf[x].used /\ uf[x].job = NoJob /\ uf[x].isdir /\ uf[x].path \in Seq(UNames)
      /\ p = Append(uf[x].path, n) /\ p \in Seq(UNames)
      /\ ents' \in [Inodes -> DirT]
      /\ IsDir(ents, ino, uf[x].path) /\ FollowIn(ents, uf[x].path) \in Inodes
      /\ ents[FollowIn(ents, uf[x].path)][n] = None
      /\ Rewritten(ents, ents', FollowIn(ents, uf[x].path), n, i)
  BY <1>2, <1>3, <1>4, EnteredIs
<1>6. /\ uf \in [UFids -> FidT] /\ uf[x] \in FidT /\ fds \in [Fds -> 0..MaxInodes] /\ mapped \in BOOLEAN
      /\ Typed(ents, ino, fds, uf) /\ Sound(mapped, ents, ino, fds, uf, {}) /\ ents \in [Inodes -> DirT]
      /\ ino \in [Inodes -> InodeT]
  BY Before
<1>7. Typed(ents', ino', fds, uf) /\ calm' \in BOOLEAN
  BY <1>3, <1>5, <1>6 DEF Typed, Bare, NotUsed
<1>8. NotUsed(x, n) => Sound(mapped, ents', ino, fds, uf, {})
  <2>1. ASSUME NotUsed(x, n) PROVE Sound(mapped, ents', ino, fds, uf, {i})
    <3>1. Vacant(uf, Append(uf[x].path, n))
      <4>1. Ready(x) /\ ~InUse(x, Append(uf[x].path, n))
        BY <1>2, <1>3, <1>5, <2>1 DEF NotUsed, NameFree, InDir
      <4>. QED  BY <4>1, NewVacant
    <3>2. \A z \in UFids : AtWork(uf[z]) => uf[z].job.path # uf[x].path
      BY <1>3, NoWork
    <3>3. MayName(mapped, ents, ino, i)
      BY <1>3 DEF MayName
    <3>4. Enters(mapped, ents, ino, uf, ents', uf[x].path, n, i)
      BY <1>4, <1>5, <3>1, <3>2, <3>3 DEF Enters
    <3>5. {} \subseteq {i} /\ i \in {i}
      OBVIOUS
    <3>6. i \in Inodes /\ uf[x].path \in Seq(UNames) /\ ents' \in [Inodes -> DirT] /\ mapped \in BOOLEAN
      BY <1>4, <1>5, <1>6
    <3>7. Typed(ents, ino, fds, uf) /\ Sound(mapped, ents, ino, fds, uf, {})
      BY <1>6
    <3>. QED  BY <3>4, <3>5, <3>6, <3>7, NameEntered
  <2>. QED  BY <1>3, <2>1, Unmapped
<1>9. Kept(ents', ino, fds)
  <2>1. \A j \in Inodes : Named(ents, j) => Named(ents', j)
    <3>1. PICK d : d = FollowIn(ents, uf[x].path)
      OBVIOUS
    <3>2. d \in Inodes /\ i \in Inodes /\ ents[d][n] = None /\ Rewritten(ents, ents', d, n, i)
      BY <1>4, <1>5, <3>1
    <3>3. ents \in [Inodes -> DirT] /\ ents' \in [Inodes -> DirT]
      BY <1>5, <1>6
    <3>. QED  BY <3>2, <3>3, EntryMade
  <2>. QED  BY <2>1, Before, KeptGrows
<1>10. PICK v \in 0..MaxFds : v = uf[x].fd
  BY <1>6 DEF FidT
<1>11. PICK f : f = OnNew(x, p, v, FALSE)
  OBVIOUS
<1>12. f \in FidT /\ f.used /\ f.job = NoJob /\ f.fd = uf[x].fd /\ f.dir = uf[x].dir
  <2>1. OnNewFacts(x, p, v)
    BY <1>5, <1>6, OnNewIs
  <2>. QED  BY <1>5, <1>10, <1>11, <2>1 DEF OnNewFacts
<1>13. CASE uf' = uf
  <2>1. Typed(ents', ino', fds', uf')
    BY <1>3, <1>7, <1>13
  <2>2. calm' => Sound(mapped, ents', ino', fds', uf', {}) /\ Kept(ents', ino', fds')
    BY <1>3, <1>8, <1>9, <1>13
  <2>. QED  BY <1>3, <1>6, <1>7, <2>1, <2>2, After
<1>14. CASE uf' = [uf EXCEPT ![x] = OnNew(x, p, uf[x].fd, FALSE)]
  <2>1. uf' \in [UFids -> FidT] /\ uf'[x] = f /\ Others(uf, uf', x)
    <3>1. uf' = [uf EXCEPT ![x] = f]
      BY <1>10, <1>11, <1>14
    <3>. QED  BY <1>6, <1>12, <3>1, OneFid
  <2>2. Typed(ents', ino', fds', uf')
    BY <1>3, <1>7, <2>1 DEF Typed
  <2>3. ASSUME calm' PROVE Sound(mapped, ents', ino', fds, uf', {})
    <3>1. HeldIn(uf[x]) = {}
      BY <1>3, <2>3 DEF Bare, HeldIn
    <3>2. uf'[x].used /\ uf'[x].job = NoJob /\ uf'[x].fd = uf[x].fd /\ uf'[x].dir = uf[x].dir
      BY <1>12, <2>1
    <3>3. Sound(mapped, ents', ino', fds, uf, {})
      BY <1>3, <1>8, <2>3
    <3>. QED  BY <1>3, <1>5, <1>7, <2>1, <3>1, <3>2, <3>3, FidGoes
  <2>4. calm' => Sound(mapped, ents', ino', fds', uf', {}) /\ Kept(ents', ino', fds')
    BY <1>3, <1>9, <2>3
  <2>. QED  BY <1>3, <1>6, <1>7, <2>2, <2>4, After
<1>. QED  BY <1>3, <1>13, <1>14

\* Nobody makes what a fid may walk to next, unless it is in use.
LEMMA NextFree ==
    ASSUME UfsInv, calm, NEW x \in UFids, Ready(x), NEW n \in UNames, ~InUse(x, Append(uf[x].path, n))
    PROVE  \A y \in UFids : AtWork(uf[y]) => ~IsPrefix(uf[y].job.path, Append(uf[x].path, n))
<1>1. uf[x].used /\ uf[x].path \in Seq(UNames) /\ Append(uf[x].path, n) \in Seq(UNames)
  BY Before
<1>2. ASSUME NEW y \in UFids, AtWork(uf[y]) PROVE ~IsPrefix(uf[y].job.path, Append(uf[x].path, n))
  <2>1. uf[y].job.path \in Seq(UNames) /\ ~IsPrefix(uf[y].job.path, uf[x].path)
    BY <1>1, <1>2, PathFree
  <2>2. uf[y].job.path # Append(uf[x].path, n)
    <3>1. Vacant(uf, Append(uf[x].path, n))
      BY NewVacant
    <3>2. uf[y].job.k # "no"
      BY <1>2 DEF AtWork
    <3>3. ~IsPrefix(Append(uf[x].path, n), uf[y].job.path)
      BY <3>1, <3>2 DEF Vacant
    <3>4. PICK q \in Seq(UNames) : q = Append(uf[x].path, n)
      BY <1>1
    <3>5. IsPrefix(q, q)
      BY PrefixLaws
    <3>. QED  BY <3>3, <3>4, <3>5
  <2>. QED  BY <1>1, <2>1, <2>2, PrefixOfNext
<1>. QED  BY <1>2

\* Tlcreate, without mapped ids, of a file that is not there.
LEMMA LcreateNewStep ==
    ASSUME UfsInv, calm, NEW x \in UFids, NEW n \in UNames, LcreateNew(x, n)
    PROVE  UfsInv'
<1>1. npfs_create(x, n, "file") \/
      (/\ ~mapped /\ Makes(x, n) /\ calm' = (Bare(x) /\ NotUsed(x, n))
       /\ uf' = [uf EXCEPT ![x].path = ufs_join(uf[x].path, n), ![x].fd = None]
       /\ UNCHANGED <<ents, ino, fds, mapped>>)
  BY DEF LcreateNew, npfs_create, OnNew, Calm
<1>2. CASE npfs_create(x, n, "file")
  BY <1>2, CreateStep
<1>3. CASE /\ ~mapped /\ Makes(x, n) /\ calm' = (Bare(x) /\ NotUsed(x, n))
           /\ uf' = [uf EXCEPT ![x].path = ufs_join(uf[x].path, n), ![x].fd = None]
           /\ UNCHANGED <<ents, ino, fds, mapped>>
  <2>1. Ready(x) /\ calm' \in BOOLEAN
    BY <1>3 DEF Makes, NameFree, InDir, Bare, NotUsed
  <2>2. uf \in [UFids -> FidT] /\ uf[x] \in FidT /\ uf[x].used /\ uf[x].job = NoJob /\ uf[x].path \in Seq(UNames)
    BY <2>1, Before
  <2>3. PICK p \in Seq(UNames) : p = ufs_join(uf[x].path, n)
    <3>1. ufs_join(uf[x].path, n) = Append(uf[x].path, n) /\ Append(uf[x].path, n) \in Seq(UNames)
      BY <2>2 DEF ufs_join
    <3>. QED  BY <3>1
  <2>. DEFINE f == [uf[x] EXCEPT !.path = p, !.fd = None]
  <2>4. uf' = [uf EXCEPT ![x] = f]
    BY <1>3, <2>2, <2>3 DEF FidT
  <2>5. f \in FidT /\ f.used /\ f.job = NoJob /\ f.fd = None /\ f.dir = uf[x].dir
    BY <2>2, FidTypes DEF FidT
  <2>. HIDE DEF f
  <2>6. uf' \in [UFids -> FidT] /\ uf'[x] = f /\ Others(uf, uf', x)
    BY <2>2, <2>4, <2>5, OneFid
  <2>7. ASSUME calm' PROVE Sound(mapped, ents, ino, fds, uf', {})
    <3>1. HeldIn(uf[x]) = {} /\ uf[x].fd = None
      BY <1>3, <2>7 DEF Bare, HeldIn
    <3>2. uf'[x].used /\ uf'[x].job = NoJob /\ uf'[x].fd = uf[x].fd /\ uf'[x].dir = uf[x].dir
      BY <2>5, <2>6, <3>1
    <3>3. Typed(ents, ino, fds, uf) /\ Sound(mapped, ents, ino, fds, uf, {})
      BY Before
    <3>. QED  BY <1>3, <2>2, <2>6, <3>1, <3>2, <3>3, FidGoes
  <2>. QED  BY <1>3, <2>1, <2>6, <2>7, AfterFids
<1>. QED  BY <1>1, <1>2, <1>3

\* The host forgets what has no name and no descriptor.
LEMMA AfterSweep ==
    ASSUME UfsInv, calm, mapped' = mapped, calm' \in BOOLEAN,
           NEW ds, ds = fds', NEW es, es = ents', ino' = Gone(es, ds),
           Typed(es, ino, ds, uf'),
           NEW S, calm' => Sound(mapped, es, ino, ds, uf', S) /\ \A i \in S : ~Named(es, i) /\ ~IsOpen(ds, i)
    PROVE  UfsInv'
<1>1. mapped \in BOOLEAN
  BY Before
<1>2. es \in [Inodes -> DirT] /\ ino \in [Inodes -> InodeT] /\ ds \in [Fds -> 0..MaxInodes]
  BY DEF Typed
<1>3. Swept(es, ds, ino, Gone(es, ds)) /\ Gone(es, ds) \in [Inodes -> InodeT]
  BY <1>2, GoneSweeps
<1>4. PICK io2 : io2 = Gone(es, ds)
  OBVIOUS
<1>5. io2 \in [Inodes -> InodeT] /\ Swept(es, ds, ino, io2)
  BY <1>3, <1>4
<1>6. ASSUME calm' PROVE Sound(mapped, es, io2, ds, uf', {}) /\ Kept(es, io2, ds)
  <2>1. Sound(mapped, es, ino, ds, uf', S) /\ \A i \in S \ {} : ~Named(es, i) /\ ~IsOpen(ds, i)
    BY <1>6
  <2>. QED  BY <1>1, <1>5, <2>1, HostSwept
<1>7. Typed(ents', ino', fds', uf')
  BY <1>4, <1>5 DEF Typed
<1>8. calm' => Sound(mapped, ents', ino', fds', uf', {}) /\ Kept(ents', ino', fds')
  BY <1>4, <1>6
<1>. QED  BY <1>1, <1>7, <1>8, After

\* An entry is removed from a directory: what is in it is an empty file.
LEMMA UnlinkIs ==
    ASSUME UfsInv, calm, NEW p \in Seq(UNames), NEW n \in UNames, NEW d, d = FollowIn(ents, p), d # None,
           NEW es, es = Unlink(d, n)
    PROVE  es \in [Inodes -> DirT] /\ Rewritten(ents, es, d, n, None) /\ d \in Inodes
<1>1. ents \in [Inodes -> DirT] /\ None \in 0..MaxInodes
  BY Before, FidTypes
<1>2. d \in Inodes
  BY <1>1, FollowType
<1>. QED  BY <1>1, <1>2, RewrittenIs DEF Unlink

\* Tlcreate of a file that is there.
LEMMA LcreateOldStep ==
    ASSUME UfsInv, calm, NEW x \in UFids, NEW n \in UNames, LcreateOld(x, n)
    PROVE  UfsInv'
<1>1. PICK d : d = Least(FreeFds)
  OBVIOUS
<1>2. PICK p : p = ufs_join(uf[x].path, n)
  OBVIOUS
<1>3. PICK i : i = Follow(p)
  OBVIOUS
<1>4. PICK b \in BOOLEAN : b = ustat2qidtype(ufs_lstat(p))
  BY DEF ustat2qidtype
<1>5. /\ InDir(x) /\ FreeFds # {} /\ i # None
      /\ ino[i].kind \in {"file", "node", "dir"} /\ (~mapped => ino[i].kind # "dir")
      /\ calm' = (Bare(x) /\ ~InUse(x, p)) /\ UNCHANGED mapped
      /\ \/ /\ fds' = [fds EXCEPT ![d] = i] /\ UNCHANGED <<ents, ino>>
            /\ uf' = [uf EXCEPT ![x] = [OnNew(x, p, d, FALSE) EXCEPT !.isdir = b]]
         \/ /\ ents' = IF mapped THEN ents ELSE Unlink(Parent(p), n)
            /\ ino' = Gone(ents', fds) /\ UNCHANGED fds
            /\ uf' = [uf EXCEPT ![x].path = p, ![x].fd = None]
  BY <1>1, <1>2, <1>3, <1>4 DEF LcreateOld, Calm
<1>6. /\ uf[x].used /\ uf[x].job = NoJob /\ uf[x].path \in Seq(UNames) /\ uf[x] \in FidT /\ Ready(x)
      /\ uf \in [UFids -> FidT] /\ mapped \in BOOLEAN
      /\ Typed(ents, ino, fds, uf) /\ Sound(mapped, ents, ino, fds, uf, {})
      /\ ents \in [Inodes -> DirT] /\ ino \in [Inodes -> InodeT] /\ fds \in [Fds -> 0..MaxInodes]
      /\ Tree(mapped, ents, ino)
  BY <1>5, Before DEF InDir
<1>7. p = Append(uf[x].path, n) /\ p \in Seq(UNames)
  BY <1>2, <1>6 DEF ufs_join
<1>8. i = FollowIn(ents, p) /\ i \in Inodes /\ ino[i].kind # "none" /\ i \in 0..MaxInodes
  <2>1. i = FollowIn(ents, p)
    BY <1>3, FollowIs
  <2>2. i \in Inodes /\ ino[i].kind # "none"
    BY <1>5, <1>6, <1>7, <2>1, PathLive
  <2>. QED  BY <2>1, <2>2 DEF Inodes
<1>9. calm' \in BOOLEAN
  BY <1>5 DEF Bare
<1>10. d \in Fds /\ fds[d] = None /\ d \in 0..MaxFds /\ d # None
  BY <1>1, <1>5, FreeOnes
<1>11. calm' => /\ HeldIn(uf[x]) = {} /\ uf[x].fd = None
                /\ \A y \in UFids : AtWork(uf[y]) => ~IsPrefix(uf[y].job.path, p)
                /\ Vacant(uf, p)
  <2>1. ASSUME calm' PROVE HeldIn(uf[x]) = {} /\ uf[x].fd = None
    BY <1>5, <2>1 DEF Bare, HeldIn
  <2>2. ASSUME calm' PROVE \A y \in UFids : AtWork(uf[y]) => ~IsPrefix(uf[y].job.path, p)
    BY <1>5, <1>6, <1>7, <2>2, NextFree
  <2>3. ASSUME calm' PROVE Vacant(uf, p)
    BY <1>5, <1>6, <1>7, <2>3, NewVacant
  <2>. QED  BY <2>1, <2>2, <2>3
<1>12. CASE /\ fds' = [fds EXCEPT ![d] = i] /\ UNCHANGED <<ents, ino>>
            /\ uf' = [uf EXCEPT ![x] = [OnNew(x, p, d, FALSE) EXCEPT !.isdir = b]]
  <2>. DEFINE f == [OnNew(x, p, d, FALSE) EXCEPT !.isdir = b]
  <2>1. f \in FidT /\ f.used /\ f.job = NoJob /\ f.fd = d /\ f.dir = uf[x].dir /\ f.path = p
    <3>1. OnNewFacts(x, p, d)
      BY <1>6, <1>7, <1>10, OnNewIs
    <3>2. PICK g : g = OnNew(x, p, d, FALSE)
      OBVIOUS
    <3>3. g \in FidT /\ g.path = p /\ g.used /\ g.job = NoJob /\ g.fd = d /\ g.dir = uf[x].dir
      BY <1>6, <3>1, <3>2 DEF OnNewFacts
    <3>4. f = [g EXCEPT !.isdir = b]
      BY <3>2
    <3>. HIDE DEF f
    <3>. QED  BY <3>3, <3>4 DEF FidT
  <2>2. uf' = [uf EXCEPT ![x] = f]
    BY <1>12
  <2>. HIDE DEF f
  <2>3. uf' \in [UFids -> FidT] /\ uf'[x] = f /\ Others(uf, uf', x)
    BY <1>6, <2>1, <2>2, OneFid
  <2>4. /\ fds' \in [Fds -> 0..MaxInodes] /\ Opening(fds, fds', d, i)
        /\ \A j \in Inodes : IsOpen(fds, j) => IsOpen(fds', j)
    BY <1>6, <1>8, <1>10, <1>12, DescMade
  <2>5. Typed(ents', ino', fds', uf')
    BY <1>6, <1>12, <2>3, <2>4 DEF Typed
  <2>6. ASSUME calm' PROVE Sound(mapped, ents, ino, fds', uf', {})
    <3>1. Takes(uf[x], f, d)
      BY <1>11, <2>1, <2>6 DEF Takes
    <3>2. FollowIn(ents, f.path) = i
      BY <1>8, <2>1
    <3>3. OpensAt(ents, ino, fds, fds', uf, uf', x, f, d)
      BY <1>6, <1>8, <1>11, <2>1, <2>3, <2>4, <2>6, <3>1, <3>2 DEF OpensAt
    <3>4. FollowIn(ents, f.path) \in Inodes
      BY <1>8, <3>2
    <3>. QED  BY <1>6, <1>10, <2>1, <2>3, <2>4, <3>3, <3>4, FidMovesAndOpens
  <2>7. Kept(ents, ino, fds')
    BY <2>4, Before, KeptGrows
  <2>8. calm' => Sound(mapped, ents', ino', fds', uf', {}) /\ Kept(ents', ino', fds')
    BY <1>12, <2>6, <2>7
  <2>. QED  BY <1>5, <1>6, <1>9, <2>5, <2>8, After
<1>13. CASE /\ ents' = IF mapped THEN ents ELSE Unlink(Parent(p), n)
            /\ ino' = Gone(ents', fds) /\ UNCHANGED fds
            /\ uf' = [uf EXCEPT ![x].path = p, ![x].fd = None]
  <2>. DEFINE f == [uf[x] EXCEPT !.path = p, !.fd = None]
  <2>1. uf' = [uf EXCEPT ![x] = f]
    BY <1>6, <1>13 DEF FidT
  <2>2. f \in FidT /\ f.used /\ f.job = NoJob /\ f.fd = None /\ f.dir = uf[x].dir /\ f.path = p
    BY <1>6, <1>7, FidTypes DEF FidT
  <2>. HIDE DEF f
  <2>3. uf' \in [UFids -> FidT] /\ uf'[x] = f /\ Others(uf, uf', x)
    BY <1>6, <2>1, <2>2, OneFid
  <2>4. PICK e : e = FollowIn(ents, uf[x].path)
    OBVIOUS
  <2>5. e = Parent(p) /\ e # None /\ ents[e][n] = i
    <3>1. FollowIn(ents, p) = IF e = None THEN None ELSE ents[e][n]
      BY <1>6, <1>7, <2>4, FollowLaws
    <3>2. Parent(p) = Follow(uf[x].path)
      BY <1>6, <1>7, AppendParts DEF Parent
    <3>3. Follow(uf[x].path) = e
      BY <2>4, FollowIs
    <3>. QED  BY <1>5, <1>8, <3>1, <3>2, <3>3
  <2>6. PICK es : es = ents'
    OBVIOUS
  <2>7. /\ es \in [Inodes -> DirT]
        /\ ~mapped => Rewritten(ents, es, e, n, None)
        /\ mapped => es = ents
    <3>1. es = IF mapped THEN ents ELSE Unlink(e, n)
      BY <1>13, <2>5, <2>6
    <3>2. CASE mapped
      BY <1>6, <3>1, <3>2
    <3>3. CASE ~mapped
      <4>1. es = Unlink(e, n)
        BY <3>1, <3>3
      <4>2. es \in [Inodes -> DirT] /\ Rewritten(ents, es, e, n, None)
        BY <1>6, <2>4, <2>5, <4>1, UnlinkIs
      <4>. QED  BY <3>3, <4>2
    <3>. QED  BY <3>2, <3>3
  <2>8. ASSUME calm' PROVE Sound(mapped, es, ino, fds, uf, {})
    <3>1. CASE mapped
      BY <1>6, <2>7, <3>1
    <3>2. CASE ~mapped
      <4>1. ents[i] = NoEnts
        <5>1. ino[i].kind # "dir"
          BY <1>5, <3>2
        <5>2. \A m \in UNames : ents[i][m] = None
          BY <1>6, <1>8, <5>1 DEF Tree
        <5>. QED  BY <1>6, <1>8, <5>2 DEF NoEnts, DirT
      <4>2. Rewritten(ents, es, e, n, None) /\ Vacant(uf, Append(uf[x].path, n))
        BY <1>7, <1>11, <2>7, <2>8, <3>2
      <4>3. ents[e][n] # None /\ ents[ents[e][n]] = NoEnts
        BY <1>5, <2>5, <4>1
      <4>4. uf[x].path \in Seq(UNames) /\ mapped \in BOOLEAN /\ Typed(ents, ino, fds, uf)
            /\ Sound(mapped, ents, ino, fds, uf, {})
        BY <1>6
      <4>5. Leaves(ents, uf, es, uf[x].path, n)
        BY <2>4, <2>5, <4>2, <4>3 DEF Leaves
      <4>. QED  BY <2>7, <4>4, <4>5, NameGone
    <3>. QED  BY <3>1, <3>2
  <2>9. Typed(es, ino, fds, uf) /\ Typed(es, ino, fds, uf')
    BY <1>6, <2>3, <2>7 DEF Typed
  <2>10. ASSUME calm' PROVE Sound(mapped, es, ino, fds, uf', {})
    <3>1. /\ uf'[x].used /\ uf'[x].job = NoJob /\ uf'[x].fd = uf[x].fd /\ uf'[x].dir = uf[x].dir
          /\ HeldIn(uf[x]) = {} /\ uf[x].job = NoJob
          /\ \A y \in UFids : AtWork(uf[y]) => ~IsPrefix(uf[y].job.path, uf'[x].path)
      BY <1>6, <1>11, <2>2, <2>3, <2>10
    <3>2. Sound(mapped, es, ino, fds, uf, {})
      BY <2>8, <2>10
    <3>. QED  BY <2>3, <2>9, <3>1, <3>2, FidMoves
  <2>11. ino' = Gone(es, fds) /\ fds = fds'
    BY <1>13, <2>6
  <2>. QED  BY <1>5, <1>9, <2>6, <2>9, <2>10, <2>11, AfterSweep
<1>. QED  BY <1>5, <1>12, <1>13

\* The job of a handler that makes a file.
MakeJob(k, p, as, i) == [NoJob EXCEPT !.k = k, !.path = p, !.as = as, !.ino = i, !.left = Virtfs(as)]

\* What is left to set at first.
LEMMA VirtfsType ==
    ASSUME NEW as
    PROVE  Virtfs(as) \in Seq(Attrs)
<1>1. <<"uid", "gid", "mode">> \in Seq(Attrs) /\ <<"rdev">> \in Seq(Attrs) /\ <<>> \in Seq(Attrs)
  BY DEF Attrs
<1>2. PICK a \in Seq(Attrs), b \in Seq(Attrs) : a = <<"uid", "gid", "mode">> /\ b = IF as = "node" THEN <<"rdev">> ELSE <<>>
  BY <1>1
<1>3. Virtfs(as) = a \o b
  BY <1>2, Zenon DEF Virtfs
<1>. QED  BY <1>3

\* A handler starts to make a file with mapped ids, which Tlcreate opens.
LEMMA MappedMakeStep ==
    ASSUME UfsInv, calm, NEW x \in UFids, NEW n \in UNames, NEW as \in Ours, NEW k \in {"lcreate", "make"},
           k = "lcreate" => as = "file", MappedMake(x, n, as, k)
    PROVE  UfsInv'
<1>1. PICK i : i = Least(FreeInodes)
  OBVIOUS
<1>2. PICK d : d = IF k = "lcreate" THEN Least(FreeFds) ELSE None
  OBVIOUS
<1>3. PICK p : p = ufs_join(uf[x].path, n)
  OBVIOUS
<1>4. PICK j : j = MakeJob(k, p, as, i)
  OBVIOUS
<1>5. PICK kind \in Ours : kind = IF as = "dir" THEN "dir" ELSE "file"
  BY DEF Ours
<1>6. /\ mapped /\ Makes(x, n) /\ (k = "lcreate" => FreeFds # {}) /\ UNCHANGED mapped
      /\ calm' = (NotUsed(x, n) /\ (k = "lcreate" => Bare(x)))
      /\ ino' = [ino EXCEPT ![i] = Inode(kind, as)] /\ ents' = Entered(x, n, i)
      /\ fds' = IF d = None THEN fds ELSE [fds EXCEPT ![d] = i]
      /\ uf' = [uf EXCEPT ![x].fd = IF d = None THEN @ ELSE d, ![x].job = j]
  BY <1>1, <1>2, <1>3, <1>4, <1>5 DEF MappedMake, MakeJob, Calm
<1>7. HostMade(x, n, kind, as, i)
  <2>1. HostMakes(x, n, kind, as, i)
    BY <1>1, <1>6 DEF HostMakes
  <2>. QED  BY <2>1, FileMade
<1>8. /\ ents' \in [Inodes -> DirT] /\ ino' \in [Inodes -> InodeT] /\ Kept(ents', ino', fds) /\ i \in Inodes
      /\ ino'[i].kind = kind /\ ino'[i].as = as
      /\ uf[x].used /\ uf[x].job = NoJob /\ uf[x].isdir /\ uf[x].path \in Seq(UNames)
      /\ p = Append(uf[x].path, n) /\ p \in Seq(UNames)
  BY <1>3, <1>7 DEF HostMade
<1>9. NotUsed(x, n) => /\ Sound(mapped, ents', ino', fds, uf, {i})
                       /\ FollowIn(ents', p) = i /\ ents'[i] = NoEnts /\ Vacant(uf, p)
  BY <1>3, <1>7 DEF HostMade
<1>10. /\ uf \in [UFids -> FidT] /\ uf[x] \in FidT /\ fds \in [Fds -> 0..MaxInodes] /\ mapped \in BOOLEAN
  BY Before
<1>11. i \in 0..MaxInodes /\ i # None
  BY <1>8 DEF Inodes, None
<1>12. j \in JobT /\ j.k = k /\ j.path = p /\ j.as = as /\ j.ino = i /\ j.left = Virtfs(as)
  <2>1. p \in Seq(UNames) /\ i \in 0..MaxInodes /\ as \in Kinds
    BY <1>8, <1>11 DEF Ours, Kinds
  <2>2. NoJob \in JobT /\ Virtfs(as) \in Seq(Attrs)
    BY FidTypes, VirtfsType
  <2>3. j \in JobT
    BY <1>4, <2>1, <2>2 DEF MakeJob, JobT
  <2>. QED  BY <1>4, <2>3 DEF MakeJob, NoJob
<1>13. /\ d \in 0..MaxFds
       /\ k = "lcreate" => d \in Fds /\ fds[d] = None /\ d # None
       /\ k = "make" => d = None
  BY <1>2, <1>6, FreeOnes, FidTypes
<1>14. PICK v \in 0..MaxFds : v = IF d = None THEN uf[x].fd ELSE d
  BY <1>10, <1>13 DEF FidT
<1>. DEFINE f == [uf[x] EXCEPT !.fd = v, !.job = j]
<1>15. uf' = [uf EXCEPT ![x] = f]
  BY <1>6, <1>10, <1>14 DEF FidT
<1>16. /\ f \in FidT /\ f.used /\ f.path = uf[x].path /\ f.isdir = uf[x].isdir
       /\ f.fd = v /\ f.dir = uf[x].dir /\ f.job = j
  BY <1>8, <1>10, <1>12 DEF FidT
<1>. HIDE DEF f
<1>17. uf' \in [UFids -> FidT] /\ uf'[x] = f /\ Others(uf, uf', x)
  BY <1>10, <1>15, <1>16, OneFid
<1>18. /\ fds' \in [Fds -> 0..MaxInodes]
       /\ k = "lcreate" => Opening(fds, fds', d, i)
       /\ k = "make" => fds' = fds
       /\ \A e \in Inodes : IsOpen(fds, e) => IsOpen(fds', e)
  <2>1. CASE k = "lcreate"
    <3>1. d \in Fds /\ fds[d] = None /\ fds' = [fds EXCEPT ![d] = i]
      BY <1>6, <1>13, <2>1
    <3>2. /\ fds' \in [Fds -> 0..MaxInodes] /\ Opening(fds, fds', d, i)
          /\ \A e \in Inodes : IsOpen(fds, e) => IsOpen(fds', e)
      BY <1>10, <1>11, <3>1, DescMade
    <3>. QED  BY <2>1, <3>2
  <2>2. CASE k = "make"
    BY <1>6, <1>10, <1>13, <2>2
  <2>. QED  BY <2>1, <2>2
<1>19. Typed(ents', ino', fds, uf) /\ Typed(ents', ino', fds', uf')
  BY <1>8, <1>10, <1>17, <1>18 DEF Typed
<1>20. calm' \in BOOLEAN
  BY <1>6 DEF NotUsed, Bare
<1>21. Kept(ents', ino', fds')
  BY <1>8, <1>18, KeptGrows
<1>22. ASSUME calm' PROVE Sound(mapped, ents', ino', fds', uf', {})
  <2>1. k = "lcreate" => HeldIn(uf[x]) = {} /\ uf[x].fd = None /\ uf[x].dir = None
    BY <1>6, <1>22 DEF Bare, HeldIn
  <2>2. Sound(mapped, ents', ino', fds, uf, {i}) /\ FollowIn(ents', p) = i /\ ents'[i] = NoEnts /\ Vacant(uf, p)
    BY <1>6, <1>9, <1>22
  <2>3. AtWork(f)
    BY <1>12, <1>16 DEF AtWork
  <2>4. JobOn(mapped, ents', ino', f)
    <3>1. f.job.path # <<>>
      BY <1>8, <1>12, <1>16, AppendParts
    <3>2. k = "lcreate" => f.job.as = "file" /\ f.fd # None /\ f.dir = None
      BY <1>12, <1>13, <1>14, <1>16, <2>1
    <3>3. f.job.k # "no" /\ f.job.k # "set" /\ f.used /\ mapped /\ (f.job.k = "lcreate" => k = "lcreate")
      BY <1>6, <1>12, <1>16
    <3>4. /\ f.job.ino # None /\ FollowIn(ents', f.job.path) = f.job.ino
          /\ ents'[f.job.ino] = NoEnts /\ f.job.as \in Ours /\ ino'[f.job.ino].as = f.job.as
          /\ ino'[f.job.ino].kind = IF f.job.as = "dir" THEN "dir" ELSE "file"
          /\ ToSet(Virtfs(f.job.as)) \subseteq ino'[f.job.ino].attrs \cup ToSet(f.job.left)
      BY <1>5, <1>8, <1>11, <1>12, <1>16, <2>2
    <3>. QED  BY <3>1, <3>2, <3>3, <3>4 DEF JobOn
  <2>5. PICK T : T = {i}
    OBVIOUS
  <2>6. /\ uf'[x].used /\ uf'[x].path = uf[x].path /\ uf'[x].isdir = uf[x].isdir
        /\ AtWork(uf'[x]) /\ JobOn(mapped, ents', ino', uf'[x])
        /\ uf'[x].job.path = Append(uf[x].path, n) /\ Vacant(uf, uf'[x].job.path)
        /\ uf'[x].job.ino = i
    BY <1>8, <1>12, <1>16, <1>17, <2>2, <2>3, <2>4
  <2>7. \/ uf'[x].job.k = "make" /\ uf'[x].fd = uf[x].fd /\ uf'[x].dir = uf[x].dir /\ fds' = fds
        \/ /\ uf'[x].job.k = "lcreate" /\ HeldIn(uf[x]) = {} /\ Takes(uf[x], uf'[x], uf'[x].fd)
           /\ uf'[x].fd \in Fds /\ Opening(fds, fds', uf'[x].fd, uf'[x].job.ino)
           /\ ino'[uf'[x].job.ino].kind # "none"
    <3>1. CASE k = "make"
      BY <1>12, <1>13, <1>14, <1>16, <1>17, <1>18, <3>1
    <3>2. CASE k = "lcreate"
      <4>1. uf'[x].fd = d /\ uf'[x].dir = uf[x].dir /\ uf'[x].job.k = "lcreate"
        BY <1>12, <1>13, <1>14, <1>16, <1>17, <3>2
      <4>2. Takes(uf[x], uf'[x], uf'[x].fd)
        BY <2>1, <3>2, <4>1 DEF Takes
      <4>3. ino'[i].kind # "none"
        BY <1>8 DEF Ours
      <4>. QED  BY <1>13, <1>18, <2>1, <2>6, <3>2, <4>1, <4>2, <4>3
    <3>. QED  BY <3>1, <3>2
  <2>8. Sound(mapped, ents', ino', fds', uf', T \ {uf'[x].job.ino})
    <3>1. Sound(mapped, ents', ino', fds, uf, T)
      BY <2>2, <2>5
    <3>. QED  BY <1>8, <1>10, <1>17, <1>18, <1>19, <2>6, <2>7, <3>1, WorkBegins
  <2>9. T \ {uf'[x].job.ino} = {}
    BY <2>5, <2>6
  <2>. QED  BY <2>8, <2>9
<1>. QED  BY <1>6, <1>10, <1>19, <1>20, <1>21, <1>22, After

\* A handler sets the next attribute.
PutsNext(x) ==
    /\ uf[x].job.k # "no" /\ uf[x].job.left # <<>>
    /\ Puttable(Follow(uf[x].job.path))
    /\ ino' = Put(Follow(uf[x].job.path), Head(uf[x].job.left), uf[x].job.as)
    /\ uf' = [uf EXCEPT ![x].job.left = Tail(@)]
    /\ UNCHANGED <<mapped, calm, ents, fds>>

\* mapped_create and npfs_setattr.
LEMMA PutStep ==
    ASSUME UfsInv, calm, NEW x \in UFids, PutsNext(x)
    PROVE  UfsInv'
<1>1. /\ uf \in [UFids -> FidT] /\ uf[x] \in FidT /\ fds \in [Fds -> 0..MaxInodes] /\ mapped \in BOOLEAN
      /\ ents \in [Inodes -> DirT] /\ ino \in [Inodes -> InodeT]
      /\ Typed(ents, ino, fds, uf) /\ Sound(mapped, ents, ino, fds, uf, {}) /\ Kept(ents, ino, fds)
      /\ Tree(mapped, ents, ino)
  BY Before
<1>2. PICK i : i = FollowIn(ents, uf[x].job.path)
  OBVIOUS
<1>3. PICK a : a = Head(uf[x].job.left)
  OBVIOUS
<1>4. PICK as : as = uf[x].job.as
  OBVIOUS
<1>5. /\ uf[x].job.k # "no" /\ uf[x].job.left # <<>> /\ i # None /\ ino[i].kind # "link"
      /\ ino' = Put(i, a, as)
      /\ uf' = [uf EXCEPT ![x].job.left = Tail(@)]
      /\ UNCHANGED <<mapped, calm, ents, fds>>
  BY <1>2, <1>3, <1>4, FollowIs DEF PutsNext, Puttable
<1>6. uf[x].job \in JobT /\ uf[x].job.path \in Seq(UNames) /\ uf[x].job.left \in Seq(Attrs) /\ as \in Kinds
  BY <1>1, <1>4 DEF FidT, JobT
<1>7. a \in Attrs /\ Tail(uf[x].job.left) \in Seq(Attrs)
  BY <1>3, <1>5, <1>6
<1>8. i \in Inodes /\ ino[i].kind # "none" /\ ino[i] \in InodeT
  <2>1. i \in Inodes /\ ino[i].kind # "none"
    BY <1>1, <1>2, <1>5, <1>6, PathLive
  <2>. QED  BY <1>1, <2>1
<1>9. ino' \in [Inodes -> InodeT] /\ Carries(ino, ino', i, a, as)
  <2>. DEFINE v == [ino[i] EXCEPT !.attrs = @ \cup {a}, !.mode = IF a = "mode" THEN as ELSE @]
  <2>1. /\ v \in InodeT /\ v.kind = ino[i].kind /\ v.as = ino[i].as
        /\ v.attrs = ino[i].attrs \cup {a} /\ v.mode = IF a = "mode" THEN as ELSE ino[i].mode
    BY <1>6, <1>7, <1>8 DEF InodeT
  <2>2. ino' = [ino EXCEPT ![i] = v]
    BY <1>1, <1>5, <1>8 DEF Put, InodeT
  <2>. HIDE DEF v
  <2>. QED  BY <1>1, <1>8, <2>1, <2>2 DEF Carries
<1>10. uf' \in [UFids -> FidT] /\ FirstSet(uf[x], uf'[x]) /\ Others(uf, uf', x)
  <2>1. PICK t \in Seq(Attrs) : t = Tail(uf[x].job.left)
    BY <1>7
  <2>. DEFINE j == [uf[x].job EXCEPT !.left = t]
              f == [uf[x] EXCEPT !.job = j]
  <2>2. j \in JobT /\ j.k = uf[x].job.k /\ j.path = uf[x].job.path /\ j.as = uf[x].job.as
        /\ j.ino = uf[x].job.ino /\ j.left = t
    BY <1>6, <2>1 DEF JobT
  <2>3. f = [uf[x] EXCEPT !.job.left = t]
    BY <1>1 DEF FidT
  <2>4. uf' = [uf EXCEPT ![x] = f]
    BY <1>1, <1>5, <2>1, <2>3
  <2>. HIDE DEF j
  <2>5. /\ f \in FidT /\ f.used = uf[x].used /\ f.path = uf[x].path /\ f.isdir = uf[x].isdir
        /\ f.fd = uf[x].fd /\ f.dir = uf[x].dir /\ f.job = j
    BY <1>1, <2>2 DEF FidT
  <2>. HIDE DEF f
  <2>6. uf' \in [UFids -> FidT] /\ uf'[x] = f /\ Others(uf, uf', x)
    BY <1>1, <2>4, <2>5, OneFid
  <2>. QED  BY <2>1, <2>2, <2>5, <2>6 DEF FirstSet
<1>11. Sound(mapped, ents, ino', fds, uf', {})
  <2>1. Carries(ino, ino', i, Head(uf[x].job.left), uf[x].job.as)
    BY <1>3, <1>4, <1>9
  <2>. QED  BY <1>1, <1>2, <1>5, <1>9, <1>10, <2>1, AttributePut
<1>12. Kept(ents, ino', fds)
  <2>1. \A j \in Inodes : ino'[j].kind # "none" => ino[j].kind # "none" \/ Named(ents, j) \/ IsOpen(fds, j)
    BY <1>8, <1>9 DEF Carries
  <2>. QED  BY <1>1, <2>1, KeptGrows
<1>13. Typed(ents', ino', fds', uf')
  BY <1>1, <1>5, <1>9, <1>10 DEF Typed
<1>14. calm' => Sound(mapped, ents', ino', fds', uf', {}) /\ Kept(ents', ino', fds')
  BY <1>5, <1>11, <1>12
<1>15. calm' \in BOOLEAN /\ mapped' = mapped
  BY <1>5
<1>. QED  BY <1>1, <1>13, <1>14, <1>15, After

\* A handler ends, and its fid, as f, stays on its file or goes to the one made.
Ends(f, f2) ==
    /\ f2.used = f.used /\ f2.job = NoJob /\ f2.fd = f.fd /\ f2.dir = f.dir
    /\ IF f.job.k = "lcreate" THEN f2.path = f.job.path
       ELSE f2.path = f.path /\ f2.isdir = f.isdir

\* Nothing is left to do, or the job was not one that makes a file.
LEMMA JobDone ==
    ASSUME UfsInv, calm, NEW x \in UFids, uf[x].job.k # "no",
           AtWork(uf[x]) => uf[x].job.left = <<>>,
           NEW f \in FidT, Ends(uf[x], f), uf' = [uf EXCEPT ![x] = f],
           UNCHANGED <<mapped, calm, ents, ino, fds>>
    PROVE  UfsInv'
<1>1. /\ uf \in [UFids -> FidT] /\ uf[x] \in FidT /\ fds \in [Fds -> 0..MaxInodes] /\ mapped \in BOOLEAN
      /\ Typed(ents, ino, fds, uf) /\ Sound(mapped, ents, ino, fds, uf, {})
      /\ Fids(mapped, ents, ino, fds, uf)
  BY Before
<1>2. uf' \in [UFids -> FidT] /\ uf'[x] = f /\ Others(uf, uf', x)
  BY <1>1, OneFid
<1>3. JobOn(mapped, ents, ino, uf[x])
  BY <1>1 DEF Fids
<1>4. uf[x].used
  BY <1>3 DEF JobOn
<1>5. AtWork(uf[x]) => ToSet(Virtfs(uf[x].job.as)) \subseteq ino[uf[x].job.ino].attrs
  <2>1. ToSet(<<>>) = {}
    BY DEF ToSet
  <2>2. AtWork(uf[x]) => ToSet(Virtfs(uf[x].job.as)) \subseteq ino[uf[x].job.ino].attrs \cup ToSet(uf[x].job.left)
    BY <1>3 DEF JobOn
  <2>. QED  BY <2>1, <2>2
<1>6. uf[x].job.k \in {"make", "set", "lcreate"}
  BY <1>1, JobKinds
<1>7. \/ /\ uf[x].job.k \in {"make", "set"} /\ fds = fds
         /\ uf'[x].fd = uf[x].fd /\ uf'[x].dir = uf[x].dir
         /\ uf'[x].path = uf[x].path /\ uf'[x].isdir = uf[x].isdir
      \/ /\ uf[x].job.k = "lcreate" /\ fds = fds
         /\ uf'[x].fd = uf[x].fd /\ uf'[x].dir = uf[x].dir /\ uf'[x].path = uf[x].job.path
  BY <1>2, <1>6 DEF Ends
<1>8. uf'[x].used /\ uf'[x].job = NoJob
  BY <1>2, <1>4 DEF Ends
<1>9. Sound(mapped, ents, ino, fds, uf', {})
  <2>1. PICK T : T = {}
    OBVIOUS
  <2>2. T \subseteq T /\ Sound(mapped, ents, ino, fds, uf, T)
    BY <1>1, <2>1
  <2>3. AtWork(uf[x]) => uf[x].job.ino \in T \/ ToSet(Virtfs(uf[x].job.as)) \subseteq ino[uf[x].job.ino].attrs
    BY <1>5
  <2>4. Typed(ents, ino, fds, uf) /\ uf[x].job.k # "no" /\ mapped \in BOOLEAN
        /\ fds \in [Fds -> 0..MaxInodes]
    BY <1>1
  <2>5. Sound(mapped, ents, ino, fds, uf', T)
    BY <1>2, <1>4, <1>7, <1>8, <2>2, <2>3, <2>4, JobEnds
  <2>. QED  BY <2>1, <2>5
<1>. QED  BY <1>2, <1>9, AfterFids

\* All attributes of a new file are set.
LEMMA MakeDoneStep ==
    ASSUME UfsInv, calm, NEW x \in UFids, MakeDone(x)
    PROVE  UfsInv'
<1>1. PICK g : g = IF uf[x].job.k = "lcreate" THEN OnNew(x, uf[x].job.path, uf[x].fd, FALSE) ELSE uf[x]
  OBVIOUS
<1>2. /\ AtWork(uf[x]) /\ uf[x].job.k # "no" /\ uf[x].job.left = <<>>
      /\ uf' = [uf EXCEPT ![x] = [g EXCEPT !.job = NoJob]] /\ UNCHANGED <<mapped, calm, ents, ino, fds>>
  BY <1>1 DEF MakeDone, AtWork
<1>3. uf \in [UFids -> FidT] /\ uf[x] \in FidT
  BY Before
<1>4. /\ g \in FidT /\ g.used = uf[x].used /\ g.fd = uf[x].fd /\ g.dir = uf[x].dir
      /\ IF uf[x].job.k = "lcreate" THEN g.path = uf[x].job.path ELSE g.path = uf[x].path /\ g.isdir = uf[x].isdir
  <2>1. CASE uf[x].job.k = "lcreate"
    <3>1. PICK v \in 0..MaxFds, q \in Seq(UNames) : v = uf[x].fd /\ q = uf[x].job.path
      BY <1>3 DEF FidT, JobT
    <3>2. OnNewFacts(x, q, v) /\ g = OnNew(x, q, v, FALSE)
      BY <1>1, <1>3, <2>1, <3>1, OnNewIs
    <3>. QED  BY <2>1, <3>1, <3>2 DEF OnNewFacts
  <2>2. CASE uf[x].job.k # "lcreate"
    BY <1>1, <1>3, <2>2
  <2>. QED  BY <2>1, <2>2
<1>. DEFINE f == [g EXCEPT !.job = NoJob]
<1>5. f \in FidT /\ f.used = g.used /\ f.fd = g.fd /\ f.dir = g.dir /\ f.path = g.path /\ f.isdir = g.isdir /\ f.job = NoJob
  BY <1>4, FidTypes DEF FidT
<1>6. uf' = [uf EXCEPT ![x] = f]
  BY <1>2
<1>. HIDE DEF f
<1>7. Ends(uf[x], f)
  BY <1>4, <1>5 DEF Ends
<1>. QED  BY <1>2, <1>5, <1>6, <1>7, JobDone

\* npfs_setattr has set what it will.
LEMMA SetDoneStep ==
    ASSUME UfsInv, calm, NEW x \in UFids, SetDone(x)
    PROVE  UfsInv'
<1>1. uf[x].job.k = "set" /\ uf' = [uf EXCEPT ![x].job = NoJob] /\ UNCHANGED <<mapped, calm, ents, ino, fds>>
  BY DEF SetDone
<1>2. uf \in [UFids -> FidT] /\ uf[x] \in FidT
  BY Before
<1>. DEFINE f == [uf[x] EXCEPT !.job = NoJob]
<1>3. /\ f \in FidT /\ f.used = uf[x].used /\ f.fd = uf[x].fd /\ f.dir = uf[x].dir /\ f.path = uf[x].path
      /\ f.isdir = uf[x].isdir /\ f.job = NoJob
  BY <1>2, FidTypes DEF FidT
<1>4. uf' = [uf EXCEPT ![x] = f]
  BY <1>1
<1>. HIDE DEF f
<1>5. Ends(uf[x], f) /\ ~AtWork(uf[x]) /\ uf[x].job.k # "no"
  BY <1>1, <1>3 DEF Ends, AtWork
<1>. QED  BY <1>1, <1>3, <1>4, <1>5, JobDone

\* The type is one of the attributes of every file.
LEMMA HasMode ==
    ASSUME NEW as
    PROVE  "mode" \in ToSet(Virtfs(as))
<1>1. <<"uid", "gid", "mode">> \in Seq(Attrs) /\ <<"rdev">> \in Seq(Attrs) /\ <<>> \in Seq(Attrs)
  BY DEF Attrs
<1>2. PICK a \in Seq(Attrs), b \in Seq(Attrs) : a = <<"uid", "gid", "mode">> /\ b = IF as = "node" THEN <<"rdev">> ELSE <<>>
  BY <1>1
<1>3. Virtfs(as) = a \o b
  BY <1>2, Zenon DEF Virtfs
<1>4. Len(a) = 3 /\ a[3] = "mode"
  BY <1>2
<1>5. Len(a \o b) \in Nat /\ Len(a \o b) >= 3 /\ (a \o b)[3] = "mode"
  BY <1>2, <1>4
<1>6. PICK c \in Seq(Attrs) : c = a \o b
  <2>1. a \o b \in Seq(Attrs)
    OBVIOUS
  <2>. QED  BY <2>1
<1>7. 3 \in DOMAIN c /\ c[3] = "mode"
  BY <1>5, <1>6
<1>. QED  BY <1>3, <1>6, <1>7 DEF ToSet

\* npfs_setattr looks at the type.
LEMMA SetattrStep ==
    ASSUME UfsInv, calm, NEW x \in UFids, npfs_setattr(x)
    PROVE  UfsInv'
<1>1. PICK as : as = fidstat(x)
  OBVIOUS
<1>2. PICK j : j = [NoJob EXCEPT !.k = "set", !.path = uf[x].path, !.as = as, !.left = <<"mode">>]
  OBVIOUS
<1>3. /\ mapped /\ Ready(x) /\ as # "error" /\ uf' = [uf EXCEPT ![x].job = j]
      /\ UNCHANGED <<mapped, calm, ents, ino, fds>>
  BY <1>1, <1>2 DEF npfs_setattr
<1>4. /\ uf \in [UFids -> FidT] /\ uf[x] \in FidT /\ mapped \in BOOLEAN /\ ino \in [Inodes -> InodeT]
      /\ ents \in [Inodes -> DirT]
      /\ Typed(ents, ino, fds, uf) /\ Sound(mapped, ents, ino, fds, uf, {})
      /\ Whole(mapped, ents, ino, fds, uf, {})
      /\ uf[x].used /\ uf[x].job = NoJob /\ uf[x].path \in Seq(UNames)
  BY <1>3, Before DEF Sound
<1>5. PICK i : i = FollowIn(ents, uf[x].path)
  OBVIOUS
<1>6. i # None /\ as = IF "mode" \in ino[i].attrs THEN ino[i].mode ELSE ino[i].kind
  <2>1. i = Follow(uf[x].path)
    BY <1>5, FollowIs
  <2>. QED  BY <1>1, <1>3, <2>1 DEF fidstat, ufs_lstat, mapped_stat, mapped_get
<1>7. i \in Inodes /\ ino[i] \in InodeT
  BY <1>4, <1>5, <1>6, FollowType
<1>8. as \in Kinds
  BY <1>6, <1>7 DEF InodeT
<1>9. ASSUME ino[i].as \in Ours PROVE as = ino[i].as
  <2>1. "mode" \in ino[i].attrs => ino[i].mode = ino[i].as
    BY <1>3, <1>4, <1>7, <1>9 DEF Whole
  <2>2. i # HostRoot
    <3>1. ino[HostRoot].as = "host"
      BY Before DEF Tree
    <3>. QED  BY <1>9, <3>1 DEF Ours
  <2>3. Named(ents, i)
    BY <1>4, <1>5, <1>6, <2>2, PathNamed
  <2>4. ~InWork(uf, i)
    <3>1. ASSUME NEW y \in UFids, AtWork(uf[y]) PROVE uf[y].job.ino # i
      <4>1. uf[y].job.path # uf[x].path
        BY <1>4, <3>1, PathFree
      <4>. QED  BY <1>4, <1>5, <3>1, <4>1, WorkElsewhere
    <3>. QED  BY <3>1 DEF InWork
  <2>5. ToSet(Virtfs(ino[i].as)) \subseteq ino[i].attrs
    BY <1>3, <1>4, <1>7, <1>9, <2>3, <2>4 DEF Whole
  <2>6. "mode" \in ino[i].attrs
    BY <2>5, HasMode
  <2>. QED  BY <1>6, <2>1, <2>6
<1>10. j \in JobT /\ j.k = "set" /\ j.path = uf[x].path /\ j.as = as
  <2>1. NoJob \in JobT /\ <<"mode">> \in Seq(Attrs)
    BY FidTypes DEF Attrs
  <2>2. j \in JobT
    BY <1>2, <1>4, <1>8, <2>1 DEF JobT
  <2>. QED  BY <1>2, <2>2 DEF NoJob
<1>. DEFINE f == [uf[x] EXCEPT !.job = j]
<1>11. /\ f \in FidT /\ f.used = uf[x].used /\ f.fd = uf[x].fd /\ f.dir = uf[x].dir /\ f.path = uf[x].path
       /\ f.isdir = uf[x].isdir /\ f.job = j
  BY <1>4, <1>10 DEF FidT
<1>12. uf' = [uf EXCEPT ![x] = f]
  BY <1>3
<1>. HIDE DEF f
<1>13. uf' \in [UFids -> FidT] /\ uf'[x] = f /\ Others(uf, uf', x)
  BY <1>4, <1>11, <1>12, OneFid
<1>14. JobOn(mapped, ents, ino, f)
  <2>1. f.job.k = "set" /\ f.used /\ mapped /\ ~AtWork(f)
    BY <1>3, <1>4, <1>10, <1>11 DEF AtWork
  <2>2. FollowIn(ents, f.job.path) = i /\ f.job.as = as
    BY <1>5, <1>10, <1>11
  <2>. QED  BY <1>6, <1>9, <2>1, <2>2 DEF JobOn
<1>15. /\ uf'[x].used /\ uf'[x].path = uf[x].path /\ uf'[x].isdir = uf[x].isdir
       /\ uf'[x].fd = uf[x].fd /\ uf'[x].dir = uf[x].dir
       /\ uf'[x].job.k = "set" /\ uf'[x].job.path = uf[x].path /\ JobOn(mapped, ents, ino, uf'[x])
  BY <1>4, <1>10, <1>11, <1>13, <1>14
<1>16. Sound(mapped, ents, ino, fds, uf', {})
  BY <1>4, <1>13, <1>15, SetBegins
<1>. QED  BY <1>3, <1>13, <1>16, AfterFids

\* With mapped ids nobody has open what is at a path where nobody stands.
LEMMA Unopened ==
    ASSUME NEW mp \in BOOLEAN, mp, NEW es, NEW io, NEW ds, NEW u, Typed(es, io, ds, u), NEW S,
           Sound(mp, es, io, ds, u, S),
           NEW p \in Seq(UNames), Vacant(u, p), NEW i, i = FollowIn(es, p), i # None
    PROVE  ~IsOpen(ds, i)
<1>1. /\ es \in [Inodes -> DirT] /\ io \in [Inodes -> InodeT] /\ u \in [UFids -> FidT]
      /\ Tree(mp, es, io) /\ Descs(io, ds, u) /\ Fids(mp, es, io, ds, u)
  BY DEF Typed, Sound
<1>2. \A q \in Seq(UNames) : FollowIn(es, q) = i => q = p
  <2>1. ASSUME NEW q \in Seq(UNames), FollowIn(es, q) = i PROVE q = p
    BY <1>1, <2>1, SolePath
  <2>. QED  BY <2>1
<1>3. IsPrefix(p, p)
  BY PrefixLaws
<1>4. ASSUME NEW d \in Fds, ds[d] = i PROVE FALSE
  <2>1. PICK x \in UFids : d \in HeldIn(u[x])
    BY <1>1, <1>4 DEF Descs
  <2>2. u[x] \in FidT /\ OnFile(mp, es, io, ds, u[x]) /\ JobOn(mp, es, io, u[x]) /\ (~u[x].used => u[x] = Unused)
    BY <1>1 DEF Fids
  <2>3. u[x].used
    BY <2>1, <2>2, FidTypes
  <2>4. u[x].path \in Seq(UNames) /\ u[x].job.path \in Seq(UNames)
    BY <2>2, JobKinds
  <2>5. CASE u[x].job.k = "lcreate"
    <3>1. i = u[x].job.ino /\ FollowIn(es, u[x].job.path) = u[x].job.ino
      BY <1>4, <2>1, <2>2, <2>5 DEF OnFile, JobOn, AtWork
    <3>2. u[x].job.path = p
      BY <1>2, <2>4, <3>1
    <3>. QED  BY <1>3, <2>5, <3>2 DEF Vacant
  <2>6. CASE u[x].job.k # "lcreate"
    <3>1. i = FollowIn(es, u[x].path)
      BY <1>4, <2>1, <2>2, <2>6 DEF OnFile
    <3>2. u[x].path = p
      BY <1>2, <2>4, <3>1
    <3>. QED  BY <1>3, <2>3, <3>2 DEF Vacant
  <2>. QED  BY <2>5, <2>6
<1>. QED  BY <1>4 DEF IsOpen

\* The last name of a path is removed.
LEMMA LastGone ==
    ASSUME UfsInv, calm, NEW p \in Seq(UNames), p # <<>>, NEW i, i = FollowIn(ents, p), i # None, ents[i] = NoEnts,
           NEW es, es = Unlink(Parent(p), Last(p)), NEW u, Vacant(u, p)
    PROVE  /\ es \in [Inodes -> DirT] /\ Leaves(ents, u, es, Front(p), Last(p))
           /\ Front(p) \in Seq(UNames) /\ Last(p) \in UNames /\ i \in Inodes
           /\ ents[FollowIn(ents, Front(p))][Last(p)] = i
<1>1. ents \in [Inodes -> DirT]
  BY Before
<1>2. /\ Front(p) \in Seq(UNames) /\ Last(p) \in UNames /\ p = Append(Front(p), Last(p))
      /\ i \in Inodes /\ FollowIn(ents, Front(p)) # None
      /\ ents[FollowIn(ents, Front(p))][Last(p)] = i
  BY <1>1, LastStep
<1>3. PICK d : d = FollowIn(ents, Front(p))
  OBVIOUS
<1>4. Parent(p) = d
  BY <1>3, FollowIs DEF Parent
<1>5. PICK q \in Seq(UNames), n \in UNames : q = Front(p) /\ n = Last(p)
  BY <1>2
<1>6. d = FollowIn(ents, q) /\ d # None /\ es = Unlink(d, n)
  BY <1>2, <1>3, <1>4, <1>5
<1>7. es \in [Inodes -> DirT] /\ Rewritten(ents, es, d, n, None)
  BY <1>6, UnlinkIs
<1>8. Leaves(ents, u, es, q, n)
  <2>1. Vacant(u, Append(q, n)) /\ ents[d][n] = i
    BY <1>2, <1>3, <1>5
  <2>. QED  BY <1>6, <1>7, <2>1 DEF Leaves
<1>. QED  BY <1>2, <1>5, <1>7, <1>8

\* A new file cannot be made whole and is removed.
LEMMA MakeFailedStep ==
    ASSUME UfsInv, calm, NEW x \in UFids, MakeFailed(x)
    PROVE  UfsInv'
<1>1. PICK job : job = uf[x].job
  OBVIOUS
<1>2. /\ job.k = "lcreate" \/ (job.k = "make" /\ job.left # <<>>)
      /\ fds' = IF job.k = "lcreate" THEN Close(fds, uf[x].fd) ELSE fds
      /\ ents' = Undone(job) /\ ino' = Gone(ents', fds') /\ UNCHANGED <<mapped, calm>>
      /\ uf' = [uf EXCEPT ![x].fd = CloseMade(x), ![x].job = NoJob,
                          ![x].path = IF job.left = <<>> THEN job.path ELSE @]
  BY <1>1 DEF MakeFailed
<1>3. /\ uf \in [UFids -> FidT] /\ uf[x] \in FidT /\ fds \in [Fds -> 0..MaxInodes] /\ mapped \in BOOLEAN
      /\ ents \in [Inodes -> DirT] /\ ino \in [Inodes -> InodeT]
      /\ Typed(ents, ino, fds, uf) /\ Sound(mapped, ents, ino, fds, uf, {}) /\ Apart(uf)
      /\ JobOn(mapped, ents, ino, uf[x])
  BY Before DEF Fids
<1>4. AtWork(uf[x]) /\ uf[x].job.k # "no"
  BY <1>1, <1>2 DEF AtWork
<1>5. job.path \in Seq(UNames) /\ uf[x].path \in Seq(UNames)
  BY <1>1, <1>3, JobKinds
<1>6. PICK i : i = job.ino
  OBVIOUS
<1>7. /\ uf[x].used /\ mapped /\ job.path # <<>> /\ i # None /\ FollowIn(ents, job.path) = i
      /\ ents[i] = NoEnts /\ (ino[i].kind = IF job.as = "dir" THEN "dir" ELSE "file")
      /\ (job.k = "lcreate" => uf[x].fd # None /\ uf[x].dir = None)
  BY <1>1, <1>3, <1>4, <1>6 DEF JobOn
<1>8. ents' = Unlink(Parent(job.path), Last(job.path))
  <2>1. Follow(job.path) = i
    BY <1>7, FollowIs
  <2>2. Empty(i) /\ ((ino[i].kind = "dir") <=> (job.as = "dir"))
    BY <1>7 DEF Empty
  <2>. QED  BY <1>2, <1>7, <2>1, <2>2 DEF Undone
<1>9. PICK v \in 0..MaxFds, q \in Seq(UNames) :
        v = CloseMade(x) /\ q = IF job.left = <<>> THEN job.path ELSE uf[x].path
  <2>1. CloseMade(x) \in 0..MaxFds
    BY <1>3, FidTypes DEF CloseMade, FidT
  <2>. QED  BY <1>5, <2>1
<1>10. /\ job.k = "lcreate" => v = None /\ uf[x].dir = None
       /\ job.k = "make" => v = uf[x].fd /\ q = uf[x].path
  BY <1>1, <1>2, <1>7, <1>9 DEF CloseMade
<1>. DEFINE f == [uf[x] EXCEPT !.fd = v, !.job = NoJob]
            g == [f EXCEPT !.path = q]
            u1 == [uf EXCEPT ![x] = f]
<1>11. /\ f \in FidT /\ f.used = uf[x].used /\ f.fd = v /\ f.dir = uf[x].dir /\ f.path = uf[x].path
       /\ f.isdir = uf[x].isdir /\ f.job = NoJob
  BY <1>3, FidTypes DEF FidT
<1>12. uf' = [uf EXCEPT ![x] = g]
  BY <1>2, <1>3, <1>9 DEF FidT
<1>. HIDE DEF f
<1>13. /\ g \in FidT /\ g.used = f.used /\ g.fd = v /\ g.dir = uf[x].dir /\ g.path = q
       /\ g.isdir = f.isdir /\ g.job = NoJob
  BY <1>11 DEF FidT
<1>. HIDE DEF g
<1>14. uf' \in [UFids -> FidT] /\ uf'[x] = g /\ Others(uf, uf', x)
  BY <1>3, <1>12, <1>13, OneFid
<1>15. u1 \in [UFids -> FidT] /\ u1[x] = f /\ Others(uf, u1, x)
  BY <1>3, <1>11 DEF Others
<1>. HIDE DEF u1
<1>16. /\ fds' \in [Fds -> 0..MaxInodes]
       /\ job.k = "make" => fds' = fds
       /\ job.k = "lcreate" => Closing(fds, fds', uf[x])
  <2>1. None \in 0..MaxInodes
    BY FidTypes
  <2>2. CASE job.k = "lcreate"
    <3>1. fds' = [fds EXCEPT ![uf[x].fd] = None]
      BY <1>2, <1>7, <2>2 DEF Close
    <3>2. \A d \in Fds : d \in HeldIn(uf[x]) <=> d = uf[x].fd
      BY <1>7, <2>2 DEF HeldIn
    <3>3. fds' \in [Fds -> 0..MaxInodes] /\ \A d \in Fds : fds'[d] = IF d = uf[x].fd THEN None ELSE fds[d]
      BY <1>3, <2>1, <3>1
    <3>. QED  BY <2>2, <3>2, <3>3 DEF Closing
  <2>3. CASE job.k = "make"
    BY <1>2, <1>3, <2>3
  <2>. QED  BY <1>2, <2>2, <2>3
<1>17. PICK T : T = {i}
  OBVIOUS
<1>18. Sound(mapped, ents, ino, fds', u1, T)
  <2>1. \/ /\ uf[x].job.k \in {"make", "set"} /\ fds' = fds
           /\ u1[x].fd = uf[x].fd /\ u1[x].dir = uf[x].dir
           /\ u1[x].path = uf[x].path /\ u1[x].isdir = uf[x].isdir
        \/ /\ uf[x].job.k = "lcreate" /\ Closing(fds, fds', uf[x])
           /\ u1[x].fd = None /\ u1[x].dir = None /\ u1[x].path = uf[x].path
    BY <1>1, <1>2, <1>10, <1>11, <1>15, <1>16
  <2>2. PICK E : E = {}
    OBVIOUS
  <2>3. E \subseteq T /\ uf[x].job.ino \in T /\ Sound(mapped, ents, ino, fds, uf, E)
    BY <1>1, <1>3, <1>6, <1>17, <2>2
  <2>4. uf[x].used /\ u1[x].used /\ uf[x].job.k # "no" /\ u1[x].job = NoJob
    BY <1>4, <1>7, <1>11, <1>15
  <2>5. Typed(ents, ino, fds, uf) /\ mapped \in BOOLEAN
    BY <1>3
  <2>. QED  BY <1>15, <1>16, <2>1, <2>3, <2>4, <2>5, JobEnds
<1>19. Vacant(u1, job.path)
  <2>1. ASSUME NEW y \in UFids, u1[y].used PROVE ~IsPrefix(job.path, u1[y].path)
    <3>1. uf[y].used /\ u1[y].path = uf[y].path
      BY <1>7, <1>11, <1>15, <2>1 DEF Others
    <3>2. ~IsPrefix(uf[x].job.path, uf[y].path)
      BY <1>3, <1>4, <3>1 DEF Apart
    <3>. QED  BY <1>1, <3>1, <3>2
  <2>2. ASSUME NEW y \in UFids, u1[y].job.k # "no" PROVE ~IsPrefix(job.path, u1[y].job.path)
    <3>1. y # x
      BY <1>11, <1>15, <2>2 DEF NoJob
    <3>2. u1[y] = uf[y]
      BY <1>15, <3>1 DEF Others
    <3>. QED  BY <1>1, <1>3, <1>4, <2>2, <3>1, <3>2 DEF Apart
  <2>. QED  BY <2>1, <2>2 DEF Vacant
<1>20. Typed(ents, ino, fds', u1)
  BY <1>3, <1>15, <1>16 DEF Typed
<1>21. ~IsOpen(fds', i)
  BY <1>3, <1>5, <1>7, <1>18, <1>19, <1>20, Unopened
<1>22. PICK es : es = ents'
  OBVIOUS
<1>23. /\ es \in [Inodes -> DirT] /\ Leaves(ents, u1, es, Front(job.path), Last(job.path))
       /\ Front(job.path) \in Seq(UNames) /\ Last(job.path) \in UNames /\ i \in Inodes
       /\ ents[FollowIn(ents, Front(job.path))][Last(job.path)] = i
  <2>1. es = Unlink(Parent(job.path), Last(job.path)) /\ i = FollowIn(ents, job.path)
    BY <1>7, <1>8, <1>22
  <2>. QED  BY <1>5, <1>7, <1>19, <2>1, LastGone
<1>24. Sound(mapped, es, ino, fds', u1, T) /\ ~Named(es, i)
  <2>1. /\ Sound(mapped, es, ino, fds', u1, T)
        /\ mapped => ~Named(es, ents[FollowIn(ents, Front(job.path))][Last(job.path)])
    BY <1>3, <1>18, <1>20, <1>23, NameGone
  <2>. QED  BY <1>7, <1>23, <2>1
<1>25. Typed(es, ino, fds', u1) /\ Typed(es, ino, fds', uf')
  BY <1>3, <1>14, <1>15, <1>16, <1>23 DEF Typed
<1>26. Sound(mapped, es, ino, fds', uf', T)
  <2>1. Others(u1, uf', x)
    BY <1>14, <1>15 DEF Others
  <2>2. \A y \in UFids : AtWork(u1[y]) => ~IsPrefix(u1[y].job.path, uf'[x].path)
    <3>1. ASSUME NEW y \in UFids, AtWork(u1[y]) PROVE ~IsPrefix(u1[y].job.path, q)
      <4>1. y # x
        BY <1>11, <1>15, <3>1 DEF AtWork, NoJob
      <4>2. u1[y] = uf[y]
        BY <1>15, <4>1 DEF Others
      <4>3. ~IsPrefix(uf[y].job.path, uf[x].path) /\ ~IsPrefix(uf[y].job.path, job.path)
        BY <1>1, <1>3, <1>4, <1>7, <3>1, <4>1, <4>2 DEF Apart
      <4>. QED  BY <1>9, <4>2, <4>3
    <3>. QED  BY <1>13, <1>14, <3>1
  <2>3. /\ u1[x].job = NoJob /\ uf'[x].job = NoJob /\ uf'[x].used
        /\ uf'[x].fd = u1[x].fd /\ uf'[x].dir = u1[x].dir
    BY <1>7, <1>11, <1>13, <1>14, <1>15
  <2>4. HeldIn(u1[x]) = {} \/ (uf'[x].path = u1[x].path /\ uf'[x].isdir = u1[x].isdir)
    <3>1. CASE job.k = "lcreate"
      BY <1>10, <1>11, <1>15, <3>1 DEF HeldIn
    <3>2. CASE job.k = "make"
      BY <1>10, <1>11, <1>13, <1>14, <1>15, <3>2
    <3>. QED  BY <1>2, <3>1, <3>2
  <2>. QED  BY <1>14, <1>24, <1>25, <2>1, <2>2, <2>3, <2>4, FidMoves
<1>27. \A j \in T : ~Named(es, j) /\ ~IsOpen(fds', j)
  BY <1>17, <1>21, <1>24
<1>28. PICK ds : ds = fds'
  OBVIOUS
<1>29. ino' = Gone(es, ds) /\ mapped' = mapped /\ calm' \in BOOLEAN
  BY <1>2, <1>22, <1>28
<1>. QED  BY <1>22, <1>25, <1>26, <1>27, <1>28, <1>29, AfterSweep

\* npfs_fiddestroy closes what the fid holds.
LEMMA FiddestroyIs ==
    ASSUME fds \in [Fds -> 0..MaxInodes], uf \in [UFids -> FidT], NEW x \in UFids
    PROVE  npfs_fiddestroy(fds, x) \in [Fds -> 0..MaxInodes] /\ Closing(fds, npfs_fiddestroy(fds, x), uf[x])
<1>1. None \in 0..MaxInodes /\ None \notin Fds
  BY FidTypes DEF None, Fds
<1>2. ASSUME NEW ds \in [Fds -> 0..MaxInodes], NEW v
      PROVE  Close(ds, v) \in [Fds -> 0..MaxInodes] /\ \A d \in Fds : Close(ds, v)[d] = IF d = v THEN None ELSE ds[d]
  BY <1>1 DEF Close
<1>3. PICK d1 : d1 = Close(fds, uf[x].fd)
  OBVIOUS
<1>4. d1 \in [Fds -> 0..MaxInodes] /\ \A d \in Fds : d1[d] = IF d = uf[x].fd THEN None ELSE fds[d]
  BY <1>2, <1>3
<1>5. PICK d2 : d2 = Close(d1, uf[x].dir)
  OBVIOUS
<1>6. d2 \in [Fds -> 0..MaxInodes] /\ \A d \in Fds : d2[d] = IF d = uf[x].dir THEN None ELSE d1[d]
  BY <1>2, <1>4, <1>5
<1>7. npfs_fiddestroy(fds, x) = d2
  BY <1>3, <1>5 DEF npfs_fiddestroy
<1>8. \A d \in Fds : d \in HeldIn(uf[x]) <=> d = uf[x].fd \/ d = uf[x].dir
  BY <1>1 DEF HeldIn
<1>9. Closing(fds, d2, uf[x])
  BY <1>4, <1>6, <1>8 DEF Closing
<1>. QED  BY <1>6, <1>7, <1>9

\* A fid goes with its descriptors.
LEMMA FidGone ==
    ASSUME UfsInv, calm, NEW x \in UFids, Ready(x), fds' = npfs_fiddestroy(fds, x), uf' = [uf EXCEPT ![x] = Unused]
    PROVE  /\ fds' \in [Fds -> 0..MaxInodes] /\ uf' \in [UFids -> FidT] /\ uf'[x] = Unused /\ Others(uf, uf', x)
           /\ Typed(ents, ino, fds', uf')
           /\ Sound(mapped, ents, ino, fds', uf', {})
<1>1. /\ uf \in [UFids -> FidT] /\ fds \in [Fds -> 0..MaxInodes] /\ mapped \in BOOLEAN
      /\ Typed(ents, ino, fds, uf) /\ Sound(mapped, ents, ino, fds, uf, {})
      /\ ents \in [Inodes -> DirT] /\ ino \in [Inodes -> InodeT]
      /\ uf[x].job = NoJob
  BY Before
<1>2. fds' \in [Fds -> 0..MaxInodes] /\ Closing(fds, fds', uf[x])
  BY <1>1, FiddestroyIs
<1>3. uf' \in [UFids -> FidT] /\ uf'[x] = Unused /\ Others(uf, uf', x)
  BY <1>1, FidTypes, OneFid
<1>4. Sound(mapped, ents, ino, fds', uf', {})
  BY <1>1, <1>2, <1>3, FidDropped
<1>. QED  BY <1>1, <1>2, <1>3, <1>4 DEF Typed

\* Tclunk.
LEMMA ClunkStep ==
    ASSUME UfsInv, calm, NEW x \in UFids, npfs_clunk(x)
    PROVE  UfsInv'
<1>1. /\ Ready(x) /\ fds' = npfs_fiddestroy(fds, x) /\ uf' = [uf EXCEPT ![x] = Unused]
      /\ ino' = Gone(ents, fds') /\ UNCHANGED <<mapped, calm, ents>>
  BY DEF npfs_clunk
<1>2. Typed(ents, ino, fds', uf') /\ Sound(mapped, ents, ino, fds', uf', {})
  BY <1>1, FidGone
<1>3. PICK ds, T : ds = fds' /\ T = {}
  OBVIOUS
<1>4. ino' = Gone(ents, ds) /\ mapped' = mapped /\ calm' \in BOOLEAN /\ ents = ents'
  BY <1>1, <1>3
<1>5. Typed(ents, ino, ds, uf') /\ Sound(mapped, ents, ino, ds, uf', T) /\ \A i \in T : ~Named(ents, i) /\ ~IsOpen(ds, i)
  BY <1>2, <1>3
<1>. QED  BY <1>3, <1>4, <1>5, AfterSweep

\* A path that nobody else uses is vacant when the fid on it is gone.
LEMMA GoneVacant ==
    ASSUME UfsInv, calm, NEW x \in UFids, NEW p, ~InUse(x, p), uf' \in [UFids -> FidT],
           uf'[x] = Unused, Others(uf, uf', x)
    PROVE  Vacant(uf', p)
<1>1. ASSUME NEW y \in UFids, uf'[y].used PROVE ~IsPrefix(p, uf'[y].path)
  <2>1. y # x
    BY <1>1, FidTypes
  <2>. QED  BY <1>1, <2>1 DEF Others, InUse
<1>2. ASSUME NEW y \in UFids, uf'[y].job.k # "no" PROVE ~IsPrefix(p, uf'[y].job.path)
  <2>1. y # x /\ uf'[y].job # NoJob
    BY <1>2, FidTypes DEF NoJob
  <2>. QED  BY <1>2, <2>1 DEF Others, InUse
<1>. QED  BY <1>1, <1>2 DEF Vacant

\* Tremove.
LEMMA RemoveStep ==
    ASSUME UfsInv, calm, NEW x \in UFids, npfs_remove(x)
    PROVE  UfsInv'
<1>1. PICK p : p = uf[x].path
  OBVIOUS
<1>2. /\ Ready(x) /\ p # <<>> /\ Follow(p) # None /\ Empty(Follow(p)) /\ calm' = ~InUse(x, p)
      /\ fds' = npfs_fiddestroy(fds, x) /\ uf' = [uf EXCEPT ![x] = Unused]
      /\ ents' = Unlink(Parent(p), Last(p)) /\ ino' = Gone(ents', fds') /\ UNCHANGED mapped
  BY <1>1 DEF npfs_remove, Removable, Calm
<1>3. /\ fds' \in [Fds -> 0..MaxInodes] /\ uf' \in [UFids -> FidT] /\ uf'[x] = Unused /\ Others(uf, uf', x)
      /\ Typed(ents, ino, fds', uf')
      /\ Sound(mapped, ents, ino, fds', uf', {})
  BY <1>2, FidGone
<1>4. p \in Seq(UNames) /\ ents \in [Inodes -> DirT] /\ ino \in [Inodes -> InodeT] /\ mapped \in BOOLEAN
  BY <1>1, Before
<1>5. PICK i : i = FollowIn(ents, p)
  OBVIOUS
<1>6. i # None /\ ents[i] = NoEnts
  <2>1. Follow(p) = i
    BY <1>5, FollowIs
  <2>. QED  BY <1>2, <2>1 DEF Empty
<1>7. PICK es, ds, T : es = ents' /\ ds = fds' /\ T = {}
  OBVIOUS
<1>8. es = Unlink(Parent(p), Last(p))
  BY <1>2, <1>7
<1>9. calm' => Vacant(uf', p)
  BY <1>2, <1>3, GoneVacant
<1>10. es \in [Inodes -> DirT]
  <2>1. Front(p) \in Seq(UNames) /\ Last(p) \in UNames /\ FollowIn(ents, Front(p)) # None
    BY <1>2, <1>4, <1>5, <1>6, LastStep
  <2>2. Parent(p) = FollowIn(ents, Front(p))
    BY FollowIs DEF Parent
  <2>3. PICK q \in Seq(UNames), n \in UNames : q = Front(p) /\ n = Last(p)
    BY <2>1
  <2>4. PICK d : d = Parent(p)
    OBVIOUS
  <2>5. d = FollowIn(ents, q) /\ d # None /\ es = Unlink(d, n)
    BY <1>8, <2>1, <2>2, <2>3, <2>4
  <2>. QED  BY <2>5, UnlinkIs
<1>11. ASSUME calm' PROVE Sound(mapped, es, ino, ds, uf', T)
  <2>1. Vacant(uf', p)
    BY <1>9, <1>11
  <2>2. /\ Leaves(ents, uf', es, Front(p), Last(p)) /\ Front(p) \in Seq(UNames) /\ Last(p) \in UNames
    BY <1>2, <1>4, <1>5, <1>6, <1>8, <2>1, LastGone
  <2>3. Typed(ents, ino, ds, uf') /\ Sound(mapped, ents, ino, ds, uf', T)
    BY <1>3, <1>7
  <2>. QED  BY <1>4, <1>10, <2>2, <2>3, NameGone
<1>12. Typed(es, ino, ds, uf')
  BY <1>3, <1>4, <1>7, <1>10 DEF Typed
<1>13. calm' => Sound(mapped, es, ino, ds, uf', T) /\ \A j \in T : ~Named(es, j) /\ ~IsOpen(ds, j)
  BY <1>7, <1>11
<1>14. ino' = Gone(es, ds) /\ mapped' = mapped /\ calm' \in BOOLEAN
  BY <1>2, <1>7 DEF InUse
<1>. QED  BY <1>7, <1>12, <1>13, <1>14, AfterSweep

\* A step that the clients are not calm in.
LEMMA NotCalm ==
    ASSUME UfsInv, calm, NEW x \in UFids, ~calm', calm' \in BOOLEAN, UNCHANGED <<mapped, ents, ino, fds>>,
           NEW f \in FidT, uf' = [uf EXCEPT ![x] = f]
    PROVE  UfsInv'
<1>1. uf' \in [UFids -> FidT]
  BY Before, OneFid
<1>. QED  BY <1>1, AfterFids

\* Tcreate is refused.
LEMMA NotCreatedStep ==
    ASSUME UfsInv, calm, NEW x \in UFids, NotCreated(x)
    PROVE  UfsInv'
<1>1. calm' = FALSE /\ uf' = [uf EXCEPT ![x].fd = None] /\ UNCHANGED <<mapped, ents, ino, fds>>
  BY DEF NotCreated, Calm
<1>. DEFINE f == [uf[x] EXCEPT !.fd = None]
<1>2. uf[x] \in FidT
  BY Before
<1>3. f \in FidT
  BY <1>2, FidTypes DEF FidT
<1>4. uf' = [uf EXCEPT ![x] = f]
  BY <1>1
<1>. HIDE DEF f
<1>. QED  BY <1>1, <1>3, <1>4, NotCalm

\* Treaddir through the descriptor of Tunlinkat.
LEMMA ReaddirStep ==
    ASSUME UfsInv, calm, NEW x \in UFids, npfs_readdir(x)
    PROVE  UfsInv'
<1>1. calm' = FALSE /\ uf' = [uf EXCEPT ![x].dir = uf[x].fd] /\ UNCHANGED <<mapped, ents, ino, fds>>
  BY DEF npfs_readdir, Calm
<1>. DEFINE f == [uf[x] EXCEPT !.dir = uf[x].fd]
<1>2. uf[x] \in FidT
  BY Before
<1>3. f \in FidT
  BY <1>2 DEF FidT
<1>4. uf' = [uf EXCEPT ![x] = f]
  BY <1>1
<1>. HIDE DEF f
<1>. QED  BY <1>1, <1>3, <1>4, NotCalm

\* Tunlinkat opens the directory of the fid, and the name is looked up there.
LEMMA UnlinkatStep ==
    ASSUME UfsInv, calm, NEW x \in UFids, NEW n \in UNames, npfs_unlinkat(x, n)
    PROVE  UfsInv'
<1>1. PICK d : d = IF uf[x].fd # None THEN uf[x].fd ELSE Least(FreeFds)
  OBVIOUS
<1>2. PICK i : i = IF uf[x].fd # None THEN fds[uf[x].fd] ELSE Follow(uf[x].path)
  OBVIOUS
<1>3. PICK p : p = uf[x].path
  OBVIOUS
<1>4. PICK es, ds, T : es = ents' /\ ds = fds' /\ T = {}
  OBVIOUS
<1>5. /\ Ready(x) /\ uf[x].isdir /\ (uf[x].fd = None => FreeFds # {} /\ Follow(p) # None)
      /\ calm' = ~InUse(x, ufs_join(p, n)) /\ ds = [fds EXCEPT ![d] = i]
      /\ es = IF i # None /\ ents[i][n] # None /\ ents[ents[i][n]] = NoEnts THEN Unlink(i, n) ELSE ents
      /\ ino' = Gone(es, ds) /\ uf' = [uf EXCEPT ![x].fd = d] /\ UNCHANGED mapped
  BY <1>1, <1>2, <1>3, <1>4 DEF npfs_unlinkat, InDir, Calm, Empty
<1>6. /\ uf \in [UFids -> FidT] /\ uf[x] \in FidT /\ fds \in [Fds -> 0..MaxInodes] /\ mapped \in BOOLEAN
      /\ ents \in [Inodes -> DirT] /\ ino \in [Inodes -> InodeT]
      /\ Typed(ents, ino, fds, uf) /\ Sound(mapped, ents, ino, fds, uf, {})
      /\ Tree(mapped, ents, ino) /\ Fids(mapped, ents, ino, fds, uf)
  BY Before
<1>7. uf[x].used /\ uf[x].job = NoJob /\ p \in Seq(UNames)
  BY <1>3, <1>5, Before
<1>8. calm' = ~InUse(x, Append(p, n)) /\ calm' \in BOOLEAN
  BY <1>5 DEF ufs_join, InUse
<1>. DEFINE f == [uf[x] EXCEPT !.fd = d]
<1>9. uf' = [uf EXCEPT ![x] = f]
  BY <1>5
<1>10. d \in 0..MaxFds /\ d \in Fds /\ d # None
  <2>1. CASE uf[x].fd = None
    BY <1>1, <1>5, <2>1, FreeOnes
  <2>2. CASE uf[x].fd # None
    <3>1. d = uf[x].fd /\ d \in 0..MaxFds
      BY <1>1, <1>6, <2>2 DEF FidT
    <3>2. d \in Fds
      BY <2>2, <3>1 DEF Fds, None
    <3>. QED  BY <2>2, <3>1, <3>2
  <2>. QED  BY <2>1, <2>2
<1>11. /\ f \in FidT /\ f.used = uf[x].used /\ f.path = p /\ f.isdir = uf[x].isdir
       /\ f.fd = d /\ f.dir = uf[x].dir /\ f.job = uf[x].job
  BY <1>3, <1>6, <1>10 DEF FidT
<1>. HIDE DEF f
<1>12. uf' \in [UFids -> FidT] /\ uf'[x] = f /\ Others(uf, uf', x)
  BY <1>6, <1>9, <1>11, OneFid
<1>13. /\ i \in Inodes /\ ds \in [Fds -> 0..MaxInodes]
       /\ i = FollowIn(ents, p) \/ (~mapped /\ ino[i].kind # "dir")
       /\ Sound(mapped, ents, ino, ds, uf', {})
  <2>1. CASE uf[x].fd # None
    <3>1. d = uf[x].fd /\ i = fds[d]
      BY <1>1, <1>2, <2>1
    <3>2. d \in HeldIn(uf[x])
      BY <1>10, <3>1 DEF HeldIn
    <3>3. Descs(ino, fds, uf)
      BY <1>6 DEF Sound
    <3>4. i # None /\ i \in 0..MaxInodes
      BY <1>6, <1>10, <3>1, <3>2, <3>3 DEF Descs
    <3>5. i \in Inodes
      BY <3>4 DEF Inodes, None
    <3>6. OnFile(mapped, ents, ino, fds, uf[x])
      BY <1>6 DEF Fids
    <3>7. i = FollowIn(ents, p) \/ (~mapped /\ ino[i].kind # "dir")
      BY <1>3, <1>7, <3>1, <3>2, <3>6 DEF OnFile, NoJob
    <3>8. ds = fds
      BY <1>5, <1>6, <1>10, <3>1
    <3>9. uf' = uf
      <4>1. f = uf[x]
        BY <1>6, <3>1 DEF f, FidT
      <4>. QED  BY <1>6, <1>9, <4>1
    <3>. QED  BY <1>6, <3>5, <3>7, <3>8, <3>9
  <2>2. CASE uf[x].fd = None
    <3>1. d = Least(FreeFds) /\ i = FollowIn(ents, p) /\ i # None
      BY <1>1, <1>2, <1>3, <1>5, <2>2, FollowIs
    <3>2. fds[d] = None
      BY <1>5, <2>2, <3>1, FreeOnes
    <3>3. i \in Inodes /\ ino[i].kind # "none"
      BY <1>6, <1>7, <3>1, PathLive
    <3>4. i \in 0..MaxInodes
      BY <3>3 DEF Inodes
    <3>5. ds \in [Fds -> 0..MaxInodes] /\ Opening(fds, ds, d, i)
      <4>1. fds' = [fds EXCEPT ![d] = i]
        BY <1>4, <1>5
      <4>2. fds' \in [Fds -> 0..MaxInodes] /\ Opening(fds, fds', d, i)
        BY <1>6, <1>10, <3>2, <3>4, <4>1, DescMade
      <4>. QED  BY <1>4, <4>2
    <3>6. Takes(uf[x], uf'[x], d)
      BY <1>11, <1>12, <2>2 DEF Takes
    <3>7. /\ uf[x].used /\ uf'[x].used /\ uf[x].job = NoJob /\ uf'[x].job = NoJob
          /\ uf'[x].path = uf[x].path /\ uf'[x].isdir = uf[x].isdir
      BY <1>3, <1>7, <1>11, <1>12
    <3>8. i = FollowIn(ents, uf[x].path) \/ (~mapped /\ uf[x].isdir /\ ino[i].kind # "dir")
      BY <1>3, <3>1
    <3>9. Sound(mapped, ents, ino, ds, uf', {})
      BY <1>6, <1>10, <1>12, <3>3, <3>5, <3>6, <3>7, <3>8, FidOpens
    <3>. QED  BY <3>1, <3>3, <3>5, <3>9
  <2>. QED  BY <2>1, <2>2
<1>14. Typed(ents, ino, ds, uf')
  BY <1>6, <1>12, <1>13 DEF Typed
<1>15. CASE i # None /\ ents[i][n] # None /\ ents[ents[i][n]] = NoEnts
  <2>1. es = Unlink(i, n)
    BY <1>5, <1>15
  <2>2. ino[i].kind = "dir"
    BY <1>6, <1>13, <1>15 DEF Tree
  <2>3. i = FollowIn(ents, p)
    BY <1>13, <2>2
  <2>4. es \in [Inodes -> DirT] /\ Rewritten(ents, es, i, n, None)
    BY <1>7, <1>15, <2>1, <2>3, UnlinkIs
  <2>5. ASSUME calm' PROVE Sound(mapped, es, ino, ds, uf', T)
    <3>1. Vacant(uf, Append(p, n))
      BY <1>3, <1>5, <1>8, <2>5, NewVacant
    <3>2. Vacant(uf', Append(p, n))
      <4>1. \A y \in UFids : uf'[y].used = uf[y].used /\ uf'[y].path = uf[y].path /\ uf'[y].job = uf[y].job
        BY <1>3, <1>11, <1>12 DEF Others
      <4>. QED  BY <3>1, <4>1 DEF Vacant
    <3>3. Leaves(ents, uf', es, p, n)
      BY <1>15, <2>3, <2>4, <3>2 DEF Leaves
    <3>4. Sound(mapped, ents, ino, ds, uf', T) /\ mapped \in BOOLEAN
      BY <1>4, <1>6, <1>13
    <3>. QED  BY <1>7, <1>14, <2>4, <3>3, <3>4, NameGone
  <2>6. Typed(es, ino, ds, uf')
    BY <1>6, <1>12, <1>13, <2>4 DEF Typed
  <2>7. calm' => Sound(mapped, es, ino, ds, uf', T) /\ \A j \in T : ~Named(es, j) /\ ~IsOpen(ds, j)
    BY <1>4, <2>5
  <2>. QED  BY <1>4, <1>5, <1>8, <2>6, <2>7, AfterSweep
<1>16. CASE ~(i # None /\ ents[i][n] # None /\ ents[ents[i][n]] = NoEnts)
  <2>1. es = ents
    BY <1>5, <1>16
  <2>2. Typed(es, ino, ds, uf')
    BY <1>14, <2>1
  <2>3. calm' => Sound(mapped, es, ino, ds, uf', T) /\ \A j \in T : ~Named(es, j) /\ ~IsOpen(ds, j)
    BY <1>4, <1>13, <2>1
  <2>. QED  BY <1>4, <1>5, <1>8, <2>2, <2>3, AfterSweep
<1>. QED  BY <1>15, <1>16

\* What the host renames.
LEMMA RenameIs ==
    ASSUME UfsInv, calm, NEW from \in Seq(UNames), NEW to \in Seq(UNames), MayRename(from, to),
           NEW es, es = Renamed(from, to)
    PROVE  es \in [Inodes -> DirT] /\ MayMove(ents, ino, from, to) /\ MovedTo(ents, es, from, to)
<1>1. ents \in [Inodes -> DirT] /\ None \in 0..MaxInodes
  BY Before, FidTypes
<1>2. /\ Follow(from) = FollowIn(ents, from) /\ Follow(to) = FollowIn(ents, to)
      /\ Parent(from) = FollowIn(ents, Front(from)) /\ Parent(to) = FollowIn(ents, Front(to))
  BY FollowIs DEF Parent
<1>3. MayMove(ents, ino, from, to)
  BY <1>2 DEF MayRename, MayMove, IsDir, Empty
<1>4. to # <<>>
  <2>1. ~IsPrefix(to, from)
    BY <1>3 DEF MayMove
  <2>. QED  BY <2>1, RootPrefix
<1>5. PICK d, e, v : d = Parent(from) /\ e = Parent(to) /\ v = Follow(from)
  OBVIOUS
<1>6. d \in Inodes /\ v \in Inodes /\ v \in 0..MaxInodes
  <2>1. from # <<>> /\ FollowIn(ents, from) # None
    BY <1>3 DEF MayMove
  <2>2. FollowIn(ents, from) \in Inodes /\ FollowIn(ents, Front(from)) \in Inodes
    BY <1>1, <2>1, LastStep
  <2>. QED  BY <1>2, <1>5, <2>2 DEF Inodes
<1>7. Front(to) \in Seq(UNames) /\ Last(to) \in UNames /\ Last(from) \in UNames
  BY <1>3, <1>4, PathParts DEF MayMove
<1>8. e \in Inodes
  <2>1. FollowIn(ents, Front(to)) # None
    BY <1>3 DEF MayMove, IsDir
  <2>. QED  BY <1>1, <1>2, <1>5, <1>7, <2>1, FollowType
<1>9. PICK n \in UNames, m \in UNames : n = Last(from) /\ m = Last(to)
  BY <1>7
<1>10. CASE Follow(from) = Follow(to)
  BY <1>1, <1>2, <1>3, <1>10 DEF Renamed, MovedTo
<1>11. CASE Follow(from) # Follow(to)
  <2>1. PICK es1 : es1 = [ents EXCEPT ![d][n] = None]
    OBVIOUS
  <2>2. es1 \in [Inodes -> DirT] /\ Rewritten(ents, es1, d, n, None)
    BY <1>1, <1>6, <2>1, RewrittenIs
  <2>3. es = [es1 EXCEPT ![e][m] = v]
    BY <1>5, <1>9, <1>11, <2>1 DEF Renamed
  <2>4. es \in [Inodes -> DirT] /\ Rewritten(es1, es, e, m, v)
    <3>1. e \in Inodes /\ v \in 0..MaxInodes /\ es1 \in [Inodes -> DirT]
      BY <1>6, <1>8, <2>2
    <3>2. /\ [es1 EXCEPT ![e][m] = v] \in [Inodes -> DirT]
          /\ Rewritten(es1, [es1 EXCEPT ![e][m] = v], e, m, v)
      BY <3>1, RewrittenIs
    <3>. QED  BY <2>3, <3>2
  <2>5. MovedTo(ents, es, from, to)
    <3>1. /\ Rewritten(ents, es1, FollowIn(ents, Front(from)), Last(from), None)
          /\ Rewritten(es1, es, FollowIn(ents, Front(to)), Last(to), FollowIn(ents, from))
          /\ FollowIn(ents, from) # FollowIn(ents, to)
      BY <1>2, <1>5, <1>9, <1>11, <2>2, <2>4
    <3>. QED  BY <2>2, <3>1 DEF MovedTo
  <2>. QED  BY <1>3, <2>4, <2>5
<1>. QED  BY <1>10, <1>11

\* A rename is sound when nobody but the fid that is renamed stands on either path.
LEMMA RenameDone ==
    ASSUME UfsInv, calm, mapped' = mapped, fds' = fds, calm' \in BOOLEAN,
           NEW from \in Seq(UNames), NEW to \in Seq(UNames), MayRename(from, to),
           ents' = Renamed(from, to), ino' = Gone(ents', fds),
           uf' \in [UFids -> FidT], calm' => Moves(uf, uf', from, to)
    PROVE  UfsInv'
<1>1. PICK es, ds, T : es = ents' /\ ds = fds' /\ T = {}
  OBVIOUS
<1>2. es \in [Inodes -> DirT] /\ MayMove(ents, ino, from, to) /\ MovedTo(ents, es, from, to)
  <2>1. es = Renamed(from, to)
    BY <1>1
  <2>. QED  BY <2>1, RenameIs
<1>3. /\ Typed(ents, ino, ds, uf) /\ Sound(mapped, ents, ino, ds, uf, T) /\ mapped \in BOOLEAN
      /\ ino \in [Inodes -> InodeT] /\ ds \in [Fds -> 0..MaxInodes]
  BY <1>1, Before
<1>4. ASSUME calm' PROVE Sound(mapped, es, ino, ds, uf', T)
  <2>1. Moves(uf, uf', from, to)
    BY <1>4
  <2>. QED  BY <1>2, <1>3, <2>1, NameMoved
<1>5. Typed(es, ino, ds, uf')
  BY <1>2, <1>3 DEF Typed
<1>6. calm' => Sound(mapped, es, ino, ds, uf', T) /\ \A j \in T : ~Named(es, j) /\ ~IsOpen(ds, j)
  BY <1>1, <1>4
<1>7. ino' = Gone(es, ds)
  BY <1>1
<1>. QED  BY <1>1, <1>5, <1>6, <1>7, AfterSweep

\* Trename and Twstat: the fid moves with its file.
LEMMA RenameStep ==
    ASSUME UfsInv, calm, NEW x \in UFids, NEW q \in Seq(UNames), NEW n \in UNames, NEW to, to = Append(q, n),
           \A y \in UFids : AtWork(uf[y]) => ~IsPrefix(uf[y].job.path, q),
           Rename(x, to)
    PROVE  UfsInv'
<1>1. PICK from : from = uf[x].path
  OBVIOUS
<1>2. /\ Ready(x) /\ MayRename(from, to) /\ calm' = (~InUse(x, from) /\ ~InUse(x, to))
      /\ ents' = Renamed(from, to) /\ ino' = Gone(ents', fds) /\ uf' = [uf EXCEPT ![x].path = to]
      /\ UNCHANGED <<mapped, fds>>
  BY <1>1 DEF Rename, Calm
<1>3. uf \in [UFids -> FidT] /\ uf[x] \in FidT /\ uf[x].used /\ uf[x].job = NoJob /\ from \in Seq(UNames)
  BY <1>1, <1>2, Before
<1>4. to \in Seq(UNames) /\ Front(to) = q
  BY AppendParts
<1>. DEFINE f == [uf[x] EXCEPT !.path = to]
<1>5. /\ f \in FidT /\ f.used = uf[x].used /\ f.isdir = uf[x].isdir /\ f.job = uf[x].job
      /\ f.fd = uf[x].fd /\ f.dir = uf[x].dir /\ f.path = to
  BY <1>3, <1>4 DEF FidT
<1>6. uf' = [uf EXCEPT ![x] = f]
  BY <1>2
<1>. HIDE DEF f
<1>7. uf' \in [UFids -> FidT] /\ uf'[x] = f /\ Others(uf, uf', x)
  BY <1>3, <1>5, <1>6, OneFid
<1>8. ASSUME calm' PROVE Moves(uf, uf', from, to)
  <2>1. ASSUME NEW y \in UFids
        PROVE  /\ uf'[y].job = uf[y].job /\ uf'[y].used = uf[y].used /\ uf'[y].isdir = uf[y].isdir
               /\ uf'[y].fd = uf[y].fd /\ uf'[y].dir = uf[y].dir
               /\ ~uf[y].used => uf'[y] = uf[y]
               /\ uf[y].used => \/ uf[y].path = from /\ uf'[y].path = to
                                \/ uf'[y].path = uf[y].path /\ ~IsPrefix(from, uf[y].path) /\ ~IsPrefix(to, uf[y].path)
               /\ uf[y].job.k # "no" => ~IsPrefix(from, uf[y].job.path) /\ ~IsPrefix(to, uf[y].job.path)
    <3>1. CASE y = x
      <4>1. uf[y].job.k = "no"
        BY <1>3, <3>1 DEF NoJob
      <4>. QED  BY <1>1, <1>3, <1>5, <1>7, <3>1, <4>1
    <3>2. CASE y # x
      <4>1. uf'[y] = uf[y]
        BY <1>7, <3>2 DEF Others
      <4>2. uf[y].used => ~IsPrefix(from, uf[y].path) /\ ~IsPrefix(to, uf[y].path)
        BY <1>2, <1>8, <3>2 DEF InUse
      <4>3. uf[y].job # NoJob => ~IsPrefix(from, uf[y].job.path) /\ ~IsPrefix(to, uf[y].job.path)
        BY <1>2, <1>8, <3>2 DEF InUse
      <4>4. uf[y].job.k # "no" => uf[y].job # NoJob
        BY DEF NoJob
      <4>. QED  BY <4>1, <4>2, <4>3, <4>4
    <3>. QED  BY <3>1, <3>2
  <2>2. \A y \in UFids : AtWork(uf[y]) => ~IsPrefix(uf[y].job.path, Front(to))
    BY <1>4
  <2>. QED  BY <2>1, <2>2 DEF Moves
<1>9. calm' \in BOOLEAN
  BY <1>2 DEF InUse
<1>. QED  BY <1>2, <1>3, <1>4, <1>7, <1>8, <1>9, RenameDone

\* Into the directory of another fid.
LEMMA RenameInto ==
    ASSUME UfsInv, calm, NEW x \in UFids, NEW y \in UFids, NEW n \in UNames, npfs_rename(x, y, n)
    PROVE  UfsInv'
<1>1. PICK q, to : q = uf[y].path /\ to = Append(q, n)
  OBVIOUS
<1>2. Ready(y) /\ Rename(x, to)
  BY <1>1 DEF npfs_rename, ufs_join
<1>3. q \in Seq(UNames) /\ uf[y].used
  BY <1>1, <1>2, Before
<1>4. \A z \in UFids : AtWork(uf[z]) => ~IsPrefix(uf[z].job.path, q)
  BY <1>1, <1>3, PathFree
<1>. QED  BY <1>1, <1>2, <1>3, <1>4, RenameStep

\* In its own directory.
LEMMA WstatStep ==
    ASSUME UfsInv, calm, NEW x \in UFids, NEW n \in UNames, npfs_wstat(x, n)
    PROVE  UfsInv'
<1>1. PICK q, to : q = Front(uf[x].path) /\ to = Append(q, n)
  OBVIOUS
<1>2. ~mapped /\ uf[x].path # <<>> /\ Rename(x, to)
  BY <1>1 DEF npfs_wstat, ufs_join
<1>3. q \in Seq(UNames)
  <2>1. uf[x].path \in Seq(UNames)
    BY Before
  <2>. QED  BY <1>1, <1>2, <2>1, PathParts
<1>4. \A z \in UFids : AtWork(uf[z]) => ~IsPrefix(uf[z].job.path, q)
  BY <1>2, NoWork
<1>. QED  BY <1>1, <1>2, <1>3, <1>4, RenameStep

\* Trenameat.
LEMMA RenameatStep ==
    ASSUME UfsInv, calm, NEW x \in UFids, NEW n \in UNames, NEW y \in UFids, NEW m \in UNames, npfs_renameat(x, n, y, m)
    PROVE  UfsInv'
<1>1. PICK from, to : from = ufs_join(uf[x].path, n) /\ to = ufs_join(uf[y].path, m)
  OBVIOUS
<1>2. PICK users : users = {z \in UFids : uf[z].used /\ (IsPrefix(from, uf[z].path) \/ IsPrefix(to, uf[z].path))}
  OBVIOUS
<1>3. /\ Ready(x) /\ Ready(y) /\ MayRename(from, to)
      /\ calm' = (users = {} /\ ~InUse(x, from) /\ ~InUse(y, to))
      /\ ents' = Renamed(from, to) /\ ino' = Gone(ents', fds) /\ UNCHANGED <<mapped, fds, uf>>
  BY <1>1, <1>2 DEF npfs_renameat, InDir, Calm
<1>4. /\ uf[x].path \in Seq(UNames) /\ uf[y].path \in Seq(UNames) /\ uf[y].used /\ uf[x].job = NoJob /\ uf[y].job = NoJob
      /\ uf \in [UFids -> FidT]
  BY <1>3, Before
<1>5. from = Append(uf[x].path, n) /\ to = Append(uf[y].path, m)
  BY <1>1 DEF ufs_join
<1>6. from \in Seq(UNames) /\ to \in Seq(UNames) /\ Front(to) = uf[y].path
  BY <1>4, <1>5, AppendParts
<1>7. ASSUME calm' PROVE Moves(uf, uf', from, to)
  <2>1. \A z \in UFids : uf[z].used => ~IsPrefix(from, uf[z].path) /\ ~IsPrefix(to, uf[z].path)
    BY <1>2, <1>3, <1>7
  <2>2. ASSUME NEW z \in UFids, uf[z].job.k # "no"
        PROVE  ~IsPrefix(from, uf[z].job.path) /\ ~IsPrefix(to, uf[z].job.path)
    <3>1. uf[z].job # NoJob
      BY <2>2 DEF NoJob
    <3>2. z # x /\ z # y
      BY <1>4, <3>1
    <3>. QED  BY <1>3, <1>7, <3>1, <3>2 DEF InUse
  <2>3. \A z \in UFids : AtWork(uf[z]) => ~IsPrefix(uf[z].job.path, Front(to))
    BY <1>4, <1>6, PathFree
  <2>4. uf' = uf
    BY <1>3
  <2>. QED  BY <2>1, <2>2, <2>3, <2>4 DEF Moves
<1>8. calm' \in BOOLEAN
  BY <1>3 DEF InUse
<1>. QED  BY <1>3, <1>4, <1>6, <1>7, <1>8, RenameDone

\* The connection is restored: every fid that is used as what its record told, and
\* those that were open with a descriptor of their own.
Restores(d) ==
    /\ d \in [UFids -> Fds]
    /\ \A x, y \in UFids : x # y => d[x] # d[y]
    /\ fds' = [e \in Fds |-> IF \E x \in Reopened : d[x] = e
                             THEN Follow(uf[CHOOSE x \in Reopened : d[x] = e].path) ELSE None]
    /\ uf' = [x \in UFids |-> IF ~uf[x].used THEN uf[x] ELSE Restored(Recalled(uf[x]), d[x])]
    /\ ino' = Gone(ents, fds')
    /\ UNCHANGED <<mapped, calm, ents>>

\* That is what ufs_restore does.
LEMMA RestoreIs ==
    ASSUME uf \in [UFids -> FidT], ufs_restore
    PROVE  /\ \A x \in UFids : uf[x].used => Ready(x) /\ fidstat(x) # "error"
           /\ \E d : Restores(d)
<1>1. /\ \A x \in UFids : uf[x].used => Ready(x) /\ fidstat(x) # "error"
      /\ ino' = Gone(ents, fds')
      /\ UNCHANGED <<mapped, calm, ents>>
  BY DEF ufs_restore
<1>2. PICK b, d :
        /\ b = ReadAgain(UsedFids) /\ d \in [UFids -> Fds]
        /\ \A x, y \in UFids : x # y => d[x] # d[y]
        /\ fds' = [e \in Fds |-> IF \E x \in Reopened : d[x] = e
                                 THEN Follow(uf[CHOOSE x \in Reopened : d[x] = e].path) ELSE None]
        /\ uf' = [x \in UFids |-> IF ~uf[x].used THEN uf[x]
                                  ELSE LET i == CHOOSE k \in DOMAIN UsedFids : UsedFids[k] = x IN
                                       Restored(Unpacked(b.got, i), d[x])]
  BY DEF ufs_restore
<1>3. \A x \in UFids : uf[x].used =>
        (LET i == CHOOSE k \in DOMAIN UsedFids : UsedFids[k] = x IN
         Restored(Unpacked(ReadAgain(UsedFids).got, i), d[x])) = Restored(Recalled(uf[x]), d[x])
  BY FidsRestored
<1>4. uf' = [x \in UFids |-> IF ~uf[x].used THEN uf[x] ELSE Restored(Recalled(uf[x]), d[x])]
  BY <1>2, <1>3
<1>5. Restores(d)
  BY <1>1, <1>2, <1>4 DEF Restores
<1>. QED  BY <1>1, <1>5

\* A fid that is opened again.
LEMMA RestoredIs ==
    ASSUME NEW f \in FidT, f.used, NEW d \in Fds
    PROVE  /\ Restored(Recalled(f), d) \in FidT
           /\ Restored(Recalled(f), d).used /\ Restored(Recalled(f), d).path = f.path
           /\ Restored(Recalled(f), d).omode = f.omode /\ Restored(Recalled(f), d).xa = f.xa
           /\ Restored(Recalled(f), d).job = NoJob
           /\ Restored(Recalled(f), d).fd = IF f.omode # "no" /\ ufs_lstat(f.path) # "dir" THEN d ELSE None
           /\ Restored(Recalled(f), d).dir = IF f.omode # "no" /\ ufs_lstat(f.path) = "dir" THEN d ELSE None
<1>1. PICK g : g = Recalled(f)
  OBVIOUS
<1>2. /\ g \in FidT /\ g.used /\ g.path = f.path /\ g.omode = f.omode /\ g.xa = f.xa
      /\ g.job = NoJob /\ g.fd = None /\ g.dir = None
  <2>1. f.path \in Seq(UNames)
    BY JobKinds
  <2>2. UfsFid(f.path) \in FidT
    BY <2>1, FidTypes
  <2>3. g \in FidT
    BY <1>1, <2>2 DEF Recalled, FidT
  <2>. QED  BY <1>1, <2>3 DEF Recalled, UfsFid
<1>3. d \in 0..MaxFds
  BY DEF Fds
<1>4. Restored(g, d) \in FidT
  BY <1>2, <1>3 DEF Restored, FidT
<1>. QED  BY <1>1, <1>2, <1>4 DEF Restored, FidT

\* The fids and the descriptors of a restored connection.
LEMMA RestoredFids ==
    ASSUME UfsInv, calm, NEW d, Restores(d)
    PROVE  /\ uf' \in [UFids -> FidT] /\ fds' \in [Fds -> 0..MaxInodes]
           /\ Reborn(ents, fds', uf, uf', d)
<1>1. /\ d \in [UFids -> Fds]
      /\ \A x, y \in UFids : x # y => d[x] # d[y]
      /\ fds' = [e \in Fds |-> IF \E x \in Reopened : d[x] = e
                               THEN Follow(uf[CHOOSE x \in Reopened : d[x] = e].path) ELSE None]
      /\ uf' = [x \in UFids |-> IF ~uf[x].used THEN uf[x] ELSE Restored(Recalled(uf[x]), d[x])]
  BY DEF Restores
<1>2. uf \in [UFids -> FidT] /\ ents \in [Inodes -> DirT] /\ \A x \in UFids : uf[x] \in FidT /\ uf[x].path \in Seq(UNames)
  BY Before
<1>3. None \in 0..MaxInodes /\ None \notin Fds
  BY FidTypes DEF None, Fds
<1>4. ASSUME NEW x \in UFids, uf[x].used
      PROVE  /\ uf'[x] \in FidT /\ uf'[x].used /\ uf'[x].path = uf[x].path /\ uf'[x].job = NoJob
             /\ uf'[x].fd = IF uf[x].omode # "no" /\ ufs_lstat(uf[x].path) # "dir" THEN d[x] ELSE None
             /\ uf'[x].dir = IF uf[x].omode # "no" /\ ufs_lstat(uf[x].path) = "dir" THEN d[x] ELSE None
  <2>1. PICK f \in FidT, e \in Fds : f = uf[x] /\ e = d[x]
    BY <1>1, <1>2
  <2>2. uf'[x] = Restored(Recalled(f), e)
    BY <1>1, <1>4, <2>1
  <2>. QED  BY <1>4, <2>1, <2>2, RestoredIs
<1>5. uf' \in [UFids -> FidT]
  <2>1. \A x \in UFids : uf'[x] \in FidT
    BY <1>1, <1>2, <1>4
  <2>. QED  BY <1>1, <2>1
<1>6. ASSUME NEW e \in Fds
      PROVE  /\ \A x \in Reopened : d[x] = e => fds'[e] = FollowIn(ents, uf[x].path)
             /\ fds'[e] # None => \E x \in Reopened : d[x] = e
             /\ fds'[e] \in 0..MaxInodes
  <2>1. CASE \E x \in Reopened : d[x] = e
    <3>1. PICK y : y = CHOOSE x \in Reopened : d[x] = e
      OBVIOUS
    <3>2. y \in Reopened /\ d[y] = e
      BY <2>1, <3>1
    <3>3. y \in UFids /\ \A x \in Reopened : x \in UFids
      BY <3>2 DEF Reopened
    <3>4. fds'[e] = FollowIn(ents, uf[y].path)
      BY <1>1, <2>1, <3>1, FollowIs
    <3>5. \A x \in Reopened : d[x] = e => x = y
      BY <1>1, <3>2, <3>3
    <3>6. fds'[e] \in 0..MaxInodes
      BY <1>2, <3>3, <3>4, FollowType
    <3>. QED  BY <2>1, <3>4, <3>5, <3>6
  <2>2. CASE ~\E x \in Reopened : d[x] = e
    BY <1>1, <1>3, <2>2
  <2>. QED  BY <2>1, <2>2
<1>7. fds' \in [Fds -> 0..MaxInodes]
  BY <1>1, <1>6
<1>8. ASSUME NEW x \in UFids, uf[x].used
      PROVE  /\ uf'[x].fd # None => uf'[x].fd # uf'[x].dir
             /\ HeldIn(uf'[x]) = IF uf[x].omode = "no" THEN {} ELSE {d[x]}
             /\ uf[x].omode # "no" => fds'[d[x]] = FollowIn(ents, uf[x].path)
  <2>1. d[x] \in Fds /\ d[x] # None
    BY <1>1, <1>3
  <2>2. CASE uf[x].omode = "no"
    BY <1>4, <1>8, <2>2 DEF HeldIn
  <2>3. CASE uf[x].omode # "no"
    <3>1. x \in Reopened
      BY <1>8, <2>3 DEF Reopened
    <3>2. fds'[d[x]] = FollowIn(ents, uf[x].path)
      BY <1>6, <2>1, <3>1
    <3>3. HeldIn(uf'[x]) = {d[x]} /\ (uf'[x].fd # None => uf'[x].fd # uf'[x].dir)
      BY <1>4, <1>8, <2>1, <2>3 DEF HeldIn
    <3>. QED  BY <2>3, <3>2, <3>3
  <2>. QED  BY <2>2, <2>3
<1>9. \A x \in UFids : ~uf[x].used => uf'[x] = uf[x]
  BY <1>1
<1>10. \A e \in Fds : fds'[e] # None => \E x \in UFids : uf[x].used /\ uf[x].omode # "no" /\ d[x] = e
  BY <1>6 DEF Reopened
<1>11. Reborn(ents, fds', uf, uf', d)
  BY <1>1, <1>4, <1>8, <1>9, <1>10 DEF Reborn
<1>. QED  BY <1>5, <1>7, <1>11

\* A restored connection is as sound as the one that was written.
LEMMA RestoreStep ==
    ASSUME UfsInv, calm, ufs_restore
    PROVE  UfsInv'
<1>1. /\ uf \in [UFids -> FidT] /\ mapped \in BOOLEAN /\ ents \in [Inodes -> DirT] /\ ino \in [Inodes -> InodeT]
      /\ Typed(ents, ino, fds, uf) /\ Sound(mapped, ents, ino, fds, uf, {})
  BY Before
<1>2. /\ \A x \in UFids : uf[x].used => Ready(x) /\ fidstat(x) # "error"
      /\ \E d : Restores(d)
  BY <1>1, RestoreIs
<1>3. PICK d : Restores(d)
  BY <1>2
<1>4. d \in [UFids -> Fds] /\ ino' = Gone(ents, fds') /\ UNCHANGED <<mapped, calm, ents>>
  BY <1>3 DEF Restores
<1>5. uf' \in [UFids -> FidT] /\ fds' \in [Fds -> 0..MaxInodes] /\ Reborn(ents, fds', uf, uf', d)
  BY <1>3, RestoredFids
<1>6. \A x \in UFids : uf[x].used => uf[x].job = NoJob /\ FollowIn(ents, uf[x].path) # None
  BY <1>2, FollowIs DEF Ready, fidstat, ufs_lstat
<1>7. Sound(mapped, ents, ino, fds', uf', {})
  BY <1>1, <1>4, <1>5, <1>6, FidsReborn
<1>8. PICK ds, T : ds = fds' /\ T = {}
  OBVIOUS
<1>9. /\ Typed(ents, ino, ds, uf')
      /\ Sound(mapped, ents, ino, ds, uf', T) /\ \A j \in T : ~Named(ents, j) /\ ~IsOpen(ds, j)
  BY <1>1, <1>5, <1>7, <1>8 DEF Typed
<1>10. ino' = Gone(ents, ds) /\ mapped' = mapped /\ calm' \in BOOLEAN /\ ents = ents'
  BY <1>4, <1>8
<1>. QED  BY <1>8, <1>9, <1>10, AfterSweep


----------------------------------------------------------------------------
(* The theorems *)

\* No fid is used and no handler runs.  The host holds the root and perhaps one file.
LEMMA InitInv ==
    ASSUME UfsInit
    PROVE  UfsInv
<1>1. PICK kind \in {"none", "file", "link"}, n \in UNames :
        /\ ino = [i \in Inodes |-> CASE i = HostRoot -> Inode("dir", "host")
                                     [] i = 2 /\ kind # "none" -> Inode(kind, "host")
                                     [] OTHER -> NoInode]
        /\ ents = [i \in Inodes |-> IF i = HostRoot /\ kind # "none" THEN [NoEnts EXCEPT ![n] = 2]
                                    ELSE NoEnts]
  BY DEF UfsInit
<1>2. /\ mapped \in BOOLEAN /\ calm \in BOOLEAN
      /\ fds = [d \in Fds |-> None] /\ uf = [x \in UFids |-> Unused]
  BY DEF UfsInit
<1>3. HostRoot \in Inodes /\ 2 \in Inodes /\ HostRoot # 2 /\ None # 2 /\ 2 \in 0..MaxInodes /\ None \in 0..MaxInodes
  BY NpUfsAssumption DEF HostRoot, Inodes, None
<1>4. \A k \in Kinds : /\ Inode(k, "host") \in InodeT
                       /\ Inode(k, "host").kind = k /\ Inode(k, "host").as = "host"
  BY DEF Inode, NoInode, InodeT, Kinds
<1>5. NoInode \in InodeT /\ NoInode.kind = "none" /\ NoInode.as = "none"
  BY DEF NoInode, InodeT, Kinds
<1>6. /\ ino[HostRoot].kind = "dir" /\ ino[HostRoot].as = "host"
      /\ kind # "none" => ino[2].kind = kind
      /\ \A i \in Inodes : /\ ino[i] \in InodeT /\ ino[i].as \notin Ours
                           /\ ino[i].kind = "none" => ino[i] = NoInode
                           /\ ino[i].kind # "none" => i = HostRoot \/ (i = 2 /\ kind # "none")
  <2>1. "dir" \in Kinds /\ kind \in Kinds
    BY DEF Kinds
  <2>2. ino[HostRoot] = Inode("dir", "host")
    BY <1>1, <1>3
  <2>3. kind # "none" => ino[2] = Inode(kind, "host")
    BY <1>1, <1>3
  <2>4. \A i \in Inodes : i # HostRoot /\ ~(i = 2 /\ kind # "none") => ino[i] = NoInode
    BY <1>1
  <2>. QED  BY <1>4, <1>5, <2>1, <2>2, <2>3, <2>4 DEF Ours
<1>7. \A i \in Inodes : /\ ents[i] \in DirT
                        /\ i # HostRoot => ents[i] = NoEnts
                        /\ \A m \in UNames : ents[i][m] # None =>
                             i = HostRoot /\ m = n /\ ents[i][m] = 2 /\ kind # "none"
  <2>1. NoEnts \in DirT /\ \A m \in UNames : NoEnts[m] = None
    BY <1>3 DEF NoEnts, DirT
  <2>2. /\ [NoEnts EXCEPT ![n] = 2] \in DirT
        /\ \A m \in UNames : [NoEnts EXCEPT ![n] = 2][m] = IF m = n THEN 2 ELSE None
    BY <1>3, <2>1 DEF DirT
  <2>. QED  BY <1>1, <2>1, <2>2
<1>8. kind # "none" => Named(ents, 2)
  <2>1. kind # "none" => ents[HostRoot][n] = 2
    BY <1>1, <1>3 DEF NoEnts
  <2>. QED  BY <1>3, <2>1 DEF Named
<1>9. ents \in [Inodes -> DirT] /\ ino \in [Inodes -> InodeT]
  BY <1>1, <1>6, <1>7
<1>10. UfsTypeOK
  <2>1. fds \in [Fds -> 0..MaxInodes] /\ uf \in [UFids -> FidT]
    BY <1>2, <1>3, FidTypes
  <2>. QED  BY <1>2, <1>9, <2>1 DEF UfsTypeOK, Typed
<1>11. Tree(mapped, ents, ino) /\ Roots(ents) /\ Kept(ents, ino, fds)
  <2>1. Tree(mapped, ents, ino)
    BY <1>3, <1>6, <1>7 DEF Tree
  <2>2. Roots(ents)
    BY <1>7 DEF Roots
  <2>3. Kept(ents, ino, fds)
    BY <1>6, <1>8 DEF Kept
  <2>. QED  BY <2>1, <2>2, <2>3
<1>12. \A x \in UFids : uf[x] = Unused /\ HeldIn(uf[x]) = {} /\ uf[x].fd = None /\ uf[x].job = NoJob
  <2>1. Unused.fd = None
    BY DEF Unused, UfsFid
  <2>. QED  BY <1>2, <2>1, FidTypes
<1>13. Descs(ino, fds, uf) /\ Fids(mapped, ents, ino, fds, uf) /\ Apart(uf)
  <2>1. Descs(ino, fds, uf)
    BY <1>2, <1>12 DEF Descs
  <2>2. NoJob.k = "no"
    BY DEF NoJob
  <2>3. Fids(mapped, ents, ino, fds, uf)
    BY <1>12, <2>2 DEF Fids, OnFile, JobOn, AtWork
  <2>4. Apart(uf)
    BY <1>12, <2>2 DEF Apart, AtWork
  <2>. QED  BY <2>1, <2>3, <2>4
<1>14. Whole(mapped, ents, ino, fds, uf, {})
  BY <1>6 DEF Whole
<1>. QED  BY <1>10, <1>11, <1>13, <1>14 DEF UfsInv, Sound

\* A handler of one fid keeps the invariant.
LEMMA HandleInv ==
    ASSUME UfsInv, calm, NEW x \in UFids, Handle(x)
    PROVE  UfsInv'
<1>1. CASE npfs_attach(x)
  BY <1>1, AttachStep
<1>2. ASSUME NEW n \in UNames, npfs_walk(x, n) \/ npfs_unlinkat(x, n) \/ npfs_wstat(x, n)
      PROVE  UfsInv'
  <2>1. CASE npfs_walk(x, n)
    BY <2>1, WalkStep
  <2>2. CASE npfs_unlinkat(x, n)
    BY <2>2, UnlinkatStep
  <2>3. CASE npfs_wstat(x, n)
    BY <2>3, WstatStep
  <2>. QED  BY <1>2, <2>1, <2>2, <2>3
<1>3. CASE npfs_open(x) \/ npfs_lopen(x)
  <2>1. Open(x)
    BY <1>3 DEF npfs_open, npfs_lopen
  <2>. QED  BY <2>1, OpenStep
<1>4. CASE OpenRefused(x)
  BY <1>4, OpenRefusedStep
<1>5. ASSUME NEW n \in UNames, NEW kind \in {"file", "dir"}, npfs_create(x, n, kind)
      PROVE  UfsInv'
  BY <1>5, CreateStep
<1>6. ASSUME NEW n \in UNames, NEW kind \in {"link", "node"}, npfs_create_special(x, n, kind)
      PROVE  UfsInv'
  <2>1. kind \in Ours
    BY DEF Ours
  <2>. QED  BY <1>6, <2>1, CreateSpecialStep
<1>7. ASSUME NEW n \in UNames, npfs_lcreate(x, n) \/ npfs_symlink(x, n) \/ npfs_mknod(x, n) \/ npfs_mkdir(x, n)
      PROVE  UfsInv'
  <2>1. "file" \in Ours /\ "link" \in Ours /\ "node" \in Ours /\ "dir" \in Ours
    BY DEF Ours
  <2>2. CASE LcreateNew(x, n)
    BY <2>2, LcreateNewStep
  <2>3. CASE LcreateOld(x, n)
    BY <2>3, LcreateOldStep
  <2>4. CASE MappedMake(x, n, "file", "lcreate")
    BY <2>1, <2>4, MappedMakeStep
  <2>5. ASSUME NEW kind \in Ours, Make(x, n, kind)
        PROVE  UfsInv'
    BY <2>5, MakeStep
  <2>6. ASSUME NEW as \in Ours, MappedMake(x, n, as, "make")
        PROVE  UfsInv'
    <3>1. "make" \in {"lcreate", "make"} /\ ("make" = "lcreate" => as = "file")
      OBVIOUS
    <3>. QED  BY <2>6, <3>1, MappedMakeStep
  <2>7. CASE npfs_lcreate(x, n)
    BY <2>2, <2>3, <2>4, <2>7 DEF npfs_lcreate
  <2>8. CASE npfs_symlink(x, n)
    BY <2>1, <2>5, <2>6, <2>8 DEF npfs_symlink, mapped_symlink
  <2>9. CASE npfs_mknod(x, n)
    BY <2>1, <2>5, <2>6, <2>9 DEF npfs_mknod, mapped_mknod
  <2>10. CASE npfs_mkdir(x, n)
    BY <2>1, <2>5, <2>6, <2>10 DEF npfs_mkdir
  <2>. QED  BY <1>7, <2>7, <2>8, <2>9, <2>10
<1>8. CASE NotCreated(x)
  BY <1>8, NotCreatedStep
<1>9. CASE mapped_create(x) \/ SetPut(x)
  <2>1. PutsNext(x)
    BY <1>9 DEF mapped_create, SetPut, PutsNext
  <2>. QED  BY <2>1, PutStep
<1>10. CASE MakeFailed(x)
  BY <1>10, MakeFailedStep
<1>11. CASE MakeDone(x)
  BY <1>11, MakeDoneStep
<1>12. CASE npfs_setattr(x)
  BY <1>12, SetattrStep
<1>13. CASE SetDone(x)
  BY <1>13, SetDoneStep
<1>14. CASE npfs_remove(x)
  BY <1>14, RemoveStep
<1>15. CASE npfs_readdir(x)
  BY <1>15, ReaddirStep
<1>16. ASSUME NEW v \in {"raw", "empty"}, npfs_xattrcreate(x, v)
       PROVE  UfsInv'
  BY <1>16, XattrcreateStep
<1>17. CASE npfs_xattrwrite(x)
  BY <1>17, XattrwriteStep
<1>18. CASE npfs_clunk(x)
  BY <1>18, ClunkStep
<1>. QED  BY <1>1, <1>2, <1>3, <1>4, <1>5, <1>6, <1>7, <1>8, <1>9, <1>10, <1>11, <1>12, <1>13, <1>14, <1>15,
             <1>16, <1>17, <1>18 DEF Handle

\* So does one of two fids.
LEMMA HandleTwoInv ==
    ASSUME UfsInv, calm, NEW x \in UFids, NEW y \in UFids, HandleTwo(x, y)
    PROVE  UfsInv'
<1>1. CASE npfs_clone(x, y)
  BY <1>1, CloneStep
<1>2. CASE npfs_xattrwalk(x, y)
  BY <1>2, XattrwalkStep
<1>3. ASSUME NEW n \in UNames, npfs_rename(x, y, n) PROVE UfsInv'
  BY <1>3, RenameInto
<1>4. ASSUME NEW n \in UNames, CreateLink(x, n, y) PROVE UfsInv'
  BY <1>4, CreateLinkStep
<1>5. ASSUME NEW n \in UNames, NEW m \in UNames, npfs_renameat(x, n, y, m) PROVE UfsInv'
  BY <1>5, RenameatStep
<1>. QED  BY <1>1, <1>2, <1>3, <1>4, <1>5 DEF HandleTwo

\* The invariant is kept when nothing changes, and nothing follows a request that
\* was not calm.
LEMMA NextInv ==
    ASSUME UfsInv, [UfsNext]_uvars
    PROVE  UfsInv'
<1>1. CASE UfsNext
  <2>1. calm
    BY <1>1 DEF UfsNext
  <2>2. ASSUME NEW x \in UFids, Handle(x) PROVE UfsInv'
    BY <2>1, <2>2, HandleInv
  <2>3. ASSUME NEW x \in UFids, NEW y \in UFids, HandleTwo(x, y) PROVE UfsInv'
    BY <2>1, <2>3, HandleTwoInv
  <2>4. CASE ufs_restore
    BY <2>1, <2>4, RestoreStep
  <2>. QED  BY <1>1, <2>2, <2>3, <2>4 DEF UfsNext
<1>2. CASE UNCHANGED uvars
  <2>1. mapped' = mapped /\ calm' = calm /\ ents' = ents /\ ino' = ino /\ fds' = fds /\ uf' = uf
    BY <1>2 DEF uvars
  <2>2. /\ mapped \in BOOLEAN /\ calm \in BOOLEAN /\ Typed(ents, ino, fds, uf)
        /\ calm => Sound(mapped, ents, ino, fds, uf, {}) /\ Kept(ents, ino, fds)
    BY DEF UfsInv, UfsTypeOK
  <2>3. Typed(ents', ino', fds', uf')
    BY <2>1, <2>2
  <2>4. calm' => Sound(mapped', ents', ino', fds', uf', {}) /\ Kept(ents', ino', fds')
    BY <2>1, <2>2
  <2>. QED  BY <2>1, <2>2, <2>3, <2>4 DEF UfsInv, UfsTypeOK
<1>. QED  BY <1>1, <1>2

\* The types, and all that is known of a reachable state.
THEOREM UfsInvariant == UfsSpec => []UfsInv
<1>1. UfsInit => UfsInv
  BY InitInv
<1>2. UfsInv /\ [UfsNext]_uvars => UfsInv'
  BY NextInv
<1>. QED  BY <1>1, <1>2, PTL DEF UfsSpec

\* A set of one.
LEMMA AloneIs ==
    ASSUME NEW S, NEW x, x \in S, \A y \in S : y = x
    PROVE  Cardinality(S) = 1
<1>1. S = {x}
  OBVIOUS
<1>. QED  BY <1>1, FS_Singleton

\* What a fid has open is its file, of a directory fid as far as it is a directory.
LEMMA OnFileIs ==
    ASSUME UfsInv, calm, NEW x \in UFids, NEW d \in Held(x), uf[x].job.k # "lcreate",
           uf[x].isdir => ino[fds[d]].kind = "dir"
    PROVE  fds[d] = Follow(uf[x].path)
<1>1. Fids(mapped, ents, ino, fds, uf) /\ d \in HeldIn(uf[x])
  BY Before DEF Held, HeldIn
<1>2. OnFile(mapped, ents, ino, fds, uf[x])
  BY <1>1 DEF Fids
<1>3. fds[d] = FollowIn(ents, uf[x].path) \/ (uf[x].isdir /\ ino[fds[d]].kind # "dir")
  BY <1>1, <1>2 DEF OnFile
<1>4. fds[d] = FollowIn(ents, uf[x].path)
  BY <1>3
<1>. QED  BY <1>4, FollowIs

\* What the invariant says of descriptors.
LEMMA OwnedOnce ==
    ASSUME UfsInv
    PROVE  FdOwned
<1>. SUFFICES ASSUME calm
              PROVE  /\ \A d \in Fds : fds[d] # None => Cardinality({x \in UFids : d \in Held(x)}) = 1
                     /\ \A x \in UFids : /\ uf[x].fd # None => uf[x].fd # uf[x].dir
                                         /\ \A d \in Held(x) : fds[d] # None
                                         /\ \A d \in Held(x) :
                                              uf[x].job.k # "lcreate" /\ (uf[x].isdir => ino[fds[d]].kind = "dir")
                                                => fds[d] = Follow(uf[x].path)
  BY DEF FdOwned
<1>1. Descs(ino, fds, uf) /\ \A x \in UFids : Held(x) = HeldIn(uf[x])
  <2>1. Sound(mapped, ents, ino, fds, uf, {})
    BY Before
  <2>. QED  BY <2>1 DEF Sound, Held, HeldIn
<1>2. ASSUME NEW d \in Fds, fds[d] # None
      PROVE  Cardinality({x \in UFids : d \in Held(x)}) = 1
  <2>1. PICK x \in UFids : d \in Held(x)
    BY <1>1, <1>2 DEF Descs
  <2>2. \A y \in UFids : d \in Held(y) => y = x
    BY <1>1, <2>1 DEF Descs
  <2>3. PICK S : S = {y \in UFids : d \in Held(y)}
    OBVIOUS
  <2>4. x \in S /\ \A y \in S : y = x
    BY <2>1, <2>2, <2>3
  <2>5. Cardinality(S) = 1
    BY <2>4, AloneIs
  <2>. QED  BY <2>3, <2>5
<1>3. ASSUME NEW x \in UFids
      PROVE  (uf[x].fd # None => uf[x].fd # uf[x].dir) /\ \A d \in Held(x) : fds[d] # None
  BY <1>1 DEF Descs
<1>. QED  BY <1>2, <1>3, OnFileIs

\* And of the files the server has made.
LEMMA WholeMade ==
    ASSUME UfsInv
    PROVE  MappedWhole
<1>. SUFFICES ASSUME calm, mapped, NEW i \in Inodes, ino[i].as \notin {"none", "host"}, ~InMaking(i)
              PROVE  ToSet(Virtfs(ino[i].as)) \subseteq ino[i].attrs /\ mapped_stat(i) = ino[i].as
  BY DEF MappedWhole
<1>1. /\ Tree(mapped, ents, ino) /\ Kept(ents, ino, fds) /\ ino[i] \in InodeT
      /\ Whole(mapped, ents, ino, fds, uf, {})
  <2>1. Sound(mapped, ents, ino, fds, uf, {}) /\ Kept(ents, ino, fds) /\ ino \in [Inodes -> InodeT]
    BY Before
  <2>. QED  BY <2>1 DEF Sound
<1>2. ino[i].as \in Ours /\ i # HostRoot
  BY <1>1 DEF InodeT, Kinds, Ours, Tree
<1>3. Named(ents, i) \/ IsOpen(fds, i)
  <2>1. ino[i].kind # "none"
    BY <1>1 DEF Tree, NoInode
  <2>. QED  BY <1>1, <1>2, <2>1 DEF Kept
<1>4. ~InWork(uf, i)
  BY DEF InMaking, InWork, AtWork
<1>5. ToSet(Virtfs(ino[i].as)) \subseteq ino[i].attrs
  BY <1>1, <1>2, <1>3, <1>4 DEF Whole
<1>6. "mode" \in ino[i].attrs
  BY <1>5, HasMode
<1>7. mapped_stat(i) = ino[i].as
  BY <1>1, <1>2, <1>6 DEF Whole, mapped_stat, mapped_get
<1>. QED  BY <1>5, <1>7

\* For calm clients every open descriptor is held by one fid, once, and every one a
\* fid holds is open, on the file its path names: what npfs_fiddestroy closes, and the
\* handlers that fail half-way, belongs to nobody else.
THEOREM DescriptorsOwned == UfsSpec => []FdOwned
<1>1. UfsInv => FdOwned
  BY OwnedOnce
<1>. QED  BY <1>1, UfsInvariant, PTL

\* With mapped ids a file the server has made carries all its attributes, unless it is
\* being made, and is shown as what it was made as (npfs_lcreate, npfs_symlink,
\* npfs_mknod, npfs_mkdir, npfs_setattr), whatever call of the host fails.
THEOREM FilesWhole == UfsSpec => []MappedWhole
<1>1. UfsInv => MappedWhole
  BY WholeMade
<1>. QED  BY <1>1, UfsInvariant, PTL

----------------------------------------------------------------------------
(* What a restored connection shows *)

\* A fid does not have a file and a directory open at once, and no directory before
\* it was opened.
OneOpen(f) == (f.omode = "no" => f.dir = None) /\ (f.fd = None \/ f.dir = None)
Single == calm => \A x \in UFids : OneOpen(uf[x])

\* One fid becomes f.
LEMMA SingleKept ==
    ASSUME calm, Single, NEW x \in UFids, Others(uf, uf', x),
           calm' => OneOpen(uf'[x])
    PROVE  Single'
<1>1. \A y \in UFids : OneOpen(uf[y]) /\ (y # x => uf'[y] = uf[y])
  BY DEF Single, Others
<1>2. calm' => \A y \in UFids : OneOpen(uf'[y])
  BY <1>1
<1>. QED  BY <1>2 DEF Single, OneOpen

\* A fid that is new or gone has nothing open.
LEMMA NewSingle ==
    ASSUME UfsInv, calm, Single, NEW x \in UFids, NEW y \in UFids,
           npfs_attach(x) \/ npfs_clone(x, y) \/ npfs_xattrwalk(x, y) \/ npfs_remove(x) \/ npfs_clunk(x)
    PROVE  Single'
<1>1. uf \in [UFids -> FidT]
  BY Before
<1>2. \E z \in UFids : Others(uf, uf', z) /\ uf'[z].fd = None /\ uf'[z].dir = None
  <2>1. CASE npfs_attach(x)
    BY <1>1, <2>1 DEF npfs_attach, UfsFid, Others
  <2>2. CASE npfs_clone(x, y)
    BY <1>1, <2>2 DEF npfs_clone, UfsFid, Others
  <2>3. CASE npfs_xattrwalk(x, y)
    BY <1>1, <2>3 DEF npfs_xattrwalk, UfsFid, Others
  <2>4. CASE npfs_remove(x) \/ npfs_clunk(x)
    BY <1>1, <2>4 DEF npfs_remove, npfs_clunk, Unused, UfsFid, Others
  <2>. QED  BY <2>1, <2>2, <2>3, <2>4
<1>. QED  BY <1>1, <1>2, SingleKept DEF OneOpen

\* One fid becomes one that holds no more than it did, and has been opened since if it
\* was.
LEMMA LessSingle ==
    ASSUME UfsInv, calm, Single, NEW x \in UFids, Others(uf, uf', x),
           calm' => /\ uf'[x].omode = "no" => uf[x].omode = "no"
                    /\ uf'[x].fd \in {uf[x].fd, None} /\ uf'[x].dir \in {uf[x].dir, None}
    PROVE  Single'
<1>1. OneOpen(uf[x])
  BY DEF Single
<1>. QED  BY <1>1, SingleKept DEF OneOpen

\* A handler of one fid.
LEMMA HandleSingle ==
    ASSUME UfsInv, calm, Single, NEW x \in UFids, Handle(x)
    PROVE  Single'
<1>1. uf \in [UFids -> FidT] /\ uf[x] \in FidT /\ OneOpen(uf[x])
  BY Before DEF Single
<1>2. ASSUME UNCHANGED uf PROVE Single'
  BY <1>2 DEF Single, OneOpen
<1>3. CASE npfs_attach(x) \/ npfs_remove(x) \/ npfs_clunk(x)
  BY <1>3, NewSingle
<1>4. ASSUME NEW n \in UNames, npfs_walk(x, n) PROVE Single'
  <2>1. Others(uf, uf', x) /\ uf'[x].omode = uf[x].omode /\ uf'[x].fd = uf[x].fd /\ uf'[x].dir = uf[x].dir
    BY <1>1, <1>4 DEF npfs_walk, FidT, Others
  <2>. QED  BY <2>1, LessSingle
<1>5. ASSUME NEW n \in UNames, npfs_unlinkat(x, n) PROVE Single'
  <2>1. uf[x].omode = "no" /\ uf[x].dir = None
    BY <1>1, <1>5 DEF npfs_unlinkat, InDir, OneOpen
  <2>2. Others(uf, uf', x) /\ uf'[x].dir = uf[x].dir
    BY <1>1, <1>5 DEF npfs_unlinkat, FidT, Others
  <2>. QED  BY <2>1, <2>2, SingleKept DEF OneOpen
<1>6. ASSUME NEW to, Rename(x, to) PROVE Single'
  <2>1. Others(uf, uf', x) /\ uf'[x].omode = uf[x].omode /\ uf'[x].fd = uf[x].fd /\ uf'[x].dir = uf[x].dir
    BY <1>1, <1>6 DEF Rename, FidT, Others
  <2>. QED  BY <2>1, LessSingle
<1>7. CASE npfs_open(x) \/ npfs_lopen(x)
  <2>1. Open(x)
    BY <1>7 DEF npfs_open, npfs_lopen
  <2>2. Others(uf, uf', x)
    BY <2>1 DEF Open, Others
  <2>3. calm' => OneOpen(uf'[x])
    BY <1>1, <2>1 DEF Open, Opened, FidT, Calm, Bare, OneOpen
  <2>. QED  BY <2>2, <2>3, SingleKept
<1>8. CASE OpenRefused(x)
  <2>1. /\ Others(uf, uf', x) /\ uf'[x].omode = "read"
       /\ uf'[x].fd \in {uf[x].fd, None} /\ uf'[x].dir \in {uf[x].dir, None}
    BY <1>1, <1>8 DEF OpenRefused, FidT, Others
  <2>. QED  BY <2>1, LessSingle
<1>9. ASSUME NEW n \in UNames, NEW kind \in {"file", "dir"}, npfs_create(x, n, kind) PROVE Single'
  <2>1. uf[x].omode = "no" /\ calm' = (Bare(x) /\ NotUsed(x, n))
    BY <1>9 DEF npfs_create, Makes, NameFree, InDir, Calm
  <2>2. CASE uf' = [uf EXCEPT ![x] = OnNew(x, ufs_join(uf[x].path, n), Least(FreeFds), kind = "dir")]
    <3>1. Bare(x) => uf'[x].fd = None \/ uf'[x].dir = None
      BY <1>1, <2>2 DEF OnNew, FidT, Bare
    <3>2. uf'[x].omode = "read" /\ Others(uf, uf', x)
      BY <1>1, <2>2 DEF OnNew, FidT, Others
    <3>. QED  BY <2>1, <3>1, <3>2, SingleKept DEF OneOpen
  <2>3. CASE uf' = [uf EXCEPT ![x].fd = Least(FreeFds)]
    <3>1. uf'[x].dir = uf[x].dir /\ Others(uf, uf', x)
      BY <1>1, <2>3 DEF FidT, Others
    <3>. QED  BY <2>1, <3>1, SingleKept DEF OneOpen, Bare
  <2>. QED  BY <1>9, <2>2, <2>3 DEF npfs_create
<1>10. ASSUME NEW n \in UNames, NEW kind \in {"link", "node"}, npfs_create_special(x, n, kind) PROVE Single'
  <2>1. CASE UNCHANGED uf
    BY <1>2, <2>1
  <2>2. CASE uf' = [uf EXCEPT ![x] = OnNew(x, ufs_join(uf[x].path, n), uf[x].fd, FALSE)]
    <3>1. /\ Others(uf, uf', x)
         /\ uf'[x].omode = "read" /\ uf'[x].fd = uf[x].fd /\ uf'[x].dir = uf[x].dir
      BY <1>1, <2>2 DEF OnNew, FidT, Others
    <3>. QED  BY <3>1, LessSingle
  <2>. QED  BY <1>10, <2>1, <2>2 DEF npfs_create_special
<1>11. ASSUME NEW n \in UNames, NEW as, NEW k, MappedMake(x, n, as, k) PROVE Single'
  <2>1. /\ uf[x].omode = "no" /\ uf[x].dir = None
    BY <1>1, <1>11 DEF MappedMake, Makes, NameFree, InDir, OneOpen
  <2>2. Others(uf, uf', x) /\ uf'[x].dir = uf[x].dir
    BY <1>1, <1>11 DEF MappedMake, FidT, Others
  <2>. QED  BY <2>1, <2>2, SingleKept DEF OneOpen
<1>12. ASSUME NEW n \in UNames, LcreateNew(x, n) \/ LcreateOld(x, n) PROVE Single'
  <2>1. calm' => Bare(x)
    BY <1>12 DEF LcreateNew, LcreateOld, Calm
  <2>2. ASSUME uf' = [uf EXCEPT ![x].path = ufs_join(uf[x].path, n), ![x].fd = None]
        PROVE  uf'[x].dir = uf[x].dir /\ Others(uf, uf', x)
    BY <1>1, <2>2 DEF FidT, Others
  <2>3. CASE LcreateNew(x, n)
    <3>1. ASSUME uf' = [uf EXCEPT ![x] = OnNew(x, ufs_join(uf[x].path, n), Least(FreeFds), FALSE)]
          PROVE  uf'[x].dir = uf[x].dir /\ Others(uf, uf', x)
      BY <1>1, <3>1 DEF OnNew, FidT, Others
    <3>2. uf'[x].dir = uf[x].dir /\ Others(uf, uf', x)
      BY <2>2, <2>3, <3>1 DEF LcreateNew
    <3>. QED  BY <2>1, <3>2, SingleKept DEF Bare, OneOpen
  <2>4. CASE LcreateOld(x, n)
    <3>1. PICK f : f = [OnNew(x, ufs_join(uf[x].path, n), Least(FreeFds), FALSE)
                          EXCEPT !.isdir = ustat2qidtype(ufs_lstat(ufs_join(uf[x].path, n)))]
      OBVIOUS
    <3>2. f.dir = uf[x].dir
      BY <1>1, <3>1 DEF OnNew, FidT
    <3>3. \/ uf' = [uf EXCEPT ![x] = f]
          \/ uf' = [uf EXCEPT ![x].path = ufs_join(uf[x].path, n), ![x].fd = None]
      BY <2>4, <3>1, Zenon DEF LcreateOld
    <3>4. uf' = [uf EXCEPT ![x] = f] => uf'[x].dir = uf[x].dir /\ Others(uf, uf', x)
      BY <1>1, <3>2 DEF Others
    <3>5. uf'[x].dir = uf[x].dir /\ Others(uf, uf', x)
      BY <2>2, <3>3, <3>4
    <3>. QED  BY <2>1, <3>5, SingleKept DEF Bare, OneOpen
  <2>. QED  BY <1>12, <2>3, <2>4
<1>13. ASSUME NEW n \in UNames, NEW kind, Make(x, n, kind) PROVE Single'
  BY <1>2, <1>13 DEF Make
<1>14. ASSUME NEW n \in UNames, npfs_lcreate(x, n) \/ npfs_symlink(x, n) \/ npfs_mknod(x, n) \/ npfs_mkdir(x, n)
       PROVE  Single'
  BY <1>11, <1>12, <1>13, <1>14
     DEF npfs_lcreate, npfs_symlink, npfs_mknod, npfs_mkdir, mapped_symlink, mapped_mknod
<1>15. CASE NotCreated(x) \/ npfs_readdir(x)
  <2>1. ~calm'
    BY <1>15 DEF NotCreated, npfs_readdir, Calm
  <2>. QED  BY <2>1 DEF Single
<1>16. CASE mapped_create(x) \/ SetPut(x) \/ npfs_setattr(x) \/ SetDone(x) \/ npfs_xattrwrite(x)
  <2>1. Others(uf, uf', x) /\ uf'[x].omode = uf[x].omode /\ uf'[x].fd = uf[x].fd /\ uf'[x].dir = uf[x].dir
    BY <1>1, <1>16, ZenonT(40) DEF mapped_create, SetPut, npfs_setattr, SetDone, npfs_xattrwrite, FidT, Others
  <2>. QED  BY <2>1, LessSingle
<1>17. CASE MakeFailed(x)
  <2>1. /\ Others(uf, uf', x)
       /\ uf'[x].omode = uf[x].omode /\ uf'[x].fd \in {uf[x].fd, None} /\ uf'[x].dir = uf[x].dir
    BY <1>1, <1>17 DEF MakeFailed, CloseMade, FidT, Others
  <2>. QED  BY <2>1, LessSingle
<1>18. CASE MakeDone(x)
  <2>1. /\ Others(uf, uf', x)
       /\ uf'[x].omode \in {uf[x].omode, "read"} /\ uf'[x].fd = uf[x].fd /\ uf'[x].dir = uf[x].dir
    BY <1>1, <1>18 DEF MakeDone, OnNew, FidT, Others
  <2>. QED  BY <2>1, LessSingle
<1>19. ASSUME NEW v \in {"raw", "empty"}, npfs_xattrcreate(x, v) PROVE Single'
  <2>1. Others(uf, uf', x) /\ uf'[x].omode = "write" /\ uf'[x].fd = uf[x].fd /\ uf'[x].dir = uf[x].dir
    BY <1>1, <1>19 DEF npfs_xattrcreate, FidT, Others
  <2>. QED  BY <2>1, LessSingle
<1>20. ASSUME NEW n \in UNames, npfs_wstat(x, n) PROVE Single'
  BY <1>6, <1>20 DEF npfs_wstat
<1>. QED  BY <1>3, <1>4, <1>5, <1>7, <1>8, <1>9, <1>10, <1>14, <1>15, <1>16, <1>17, <1>18, <1>19, <1>20
     DEF Handle

\* A handler of two fids.
LEMMA HandleTwoSingle ==
    ASSUME UfsInv, calm, Single, NEW x \in UFids, NEW y \in UFids, HandleTwo(x, y)
    PROVE  Single'
<1>1. uf \in [UFids -> FidT] /\ uf[x] \in FidT
  BY Before
<1>2. CASE npfs_clone(x, y) \/ npfs_xattrwalk(x, y)
  BY <1>2, NewSingle
<1>3. ASSUME NEW n \in UNames, npfs_rename(x, y, n) PROVE Single'
  <2>1. Others(uf, uf', x) /\ uf'[x].omode = uf[x].omode /\ uf'[x].fd = uf[x].fd /\ uf'[x].dir = uf[x].dir
    BY <1>1, <1>3 DEF npfs_rename, Rename, FidT, Others
  <2>. QED  BY <2>1, LessSingle
<1>4. ASSUME NEW n \in UNames, CreateLink(x, n, y) PROVE Single'
  <2>1. CASE UNCHANGED uf
    BY <2>1 DEF Single, OneOpen
  <2>2. CASE uf' = [uf EXCEPT ![x] = OnNew(x, ufs_join(uf[x].path, n), uf[x].fd, FALSE)]
    <3>1. Others(uf, uf', x) /\ uf'[x].omode = "read" /\ uf'[x].fd = uf[x].fd /\ uf'[x].dir = uf[x].dir
      BY <1>1, <2>2 DEF OnNew, FidT, Others
    <3>. QED  BY <3>1, LessSingle
  <2>. QED  BY <1>4, <2>1, <2>2 DEF CreateLink
<1>5. ASSUME NEW n \in UNames, NEW m \in UNames, npfs_renameat(x, n, y, m) PROVE Single'
  <2>1. uf' = uf
    BY <1>5 DEF npfs_renameat
  <2>. QED  BY <2>1 DEF Single, OneOpen
<1>. QED  BY <1>2, <1>3, <1>4, <1>5 DEF HandleTwo

\* A used fid of a restored connection.
LEMMA FidAgain ==
    ASSUME UfsInv, calm, NEW d, Restores(d), NEW x \in UFids, uf[x].used
    PROVE  /\ uf'[x] \in FidT
           /\ uf'[x].path = uf[x].path /\ uf'[x].omode = uf[x].omode /\ uf'[x].xa = uf[x].xa
           /\ uf'[x].fd = IF uf[x].omode # "no" /\ fidstat(x) # "dir" THEN d[x] ELSE None
           /\ uf'[x].dir = IF uf[x].omode # "no" /\ fidstat(x) = "dir" THEN d[x] ELSE None
           /\ d[x] # None
           /\ uf[x].omode # "no" => fds'[d[x]] = FollowIn(ents, uf[x].path)
<1>1. /\ d \in [UFids -> Fds]
      /\ uf' = [y \in UFids |-> IF ~uf[y].used THEN uf[y] ELSE Restored(Recalled(uf[y]), d[y])]
  BY DEF Restores
<1>2. PICK f \in FidT, e \in Fds : f = uf[x] /\ e = d[x]
  BY <1>1, Before
<1>3. uf'[x] = Restored(Recalled(f), e)
  BY <1>1, <1>2
<1>4. uf'[x] \in FidT
  BY <1>2, <1>3, RestoredIs
<1>5. /\ uf'[x].path = f.path /\ uf'[x].omode = f.omode /\ uf'[x].xa = f.xa
      /\ uf'[x].fd = IF f.omode # "no" /\ ufs_lstat(f.path) # "dir" THEN e ELSE None
      /\ uf'[x].dir = IF f.omode # "no" /\ ufs_lstat(f.path) = "dir" THEN e ELSE None
  BY <1>2, <1>3, RestoredIs
<1>6. e # None
  BY DEF Fds, None
<1>7. uf[x].omode # "no" => fds'[d[x]] = FollowIn(ents, uf[x].path)
  <2>1. Reborn(ents, fds', uf, uf', d)
    BY RestoredFids
  <2>. QED  BY <2>1 DEF Reborn
<1>. QED  BY <1>2, <1>4, <1>5, <1>6, <1>7 DEF fidstat

\* What is at the path of a fid is there again, and is what it was.
LEMMA FileAgain ==
    ASSUME UfsInv, calm, NEW d, Restores(d), NEW x \in UFids, uf[x].used, fidstat(x) # "error"
    PROVE  /\ Follow(uf[x].path)' = Follow(uf[x].path) /\ Follow(uf[x].path) # None
           /\ ino'[Follow(uf[x].path)] = ino[Follow(uf[x].path)]
<1>1. /\ ents \in [Inodes -> DirT] /\ ino \in [Inodes -> InodeT] /\ uf[x].path \in Seq(UNames)
  BY Before
<1>2. ino' = Gone(ents, fds') /\ ents' = ents /\ fds' \in [Fds -> 0..MaxInodes]
  BY RestoredFids DEF Restores
<1>3. PICK p \in Seq(UNames) : p = uf[x].path /\ p = uf'[x].path
  BY <1>1, FidAgain
<1>4. Follow(uf[x].path)' = FollowIn(ents, p)
  BY <1>2, <1>3 DEF Follow, FollowIn
<1>5. Follow(uf[x].path) = FollowIn(ents, p)
  BY <1>3, FollowIs
<1>6. FollowIn(ents, p) # None
  BY <1>5 DEF fidstat, ufs_lstat
<1>7. PICK i : i = FollowIn(ents, p)
  OBVIOUS
<1>8. i \in Inodes /\ (i = HostRoot \/ Named(ents, i))
  BY <1>1, <1>6, <1>7, FollowType, PathNamed
<1>9. PICK ds, io : ds = fds' /\ io = Gone(ents, ds)
  OBVIOUS
<1>10. Swept(ents, ds, ino, io)
  BY <1>1, <1>2, <1>9, GoneSweeps
<1>11. io[i] = ino[i]
  BY <1>8, <1>10 DEF Swept
<1>. QED  BY <1>2, <1>4, <1>5, <1>6, <1>7, <1>9, <1>11

\* Through a fid that is on a file a client is shown its type, the target of a symlink
\* and the file's data, all as before.
LEMMA FileShown ==
    ASSUME UfsInv, calm, NEW d, Restores(d), NEW x \in UFids, uf[x].used, fidstat(x) # "error"
    PROVE  /\ npfs_getattr(x)' = npfs_getattr(x) /\ npfs_stat(x)' = npfs_stat(x)
           /\ npfs_statfs(x)' = npfs_statfs(x) /\ npfs_readlink(x)' = npfs_readlink(x)
           /\ fidstat(x)' = fidstat(x)
<1>1. /\ Follow(uf[x].path)' = Follow(uf[x].path) /\ mapped' = mapped
      /\ ino'[Follow(uf[x].path)] = ino[Follow(uf[x].path)]
  BY FileAgain DEF Restores
<1>2. ufs_lstat(uf[x].path)' = ufs_lstat(uf[x].path)
  BY <1>1 DEF ufs_lstat, mapped_stat, mapped_get
<1>3. npfs_readlink(x)' = npfs_readlink(x)
  BY <1>1 DEF npfs_readlink, mapped_stat, mapped_get, mapped_readlink
<1>4. npfs_stat(x)' = npfs_stat(x)
  <2>1. ASSUME NEW dotu \in BOOLEAN
        PROVE  ustat2npwstat(uf[x].path, dotu)' = ustat2npwstat(uf[x].path, dotu)
    BY <1>1, <1>2 DEF ustat2npwstat
  <2>. QED  BY <2>1 DEF npfs_stat
<1>5. fidstat(x)' = fidstat(x)
  BY <1>2 DEF fidstat
<1>. QED  BY <1>1, <1>3, <1>4, <1>5 DEF npfs_getattr, npfs_statfs

\* And so are the data of the file it has open.
LEMMA DataShown ==
    ASSUME UfsInv, calm, Single, NEW d, Restores(d), NEW x \in UFids, uf[x].used, fidstat(x) # "error", Lasting(x)
    PROVE  /\ npfs_read(x)' = npfs_read(x) /\ npfs_write(x)' = npfs_write(x)
           /\ npfs_fsync(x)' = npfs_fsync(x) /\ npfs_flock(x)' = npfs_flock(x)
           /\ npfs_getlock(x)' = npfs_getlock(x)
<1>1. OneOpen(uf[x]) /\ Follow(uf[x].path) = FollowIn(ents, uf[x].path) /\ FollowIn(ents, uf[x].path) # None
  BY FileAgain, FollowIs DEF Single
<1>2. /\ uf'[x].fd = IF uf[x].omode # "no" /\ fidstat(x) # "dir" THEN d[x] ELSE None
      /\ uf'[x].dir = IF uf[x].omode # "no" /\ fidstat(x) = "dir" THEN d[x] ELSE None
      /\ d[x] # None
      /\ uf[x].omode # "no" => fds'[d[x]] = FollowIn(ents, uf[x].path)
  BY FidAgain
<1>3. /\ Behind(uf[x].fd)' = Behind(uf[x].fd) /\ Behind(uf[x].dir)' = Behind(uf[x].dir)
      /\ uf'[x].fd = None <=> uf[x].fd = None
      /\ uf'[x].dir = None <=> uf[x].dir = None
  <2>1. CASE uf[x].omode = "no"
    BY <1>2, <2>1 DEF Lasting, Bare, Behind
  <2>2. CASE uf[x].omode # "no" /\ fidstat(x) = "dir"
    BY <1>1, <1>2, <2>2 DEF Lasting, Behind, OneOpen
  <2>3. CASE uf[x].omode # "no" /\ fidstat(x) # "dir"
    BY <1>1, <1>2, <2>3 DEF Lasting, Behind, OneOpen
  <2>. QED  BY <2>1, <2>2, <2>3
<1>. QED  BY <1>3 DEF npfs_read, npfs_write, npfs_fsync, npfs_flock, npfs_getlock

\* A restored connection shows what the old one did.
LEMMA RestoredShown ==
    ASSUME UfsInv, calm, Single, ufs_restore, NEW x \in UFids, uf[x].used, Lasting(x) \/ IsXattr(x)
    PROVE  Shown(x)' = Shown(x)
<1>1. fidstat(x) # "error" /\ \E d : Restores(d)
  BY Before, RestoreIs
<1>2. PICK d : Restores(d)
  BY <1>1
<1>3. uf'[x].xa = uf[x].xa
  BY <1>2, FidAgain
<1>4. CASE IsXattr(x)
  BY <1>3, <1>4 DEF Shown, IsXattr, npfs_xattrread
<1>5. CASE ~IsXattr(x)
  <2>1. ~IsXattr(x)'
    BY <1>3, <1>5 DEF IsXattr
  <2>2. /\ npfs_getattr(x)' = npfs_getattr(x) /\ npfs_stat(x)' = npfs_stat(x)
        /\ npfs_statfs(x)' = npfs_statfs(x) /\ npfs_readlink(x)' = npfs_readlink(x)
    BY <1>1, <1>2, FileShown
  <2>3. /\ npfs_read(x)' = npfs_read(x) /\ npfs_write(x)' = npfs_write(x)
        /\ npfs_fsync(x)' = npfs_fsync(x) /\ npfs_flock(x)' = npfs_flock(x)
        /\ npfs_getlock(x)' = npfs_getlock(x)
    BY <1>1, <1>2, <1>5, DataShown
  <2>. QED  BY <1>5, <2>1, <2>2, <2>3 DEF Shown
<1>. QED  BY <1>4, <1>5

\* A restored connection does not open two descriptors for a fid.
LEMMA RestoreSingle ==
    ASSUME UfsInv, calm, Single, ufs_restore
    PROVE  Single'
<1>1. PICK d : Restores(d)
  BY Before, RestoreIs
<1>2. ASSUME NEW x \in UFids PROVE OneOpen(uf'[x])
  <2>1. CASE uf[x].used
    BY <1>1, <2>1, FidAgain DEF OneOpen
  <2>2. CASE ~uf[x].used
    <3>1. uf'[x] = uf[x]
      BY <1>1, <2>2 DEF Restores
    <3>. QED  BY <3>1 DEF Single
  <2>. QED  BY <2>1, <2>2
<1>. QED  BY <1>2 DEF Single, OneOpen

\* Every step keeps Single.
LEMMA NextSingle ==
    ASSUME UfsInv, Single, [UfsNext]_uvars
    PROVE  Single'
<1>1. CASE UfsNext
  <2>1. calm
    BY <1>1 DEF UfsNext
  <2>2. ASSUME NEW x \in UFids, Handle(x) PROVE Single'
    BY <2>1, <2>2, HandleSingle
  <2>3. ASSUME NEW x \in UFids, NEW y \in UFids, HandleTwo(x, y) PROVE Single'
    BY <2>1, <2>3, HandleTwoSingle
  <2>4. CASE ufs_restore
    BY <2>1, <2>4, RestoreSingle
  <2>. QED  BY <1>1, <2>2, <2>3, <2>4 DEF UfsNext
<1>2. CASE UNCHANGED uvars
  BY <1>2 DEF uvars, Single, OneOpen
<1>. QED  BY <1>1, <1>2

\* A connection that was checkpointed and restored (ufs_checkpoint, ufs_restore) shows
\* a client through every fid what the old one did, apart from those whose open failed.
THEOREM RestoredSame == UfsSpec => RestoreSame
<1>1. UfsInit => Single
  BY DEF UfsInit, Single, OneOpen, Unused, UfsFid
<1>2. UfsInv /\ Single /\ [UfsNext]_uvars => Single'
  BY NextSingle
<1>3. UfsInv /\ Single /\ [UfsNext]_uvars =>
        [\A x \in UFids : \/ uf[x].used /\ (Lasting(x) \/ IsXattr(x)) => Shown(x)' = Shown(x)
                          \/ ~(calm /\ ufs_restore)]_uvars
  BY RestoredShown
<1>. QED  BY <1>1, <1>2, <1>3, UfsInvariant, PTL DEF UfsSpec, RestoreSame
=============================================================================
