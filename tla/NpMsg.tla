------------------------------- MODULE NpMsg -------------------------------
(***************************************************************************)
(* The messages of 9P2000, 9P2000.u and 9P2000.L as np.c writes and reads  *)
(* them.  A packet is the sequence of its fields, each with its place and  *)
(* width; what a field holds is its name, and a number where the number is *)
(* a length or a count.  So the layouts and the sizes are the code's, the  *)
(* values are not there.                                                   *)
(*                                                                         *)
(* The arguments of np_create_* are a record x:                            *)
(*   dotu  the conversation is 9P2000.u (Npconn.dotu, Npcfsys.dotu)        *)
(*   a, b  the length of the first string and of the other ones            *)
(*   n     the elements of a walk                                          *)
(*   c     the bytes of data                                               *)
(***************************************************************************)
EXTENDS Integers, Sequences, SequencesExt

CONSTANTS MAXWELEM   \* elements of a walk: wnames, wqids of Npfcall

ASSUME NpMsgAssumption == MAXWELEM \in Nat

\* What is put or read: an integer, a string (its length and its bytes), data
\* (without the length), or n strings or qids.  j numbers the integers of a qid
\* and the elements of a walk.
Item(k, f, j, w, v) == [k |-> k, f |-> <<f, j>>, w |-> w, v |-> v]
I8(f) == <<Item("int", f, 0, 1, 0)>>
I16(f) == <<Item("int", f, 0, 2, 0)>>
I32(f) == <<Item("int", f, 0, 4, 0)>>
I64(f) == <<Item("int", f, 0, 8, 0)>>
C16(f, v) == <<Item("int", f, 0, 2, v)>>
C32(f, v) == <<Item("int", f, 0, 4, v)>>
Data(f, l) == <<Item("data", f, 0, l, l)>>
StrN(f, j, l) == <<Item("str", f, j, 2 + l, l)>>
Str(f, l) == StrN(f, 0, l)

\* buf_put_qid, buf_get_qid
QidN(f, j) == <<Item("int", f, j + 1, 1, 0), Item("int", f, j + 2, 4, 0), Item("int", f, j + 3, 8, 0)>>
Qid(f) == QidN(f, 0)

\* What only 9P2000.u has.
Dotu(x, s) == IF x.dotu THEN s ELSE <<>>
DotuSize(x, n) == IF x.dotu THEN n ELSE 0

Each(f(_), n) == FlattenSeq([i \in 1..n |-> f(i)])

\* Mutants: the size of the record itself is counted; an empty extension is not.
size_wstat_more(x) ==
    2 + 2 + 4 + 13 + 4 + 4 + 4 + 8 + 8 + x.a + 3 * x.b + DotuSize(x, 4 + 4 + 4 + 2 + x.b)
size_wstat_less(x) ==
    2 + 4 + 13 + 4 + 4 + 4 + 8 + 8 + x.a + 3 * x.b + DotuSize(x, 4 + 4 + 4 + x.b)

\* size_wstat, without the size[2] of the record itself
size_wstat(x) ==
    2 + 4 + 13 + 4 + 4 + 4 + 8 + 8 + x.a + 3 * x.b + DotuSize(x, 4 + 4 + 4 + 2 + x.b)
size_statfs == 4 + 8 + 8 + 8 + 8 + 8 + 8 + 8 + 4

buf_put_wstat(x) ==
    C16("stat.size", size_wstat(x)) \o I16("stat.type") \o I32("stat.dev") \o Qid("stat.qid")
    \o I32("stat.mode") \o I32("stat.atime") \o I32("stat.mtime") \o I64("stat.length")
    \o Str("stat.name", x.a) \o Str("stat.uid", x.b) \o Str("stat.gid", x.b) \o Str("stat.muid", x.b)
    \o Dotu(x, Str("stat.extension", x.b) \o I32("stat.n_uid") \o I32("stat.n_gid") \o I32("stat.n_muid"))
buf_put_statfs ==
    I32("type") \o I32("bsize") \o I64("blocks") \o I64("bfree") \o I64("bavail") \o I64("files")
    \o I64("ffree") \o I64("fsid") \o I32("namelen")
buf_put_dirent(x) == Qid("qid") \o I64("offset") \o I8("type") \o Str("name", x.a)

\* The strings read have no length yet.
buf_get_stat(dotu) ==
    I16("stat.size") \o I16("stat.type") \o I32("stat.dev") \o Qid("stat.qid")
    \o I32("stat.mode") \o I32("stat.atime") \o I32("stat.mtime") \o I64("stat.length")
    \o Str("stat.name", 0) \o Str("stat.uid", 0) \o Str("stat.gid", 0) \o Str("stat.muid", 0)
    \o Dotu([dotu |-> dotu], Str("stat.extension", 0) \o I32("stat.n_uid") \o I32("stat.n_gid")
                             \o I32("stat.n_muid"))
buf_get_statfs ==
    I32("type") \o I32("bsize") \o I64("blocks") \o I64("bfree") \o I64("bavail") \o I64("files")
    \o I64("ffree") \o I64("fsid") \o I32("namelen")

----------------------------------------------------------------------------
(* struct cbuf *)

\* Mutant: what does not fit is passed over.
Past_over(b) == b.p

\* buf_check_size: a field that does not fit moves p beyond the end, but not
\* when p is already at the end.
Past(b) == IF b.p < b.ep THEN b.ep + 1 ELSE b.p
buf_check_size(b, len) == b.p + len <= b.ep
buf_check_overflow(b) == b.p > b.ep

\* A field is put, with where it is, or there is no room.
buf_put(b, it) ==
    IF buf_check_size(b, it.w)
    THEN [b EXCEPT !.p = @ + it.w, !.out = @ \cup {[k |-> it.k, f |-> it.f, w |-> it.w, v |-> it.v, at |-> b.p]}]
    ELSE [b EXCEPT !.p = Past(b)]

\* Fields one after the other.
buf_put_all(b, items) ==
    LET c[k \in 0..Len(items)] == IF k = 0 THEN b ELSE buf_put(c[k - 1], items[k]) IN c[Len(items)]

\* np_create_common allocates and puts the header; np_create_* puts the fields;
\* np_post_check gives the packet, or none.
Create(t, size, items) ==
    [t |-> t, size |-> size + 4 + 1 + 2, items |-> C32("size", size + 7) \o I8("id") \o I16("tag") \o items]
NoPacket == [t |-> "none", size |-> 0, fields |-> {}]
np_post_check(m) ==
    LET b == buf_put_all([p |-> 0, ep |-> m.size, out |-> {}], m.items) IN
    IF buf_check_overflow(b) THEN NoPacket ELSE [t |-> m.t, size |-> m.size, fields |-> b.out]

----------------------------------------------------------------------------
(* 9P2000 and 9P2000.u.  Where np_create_* keeps a value in another member   *)
(* of its Npfcall than np_deserialize reads it into (Tauth, Tsymlink), the   *)
(* name is the reader's.                                                     *)

np_create_tversion(x) == Create("Tversion", 4 + 2 + x.a, I32("msize") \o Str("version", x.a))
np_create_rversion(x) == Create("Rversion", 4 + 2 + x.a, I32("msize") \o Str("version", x.a))
np_create_tauth(x) ==
    Create("Tauth", 4 + 2 + 2 + x.a + x.b,
           I32("afid") \o Str("uname", x.a) \o Str("aname", x.b) \o Dotu(x, I32("n_uname")))
np_create_rauth(x) == Create("Rauth", 13, Qid("qid"))
np_create_rerror(x) ==
    Create("Rerror", 2 + x.a + DotuSize(x, 4), Str("ename", x.a) \o Dotu(x, I32("ecode")))
np_create_rerror1(x) ==
    Create("Rerror", 2 + x.a + DotuSize(x, 4), Data("ename", x.a) \o Dotu(x, I32("ecode")))
np_create_tflush(x) == Create("Tflush", 2, I16("oldtag"))
np_create_rflush(x) == Create("Rflush", 0, <<>>)

\* Mutant: the size does not count the n_uname of 9P2000.u.
np_create_tattach_short(x) ==
    Create("Tattach", 4 + 4 + 2 + 2 + x.a + x.b,
           I32("fid") \o I32("afid") \o Str("uname", x.a) \o Str("aname", x.b) \o Dotu(x, I32("n_uname")))

np_create_tattach(x) ==
    Create("Tattach", 4 + 4 + 2 + 2 + x.a + x.b + DotuSize(x, 4),
           I32("fid") \o I32("afid") \o Str("uname", x.a) \o Str("aname", x.b) \o Dotu(x, I32("n_uname")))
np_create_rattach(x) == Create("Rattach", 13, Qid("qid"))
np_create_twalk(x) ==
    IF x.n > MAXWELEM THEN Create("none", 0, <<>>)
    ELSE Create("Twalk", 4 + 4 + 2 + x.n * 2 + x.n * x.a,
                I32("fid") \o I32("newfid") \o C16("nwname", x.n)
                \o Each(LAMBDA i : StrN("wnames", i, x.a), x.n))
np_create_rwalk(x) ==
    IF x.n > MAXWELEM THEN Create("none", 0, <<>>)
    ELSE Create("Rwalk", 2 + x.n * 13,
                C16("nwqid", x.n) \o Each(LAMBDA i : QidN("wqids", 3 * i), x.n))
np_create_topen(x) == Create("Topen", 4 + 1, I32("fid") \o I8("mode"))
np_create_ropen(x) == Create("Ropen", 13 + 4, Qid("qid") \o I32("iounit"))
np_create_tcreate(x) ==
    Create("Tcreate", 4 + 2 + x.a + 4 + 1, I32("fid") \o Str("name", x.a) \o I32("perm") \o I8("mode"))
np_create_rcreate(x) == Create("Rcreate", 13 + 4, Qid("qid") \o I32("iounit"))
np_create_tread(x) == Create("Tread", 4 + 8 + 4, I32("fid") \o I64("offset") \o I32("count"))
np_alloc_rread(x) == Create("Rread", 4 + x.c, C32("count", x.c) \o Data("data", x.c))
np_create_rread(x) == np_alloc_rread(x)
np_create_twrite(x) ==
    Create("Twrite", 4 + 8 + 4 + x.c,
           I32("fid") \o I64("offset") \o C32("count", x.c) \o Data("data", x.c))
np_create_rwrite(x) == Create("Rwrite", 4, I32("count"))
np_create_tclunk(x) == Create("Tclunk", 4, I32("fid"))
np_create_rclunk(x) == Create("Rclunk", 0, <<>>)
np_create_tremove(x) == Create("Tremove", 4, I32("fid"))
np_create_rremove(x) == Create("Rremove", 0, <<>>)
np_create_tstat(x) == Create("Tstat", 4, I32("fid"))
np_create_rstat(x) ==
    Create("Rstat", 2 + 2 + size_wstat(x), C16("n", size_wstat(x) + 2) \o buf_put_wstat(x))
np_create_twstat(x) ==
    Create("Twstat", 4 + 2 + 2 + size_wstat(x),
           I32("fid") \o C16("n", size_wstat(x) + 2) \o buf_put_wstat(x))
np_create_rwstat(x) == Create("Rwstat", 0, <<>>)

(* 9P2000.L *)

np_create_lerror(x) == Create("Tlerror", 4, I32("ecode"))
np_create_rlerror(x) == Create("Rlerror", 4, I32("ecode"))
np_create_tstatfs(x) == Create("Tstatfs", 4, I32("fid"))
np_create_rstatfs(x) == Create("Rstatfs", size_statfs, buf_put_statfs)
np_create_tlopen(x) == Create("Tlopen", 4 + 4, I32("fid") \o I32("flags"))
np_create_rlopen(x) == Create("Rlopen", 13 + 4, Qid("qid") \o I32("iounit"))
np_create_tlcreate(x) ==
    Create("Tlcreate", 4 + 2 + x.a + 4 + 4 + 4,
           I32("fid") \o Str("name", x.a) \o I32("flags") \o I32("perm") \o I32("gid"))
np_create_rlcreate(x) == Create("Rlcreate", 13 + 4, Qid("qid") \o I32("iounit"))
np_create_tsymlink(x) ==
    Create("Tsymlink", 4 + 2 + x.a + 2 + x.b + 4,
           I32("dfid") \o Str("name", x.a) \o Str("symtgt", x.b) \o I32("gid"))
np_create_rsymlink(x) == Create("Rsymlink", 13, Qid("qid"))
np_create_tmknod(x) ==
    Create("Tmknod", 4 + 2 + x.a + 4 + 4 + 4 + 4,
           I32("fid") \o Str("name", x.a) \o I32("perm") \o I32("major") \o I32("minor") \o I32("gid"))
np_create_rmknod(x) == Create("Rmknod", 13, Qid("qid"))
np_create_trename(x) == Create("Trename", 4 + 4 + 2 + x.a, I32("fid") \o I32("dfid") \o Str("name", x.a))
np_create_rrename(x) == Create("Rrename", 0, <<>>)
np_create_treadlink(x) == Create("Treadlink", 4, I32("fid"))
np_create_rreadlink(x) == Create("Rreadlink", 2 + x.a, Str("symtgt", x.a))
np_create_tgetattr(x) == Create("Tgetattr", 4 + 8, I32("fid") \o I64("mask"))

AttrTimes == I64("atime_sec") \o I64("atime_nsec") \o I64("mtime_sec") \o I64("mtime_nsec")
np_create_rgetattr(x) ==
    Create("Rgetattr", 8 + 13 + 4 + 4 + 4 + 15 * 8,
           I64("mask") \o Qid("qid") \o I32("mode") \o I32("uid") \o I32("gid") \o I64("nlink")
           \o I64("rdev") \o I64("size") \o I64("blksize") \o I64("blocks") \o AttrTimes
           \o I64("ctime_sec") \o I64("ctime_nsec") \o I64("btime_sec") \o I64("btime_nsec")
           \o I64("gen") \o I64("data_version"))
np_create_tsetattr(x) ==
    Create("Tsetattr", 4 + 4 + 4 + 4 + 8 + 8 + 8 + 8,
           I32("fid") \o I32("mask") \o I32("mode") \o I32("uid") \o I32("gid") \o I64("size") \o AttrTimes)
np_create_rsetattr(x) == Create("Rsetattr", 0, <<>>)
np_create_txattrwalk(x) ==
    Create("Txattrwalk", 4 + 4 + 2 + x.a, I32("fid") \o I32("newfid") \o Str("name", x.a))
np_create_rxattrwalk(x) == Create("Rxattrwalk", 8, I64("asize"))
np_create_txattrcreate(x) ==
    Create("Txattrcreate", 4 + 2 + x.a + 8 + 4,
           I32("fid") \o Str("name", x.a) \o I64("asize") \o I32("flags"))
np_create_rxattrcreate(x) == Create("Rxattrcreate", 0, <<>>)
np_create_treaddir(x) == Create("Treaddir", 4 + 8 + 4, I32("fid") \o I64("offset") \o I32("count"))
np_create_rreaddir(x) == Create("Rreaddir", 4 + x.c, C32("count", x.c) \o Data("data", x.c))
np_alloc_rreaddir(x) == np_create_rreaddir(x)
np_create_tfsync(x) == Create("Tfsync", 4, I32("fid"))
np_create_rfsync(x) == Create("Rfsync", 0, <<>>)

LockRange == I64("offset") \o I64("locklength") \o I32("procid")
np_create_tlock(x) ==
    Create("Tlock", 4 + 1 + 4 + 8 + 8 + 4 + 2 + x.a,
           I32("fid") \o I8("locktype") \o I32("flags") \o LockRange \o Str("clientid", x.a))
np_create_rlock(x) == Create("Rlock", 1, I8("lockstatus"))
np_create_tgetlock(x) ==
    Create("Tgetlock", 4 + 1 + 8 + 8 + 4 + 2 + x.a,
           I32("fid") \o I8("locktype") \o LockRange \o Str("clientid", x.a))
np_create_rgetlock(x) ==
    Create("Rgetlock", 1 + 8 + 8 + 4 + 2 + x.a, I8("locktype") \o LockRange \o Str("clientid", x.a))
np_create_tlink(x) == Create("Tlink", 4 + 4 + 2 + x.a, I32("dfid") \o I32("fid") \o Str("name", x.a))
np_create_rlink(x) == Create("Rlink", 0, <<>>)
np_create_tmkdir(x) ==
    Create("Tmkdir", 4 + 2 + x.a + 4 + 4, I32("fid") \o Str("name", x.a) \o I32("perm") \o I32("gid"))
np_create_rmkdir(x) == Create("Rmkdir", 13, Qid("qid"))
np_create_trenameat(x) ==
    Create("Trenameat", 4 + 2 + x.a + 4 + 2 + x.b,
           I32("fid") \o Str("oname", x.a) \o I32("newfid") \o Str("name", x.b))
np_create_rrenameat(x) == Create("Rrenameat", 0, <<>>)
np_create_tunlinkat(x) ==
    Create("Tunlinkat", 4 + 2 + x.a + 4, I32("fid") \o Str("name", x.a) \o I32("flags"))
np_create_runlinkat(x) == Create("Runlinkat", 0, <<>>)

\* All of them.
Made2000(x) ==
    {np_create_tversion(x), np_create_rversion(x), np_create_tauth(x), np_create_rauth(x),
     np_create_rerror(x), np_create_rerror1(x), np_create_tflush(x), np_create_rflush(x),
     np_create_tattach(x), np_create_rattach(x), np_create_twalk(x), np_create_rwalk(x),
     np_create_topen(x), np_create_ropen(x), np_create_tcreate(x), np_create_rcreate(x),
     np_create_tread(x), np_create_rread(x), np_create_twrite(x), np_create_rwrite(x),
     np_create_tclunk(x), np_create_rclunk(x), np_create_tremove(x), np_create_rremove(x),
     np_create_tstat(x), np_create_rstat(x), np_create_twstat(x), np_create_rwstat(x)}
MadeL(x) ==
    {np_create_lerror(x), np_create_rlerror(x), np_create_tstatfs(x), np_create_rstatfs(x),
     np_create_tlopen(x), np_create_rlopen(x), np_create_tlcreate(x), np_create_rlcreate(x),
     np_create_tsymlink(x), np_create_rsymlink(x), np_create_tmknod(x), np_create_rmknod(x),
     np_create_trename(x), np_create_rrename(x), np_create_treadlink(x), np_create_rreadlink(x),
     np_create_tgetattr(x), np_create_rgetattr(x), np_create_tsetattr(x), np_create_rsetattr(x),
     np_create_txattrwalk(x), np_create_rxattrwalk(x), np_create_txattrcreate(x),
     np_create_rxattrcreate(x), np_create_treaddir(x), np_alloc_rreaddir(x), np_create_tfsync(x),
     np_create_rfsync(x), np_create_tlock(x), np_create_rlock(x), np_create_tgetlock(x),
     np_create_rgetlock(x), np_create_tlink(x), np_create_rlink(x), np_create_tmkdir(x),
     np_create_rmkdir(x), np_create_trenameat(x), np_create_rrenameat(x), np_create_tunlinkat(x),
     np_create_runlinkat(x)}

----------------------------------------------------------------------------
(* np_set_rread_count, np_set_rreaddir_count: less was read than was allocated *)

SetCount(q, count) ==
    [q EXCEPT !.size = 4 + 1 + 2 + 4 + count,
              !.fields = {IF c.f = <<"data", 0>> THEN [c EXCEPT !.w = count, !.v = count]
                          ELSE IF c.f = <<"count", 0>> THEN [c EXCEPT !.v = count]
                          ELSE IF c.f = <<"size", 0>> THEN [c EXCEPT !.v = 4 + 1 + 2 + 4 + count]
                          ELSE c : c \in q.fields}]

----------------------------------------------------------------------------
(* np_deserialize: what is read for each type, in order *)

Walked(k, f) == <<Item(k, f, 0, 0, 0)>>

Gets9P(x) ==
    [Tversion |-> I32("msize") \o Str("version", 0),
     Rversion |-> I32("msize") \o Str("version", 0),
     Tauth |-> I32("afid") \o Str("uname", 0) \o Str("aname", 0) \o Dotu(x, I32("n_uname")),
     Rauth |-> Qid("qid"),
     Tflush |-> I16("oldtag"),
     Tattach |-> I32("fid") \o I32("afid") \o Str("uname", 0) \o Str("aname", 0) \o Dotu(x, I32("n_uname")),
     Rattach |-> Qid("qid"),
     Rerror |-> Str("ename", 0) \o Dotu(x, I32("ecode")),
     Twalk |-> I32("fid") \o I32("newfid") \o I16("nwname") \o Walked("strs", "wnames"),
     Rwalk |-> I16("nwqid") \o Walked("qids", "wqids"),
     Topen |-> I32("fid") \o I8("mode"),
     Ropen |-> Qid("qid") \o I32("iounit"),
     Rcreate |-> Qid("qid") \o I32("iounit"),
     Tcreate |-> I32("fid") \o Str("name", 0) \o I32("perm") \o I8("mode") \o Dotu(x, Str("extension", 0)),
     Tread |-> I32("fid") \o I64("offset") \o I32("count"),
     Rread |-> I32("count") \o Data("data", 0),
     Twrite |-> I32("fid") \o I64("offset") \o I32("count") \o Data("data", 0),
     Rwrite |-> I32("count"),
     Tclunk |-> I32("fid"), Tremove |-> I32("fid"), Tstat |-> I32("fid"),
     Rflush |-> <<>>, Rclunk |-> <<>>, Rremove |-> <<>>, Rwstat |-> <<>>,
     Rstat |-> I16("n") \o buf_get_stat(x.dotu),
     Twstat |-> I32("fid") \o I16("n") \o buf_get_stat(x.dotu)]
Gets2000 == Gets9P([dotu |-> FALSE])
Gets2000u == Gets9P([dotu |-> TRUE])

GetsL1 ==
    [Rlerror |-> I32("ecode"),
     Tstatfs |-> I32("fid"),
     Rstatfs |-> buf_get_statfs,
     Tlopen |-> I32("fid") \o I32("flags"),
     Rlopen |-> Qid("qid") \o I32("iounit"),
     Tlcreate |-> I32("fid") \o Str("name", 0) \o I32("flags") \o I32("perm") \o I32("gid"),
     Rlcreate |-> Qid("qid") \o I32("iounit"),
     Tsymlink |-> I32("dfid") \o Str("name", 0) \o Str("symtgt", 0) \o I32("gid"),
     Rsymlink |-> Qid("qid"),
     Tmknod |-> I32("fid") \o Str("name", 0) \o I32("perm") \o I32("major") \o I32("minor") \o I32("gid"),
     Rmknod |-> Qid("qid"),
     Trename |-> I32("fid") \o I32("dfid") \o Str("name", 0),
     Rrename |-> <<>>,
     Treadlink |-> I32("fid"),
     Rreadlink |-> Str("symtgt", 0),
     Tgetattr |-> I32("fid") \o I64("mask"),
     Rgetattr |->
        I64("mask") \o Qid("qid") \o I32("mode") \o I32("uid") \o I32("gid") \o I64("nlink")
        \o I64("rdev") \o I64("size") \o I64("blksize") \o I64("blocks") \o AttrTimes
        \o I64("ctime_sec") \o I64("ctime_nsec") \o I64("btime_sec") \o I64("btime_nsec")
        \o I64("gen") \o I64("data_version"),
     Tsetattr |->
        I32("fid") \o I32("mask") \o I32("mode") \o I32("uid") \o I32("gid") \o I64("size") \o AttrTimes]

GetsL2 ==
    [Rsetattr |-> <<>>,
     Txattrwalk |-> I32("fid") \o I32("newfid") \o Str("name", 0),
     Rxattrwalk |-> I64("asize"),
     Txattrcreate |-> I32("fid") \o Str("name", 0) \o I64("asize") \o I32("flags"),
     Rxattrcreate |-> <<>>,
     Treaddir |-> I32("fid") \o I64("offset") \o I32("count"),
     Rreaddir |-> I32("count") \o Data("data", 0),
     Tfsync |-> I32("fid"),
     Rfsync |-> <<>>,
     Tlock |-> I32("fid") \o I8("locktype") \o I32("flags") \o LockRange \o Str("clientid", 0),
     Rlock |-> I8("lockstatus"),
     Tgetlock |-> I32("fid") \o I8("locktype") \o LockRange \o Str("clientid", 0),
     Rgetlock |-> I32("fid") \o I8("locktype") \o LockRange \o Str("clientid", 0),
     Tlink |-> I32("dfid") \o I32("fid") \o Str("name", 0),
     Rlink |-> <<>>,
     Tmkdir |-> I32("fid") \o Str("name", 0) \o I32("perm") \o I32("gid"),
     Rmkdir |-> Qid("qid"),
     Trenameat |-> I32("fid") \o Str("oname", 0) \o I32("newfid") \o Str("name", 0),
     Rrenameat |-> <<>>,
     Tunlinkat |-> I32("fid") \o Str("name", 0) \o I32("flags"),
     Runlinkat |-> <<>>]

Known == DOMAIN Gets2000 \cup DOMAIN GetsL1 \cup DOMAIN GetsL2
Gets(t, dotu) ==
    IF t \in DOMAIN GetsL1 THEN GetsL1[t]
    ELSE IF t \in DOMAIN GetsL2 THEN GetsL2[t]
    ELSE IF dotu THEN Gets2000u[t] ELSE Gets2000[t]

\* A reading r of a packet: where it is (p, ep), the last integer, and what each
\* field has got: the name of a field of the packet, nothing (0 or a null pointer
\* because the packet is at its end) or the bytes of something else.
Nothing == <<"nothing", 0>>
Other == <<"other", 0>>
Here(r, k) == {c \in r.fields : c.at = r.p /\ c.k = k}
NameOf(S) == IF S = {} THEN Other ELSE (CHOOSE c \in S : TRUE).f
ValueOf(S, junk) == IF S = {} THEN junk ELSE (CHOOSE c \in S : TRUE).v
Got(r, f, g) == [r EXCEPT !.got = @ \cup {<<f, g>>}]

buf_get_int(r, it) ==
    LET S == {c \in Here(r, "int") : c.w = it.w} IN
    IF buf_check_size(r, it.w)
    THEN [Got(r, it.f, NameOf(S)) EXCEPT !.p = @ + it.w, !.last = ValueOf(S, r.junk)]
    ELSE [Got(r, it.f, Nothing) EXCEPT !.p = Past(r), !.last = 0]

\* buf_alloc, of the bytes of what started at S.  (The code's len is an int; a
\* count that does not fit, which no np_create_* makes, would be negative there.)
buf_alloc(r, f, len, S) ==
    IF buf_check_size(r, len) THEN [Got(r, f, NameOf(S)) EXCEPT !.p = @ + len]
    ELSE [Got(r, f, Nothing) EXCEPT !.p = Past(r)]

buf_get_str(r, it) ==
    LET S == Here(r, "str")
        room == buf_check_size(r, 2)
        len == IF room THEN ValueOf(S, r.junk) ELSE 0 IN
    buf_alloc([r EXCEPT !.p = IF room THEN @ + 2 ELSE Past(r)], it.f, len, IF room THEN S ELSE {})

Get1(r, it) ==
    CASE it.k = "int" -> buf_get_int(r, it)
      [] it.k = "str" -> buf_get_str(r, it)
      [] it.k = "data" -> buf_alloc(r, it.f, r.last, {c \in Here(r, "data") : c.w = r.last})

buf_get_all(r, items) ==
    LET c[k \in 0..Len(items)] == IF k = 0 THEN r ELSE Get1(c[k - 1], items[k]) IN c[Len(items)]

\* The elements of a walk, as many as the integer before them says, but no more
\* than max.
GetWalk(r, it, max) ==
    IF r.err THEN r
    ELSE IF it.k \notin {"strs", "qids"} THEN Get1(r, it)
    ELSE IF r.last > max THEN [r EXCEPT !.err = TRUE]
    ELSE buf_get_all(r, CASE it.k = "strs" -> Each(LAMBDA i : StrN(it.f[1], i, 0), r.last)
                          [] it.k = "qids" -> Each(LAMBDA i : QidN(it.f[1], 3 * i), r.last))

\* Mutant: the longest walk is refused.
GetItem_fewer(r, it) == GetWalk(r, it, MAXWELEM - 1)

GetItem(r, it) == GetWalk(r, it, MAXWELEM)

GetItems(r, items) ==
    LET c[k \in 0..Len(items)] == IF k = 0 THEN r ELSE GetItem(c[k - 1], items[k]) IN c[Len(items)]

\* What np_deserialize makes of a packet; junk is the number that misread bytes
\* give.
np_deserialize(q, dotu, junk) ==
    LET r0 == [p |-> 4, ep |-> q.size, last |-> 0, got |-> {}, err |-> q.t \notin Known,
               junk |-> junk, fields |-> q.fields]
        r == IF r0.err THEN r0
             ELSE GetItems(r0, I8("id") \o I16("tag") \o Gets(q.t, dotu)) IN
    [ok |-> ~r.err /\ ~buf_check_overflow(r), got |-> r.got]

----------------------------------------------------------------------------
(* The records of a directory *)

\* np_serialize_stat and np_serialize_dirent return how many bytes they put.
Serialize(size, items, buflen) ==
    LET b == buf_put_all([p |-> 0, ep |-> buflen, out |-> {}], items) IN
    IF size > buflen \/ buf_check_overflow(b) THEN [size |-> 0, fields |-> {}]
    ELSE [size |-> b.p, fields |-> b.out]

\* Mutant: the size is not looked at first.
np_serialize_stat_blind(x, buflen) == Serialize(0, buf_put_wstat(x), buflen)

np_serialize_stat(x, buflen) == Serialize(size_wstat(x), buf_put_wstat(x), buflen)
np_serialize_dirent(x, buflen) == Serialize(13 + 8 + 1 + 2 + x.a, buf_put_dirent(x), buflen)

\* The bytes of the record at the front of the buffer, or 0.
np_deserialize_stat(fields, buflen, dotu, junk) ==
    LET r == buf_get_all([p |-> 0, ep |-> buflen, last |-> 0, got |-> {}, junk |-> junk,
                             fields |-> fields], buf_get_stat(dotu)) IN
    [size |-> IF buf_check_overflow(r) THEN 0 ELSE r.p, got |-> r.got]
=============================================================================
