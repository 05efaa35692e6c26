------------------------------- MODULE NpWire -------------------------------
(***************************************************************************)
(* Messages on their way: one side makes them with np_create_*, the        *)
(* transport carries the bytes in pieces of any size, and the loop at the  *)
(* heart of np_conn_read_proc and npc_read_proc takes messages out of its  *)
(* buffer and reads them with np_deserialize.  And the records a server    *)
(* packs into the reply to a read of a directory.                          *)
(*                                                                         *)
(* The other side may be another program: its message may lack its end.    *)
(***************************************************************************)
EXTENDS NpMsg, FiniteSets, FiniteSetsExt

CONSTANTS MSizes,    \* sizes of the receiver's buffer
          Lengths,   \* lengths of strings
          Elements,  \* elements of a walk
          Counts,    \* bytes of data
          Cuts,      \* how much a message may lack, 0 included
          Junk,      \* the numbers that misread bytes may give
          AnyStop,   \* a piece may end at any byte, not only around the ends of messages
          MaxSent    \* how many messages are sent

\* The bytes of a string are counted in 2 bytes, and so are those of a stat with
\* five of them, and the elements of a walk; the size of a packet is an int.
MaxLength == 13094
MaxElements == 65535
MaxCount == 2147483624

ASSUME NpWireAssumption ==
    /\ UNION {MSizes, Lengths, Elements, Counts, Cuts, Junk} \subseteq Nat
    /\ 0 \in Cuts /\ MaxSent \in Nat /\ AnyStop \in BOOLEAN
    /\ \A l \in Lengths : l <= MaxLength
    /\ \A n \in Elements : n <= MaxElements
    /\ \A c \in Counts : c <= MaxCount

VARIABLES dotu,    \* conn->dotu, fs->dotu: the same on both sides
          msize,   \* the size of the buffer
          sent,    \* the packets given to the transport
          unmade,  \* the types of those np_create_* could not make
          off,     \* how many bytes have been received
          base,    \* where in the stream the buffer starts: n is off - base
          pc,      \* the reading loop
          seen,    \* the messages np_deserialize has read
          dir      \* a read of a directory: count, n and the last record packed

stream == <<sent, unmade, off, base, seen>>
vars == <<dotu, msize, stream, pc, dir>>

Args(d) == [dotu : {d}, a : Lengths, b : Lengths, n : Elements, c : Counts]
\* The length of the stream before packet i, and the place of the packet there.
Start(i) ==
    LET at[k \in 0..Len(sent)] == IF k = 0 THEN 0 ELSE at[k - 1] + sent[k].size IN at[i - 1]
Names(m) == {m.items[i].f : i \in DOMAIN m.items}

(***************************************************************************)
(* The buffer holds what was received and not yet read, never more than    *)
(* its size; every message read was sent.                                  *)
(***************************************************************************)
TypeOK ==
    /\ dotu \in BOOLEAN /\ msize \in MSizes
    /\ Len(sent) <= MaxSent /\ Len(seen) <= Len(sent)
    /\ off \in Nat /\ base \in Nat
    /\ 0 <= off - base /\ off - base <= msize
    /\ pc \in {"read", "again", "refused", "end", "dir"}
    /\ dir.n <= dir.count

Init ==
    /\ dotu \in BOOLEAN
    /\ msize \in MSizes
    /\ sent = <<>> /\ unmade = {} /\ off = 0 /\ base = 0 /\ seen = <<>>
    /\ pc \in {"read", "dir"}
    /\ \E k \in {"stat"} \cup (IF dotu /\ pc = "dir" THEN {"dirent"} ELSE {}) :
         dir = [k |-> k, count |-> msize, n |-> 0, rec |-> <<>>]

\* A message is made: np_create_*, np_set_rread_count with no more than was
\* allocated, np_set_tag; or it comes short from elsewhere.
Packet(m, count, cut) ==
    LET q == np_post_check(m)
        q1 == IF q.t \in {"Rread", "Rreaddir"} THEN SetCount(q, count) ELSE q IN
    [t |-> q1.t, size |-> q1.size - cut, fields |-> q1.fields, want |-> Names(m), cut |-> cut]

Send(m, count, cut) ==
    /\ pc # "dir" /\ Len(sent) < MaxSent
    /\ \E q \in {Packet(m, count, cut)} :
         IF q.t = "none" THEN unmade' = unmade \cup {m.t} /\ UNCHANGED sent
         ELSE q.size >= 7 /\ sent' = Append(sent, q) /\ UNCHANGED unmade
    /\ UNCHANGED <<dotu, msize, off, base, seen, pc, dir>>

\* Any message may be the first, a small one follows.
Made == [d \in BOOLEAN |-> UNION {Made2000(x) \cup (IF d THEN MadeL(x) ELSE {}) : x \in Args(d)}]
DataIn(m) == {m.items[i].v : i \in {j \in DOMAIN m.items : m.items[j].k = "data"}}
SendAny ==
    /\ sent = <<>>
    /\ \E m \in Made[dotu], cut \in Cuts :
         \E count \in {k \in Counts : \A c \in DataIn(m) : k <= c} : Send(m, count, cut)
SendNext ==
    /\ sent # <<>>
    /\ Send(np_create_tclunk(CHOOSE x \in Args(dotu) : TRUE), 0, 0)

----------------------------------------------------------------------------
(* The reading loop *)

\* Where a piece may end.
EndStops ==
    UNION {{Start(i) + 3, Start(i) + 4, Start(i) + sent[i].size - 1, Start(i) + sent[i].size} : i \in DOMAIN sent}
Stops == IF AnyStop THEN 1..Start(Len(sent) + 1) ELSE EndStops

\* np_trans_read(trans, fc->pkt + n, room)
ReadInto(room) ==
    /\ pc = "read"
    /\ \E s \in Stops : /\ off < s /\ s - off <= room /\ s <= Start(Len(sent) + 1)
                        /\ off' = s
    /\ pc' = "again"
    /\ UNCHANGED <<dotu, msize, sent, unmade, base, seen, dir>>

\* Mutant: what is in the buffer already is not counted.
Recv_whole == ReadInto(msize)

Recv == ReadInto(msize - (off - base))

\* There is no room for more, or the transport is closed.
RecvNone ==
    /\ pc = "read"
    /\ pc' = "end"
    /\ UNCHANGED <<dotu, msize, stream, dir>>

\* again: the message at the front of the buffer, when it is all there; what is
\* behind it moves to the front of the next buffer, to be looked at next.
Take(i, junk, next) ==
    /\ pc = "again"
    /\ Start(i) = base
    /\ \E d \in {np_deserialize(sent[i], dotu, junk)} :
         CASE off - base < 4 \/ off - base < sent[i].size -> pc' = "read" /\ UNCHANGED <<base, seen>>
           [] off - base >= sent[i].size /\ ~d.ok -> pc' = "refused" /\ UNCHANGED <<base, seen>>
           [] OTHER -> /\ seen' = Append(seen, d)
                       /\ base' = base + sent[i].size
                       /\ pc' = IF off > base' THEN next ELSE "read"
    /\ UNCHANGED <<dotu, msize, sent, unmade, off, dir>>

\* Mutant: what is left in the buffer waits for the next read.
Again_later(i, junk) == Take(i, junk, "read")

Again(i, junk) == Take(i, junk, "again")

----------------------------------------------------------------------------
(* Reading a directory: one entry more *)

\* Entry x has become record r, or did not fit.
Entry(x, r) ==
    /\ IF r.size = 0 THEN pc' = "end" /\ UNCHANGED dir
       ELSE /\ dir' = [dir EXCEPT !.n = @ + r.size,
                                  !.rec = <<[x |-> x, size |-> r.size, fields |-> r.fields]>>]
            /\ UNCHANGED pc
    /\ UNCHANGED <<dotu, msize, stream>>

npfs_read_dir(x) ==
    /\ pc = "dir" /\ dir.k = "stat"
    /\ dir.n < dir.count
    /\ \E r \in {np_serialize_stat(x, dir.count - dir.n - 1)} : Entry(x, r)

npfs_readdir(x) ==
    /\ pc = "dir" /\ dir.k = "dirent"
    /\ dir.n < dir.count
    /\ \E r \in {np_serialize_dirent(x, dir.count - dir.n - 1)} : Entry(x, r)

Next ==
    \/ SendAny
    \/ SendNext
    \/ Recv
    \/ RecvNone
    \/ \E i \in DOMAIN sent, junk \in Junk : Again(i, junk)
    \/ \E x \in [dotu : {dotu}, a : Lengths, b : Lengths] : npfs_read_dir(x) \/ npfs_readdir(x)

Spec == Init /\ [][Next]_vars

----------------------------------------------------------------------------
(* Properties *)

Read(i) == sent[i].cut = 0 /\ i \in DOMAIN seen
\* np_create_rerror1 forgets the length, np_create_tauth the room for n_uname,
\* and np_create_rgetlock the fid that np_deserialize expects.
NoLength(q) == \E c \in q.fields : c.f = <<"ename", 0>> /\ c.k = "data"
Unlike(q) == NoLength(q) \/ q.t = "Rgetlock" \/ (q.t = "Tauth" /\ dotu)

(***************************************************************************)
(* What np_deserialize reads is what np_create_* was given: every argument *)
(* arrives in its member of Npfcall, in 9P2000, 9P2000.u and 9P2000.L,     *)
(* however the bytes were cut into pieces.  Three messages excepted.       *)
(***************************************************************************)
RoundTrip ==
    \A i \in DOMAIN seen : Read(i) /\ ~Unlike(sent[i]) =>
        \A f \in sent[i].want \ {<<"size", 0>>} : <<f, f>> \in seen[i].got

(***************************************************************************)
(* The receiver gives up only on a message that came short, one it does    *)
(* not know (Tlerror), or one of those the two sides lay out differently.  *)
(***************************************************************************)
RefusedRightly ==
    pc = "refused" =>
        \E i \in DOMAIN sent : /\ Start(i) = base
                               /\ sent[i].cut > 0 \/ sent[i].t = "Tlerror" \/ Unlike(sent[i])

(***************************************************************************)
(* Messages are taken out of the stream whole, once and in order: the      *)
(* buffer always starts where a message does, and the loop waits for more  *)
(* only when no whole message is in it.                                    *)
(***************************************************************************)
Framed ==
    /\ base = Start(Len(seen) + 1)
    /\ pc = "read" /\ Len(seen) < Len(sent) =>
           off - base < sent[Len(seen) + 1].size \/ off - base < 4

(***************************************************************************)
(* A packet is filled to its last byte: the size of its header counts the  *)
(* fields that were put and nothing else (np_create_common).  Rstatfs and  *)
(* the Rerror of np_create_rerror1 are sent with bytes nobody wrote.       *)
(***************************************************************************)
Filled ==
    \A i \in DOMAIN sent : sent[i].cut = 0 /\ sent[i].t # "Rstatfs" /\ ~NoLength(sent[i]) =>
        Max({c.at + c.w : c \in sent[i].fields}) = sent[i].size

(***************************************************************************)
(* A message that lacks its end is read only if it ends where a field      *)
(* does, which buf_check_size cannot tell from one that is whole.          *)
(***************************************************************************)
CutSeen ==
    \A i \in DOMAIN seen : sent[i].cut > 0 =>
        \/ \E c \in sent[i].fields : \/ sent[i].size = c.at + c.w
                                     \/ sent[i].size = c.at + 2 /\ c.k = "str"
        \/ NoLength(sent[i]) \/ sent[i].t \in {"Rstatfs", "Rgetlock"}

(***************************************************************************)
(* Every message but Tsetattr can be made; a walk that is too long cannot. *)
(***************************************************************************)
AllMade == unmade \subseteq {"none", "Tsetattr"}

(***************************************************************************)
(* The records in the reply to a read of a directory are whole, and the    *)
(* client's np_deserialize_stat finds each where the server put it; but    *)
(* np_serialize_stat loses an empty muid that does not fit.                *)
(***************************************************************************)
DirWhole ==
    \A i \in DOMAIN dir.rec :
        LET r == dir.rec[i]
            d == np_deserialize_stat(r.fields, r.size, dotu, 0)
            items == buf_put_wstat(r.x) IN
        \/ dir.k = "dirent" /\ Cardinality(r.fields) = Len(buf_put_dirent(r.x))
        \/ d.size = r.size /\ \A j \in DOMAIN items : <<items[j].f, items[j].f>> \in d.got
        \/ ~dotu /\ r.x.b = 0 /\ r.size = size_wstat(r.x)
=============================================================================
