------------------------------ MODULE NpcFsys ------------------------------
(***************************************************************************)
(* The 9P client (libnpclient): the queues of unsent and pending requests  *)
(* with the threads that write messages and read replies (fsys.c), the     *)
(* tags and fid numbers (pool.c, fid.c), and the calls made of messages:   *)
(* npc_open, npc_create, npc_stat, npc_remove, npc_read, npc_readnb and    *)
(* npc_close with its cancelling of what is outstanding.                   *)
(*                                                                         *)
(* A step is a section under fs->lock, or the piece of code between two.   *)
(* A request is known by its tag; the lists are a sequence and a set, and  *)
(* stale is where the code's pointers say otherwise.                       *)
(***************************************************************************)
EXTENDS Integers, FiniteSets, Sequences, SequencesExt

CONSTANTS Callers,   \* threads of the application
          Tags,      \* tags, lowest first
          Fids,      \* fid numbers of the pool, lowest first
          Parts,     \* how many messages the npc_readnb of a caller is split
                     \*   into; 0 when it does not call it
          None, Error

Slots == UNION {{c} \X (0..Parts[c]) : c \in Callers}   \* 0 is npc_rpc, the others npc_readnb
Groups == UNION {{{<<c, 0>>}, {c} \X (1..Parts[c])} : c \in Callers} \ {{}}
Kinds == {"walk", "open", "stat", "remove", "read", "clunk", "flush"}

\* n is the fid of the message (newfid for Twalk, whose fid is the root); for
\* Tflush it is the tag.
Messages == [k : Kinds, n : Fids \cup Tags, s : Slots]

ASSUME NpcFsysAssumption ==
    /\ Tags \subseteq Nat /\ Fids \subseteq Nat
    /\ None \notin Tags \cup Fids
    /\ Parts \in [Callers -> Nat]
    /\ Error \notin Messages

Requests == [tag : Tags, m : Messages, flushed : BOOLEAN]

VARIABLES
    careful,  \* whether fids are closed only with nothing outstanding on them
    trans,    \* whether fs->trans is there
    unsent,   \* the queue unsent_first .. unsent_last
    stale,    \* prev of the first unsent request, or unsent_last of the empty
              \*   queue, points to a request that has left it
    pend,     \* the list pend_first
    broken,   \* a stale pointer has been written through: nothing is
              \*   modelled after that
    tags,     \* fs->tagpool: the tags in use
    file,     \* the fid numbers: free, or what the application has of them
    th,       \* the callers
    call,     \* Npcrpc (slot 0) and Npcrcall: what was asked and answered
    rd,       \* npc_read_proc
    wr,       \* npc_write_proc
    srv,      \* the server: the requests it has to answer
    sfids     \* and the fids it knows

queue == <<unsent, stale, broken>>
server == <<srv, sfids>>
vars == <<careful, trans, queue, pend, tags, file, th, call, rd, wr, server>>

Ops == {"open", "stat", "remove", "read", "readnb", "close"}
Lowest(S) == CHOOSE x \in S : \A y \in S : x <= y

\* The promise is about the calls alone: the queues, tags and threads are how
\* it is kept.
Promise == INSTANCE NpcPromise WITH place <- call

\* k and n are the message to send, part the part of a read; todo holds the requests npc_cancel_fid_requests took off the unsent
\* queue, ftags the tags it has to flush.
Caller == [pc : {"idle", "check", "queue", "wait", "cancel", "report",
                 "flush", "stuck"},
           op : Ops, k : Kinds, n : Fids \cup Tags \cup {None}, fid : Fids \cup {None},
           part : {s[2] : s \in Slots}, ftags : SUBSET Tags,
           todo : {{}}]
IdleCaller == [pc |-> "idle", op |-> "open", k |-> "walk", n |-> None, fid |-> None,
               part |-> 0, ftags |-> {}, todo |-> {}]
Reading == [pc |-> "read", todo |-> {}, got |-> None, out |-> "ok"]

(***************************************************************************)
(* The variables have their C types; a read has the parts it was given.    *)
(***************************************************************************)
TypeOK ==
    /\ {careful, trans, stale, broken} \subseteq BOOLEAN
    /\ ToSet(unsent) \cup pend \subseteq Requests
    /\ tags \subseteq Tags
    /\ file \in [Fids -> {"free", "busy", "open", "lost"}]
    /\ \A c \in Callers : th[c].todo \subseteq Requests
    /\ [c \in Callers |-> [th[c] EXCEPT !.todo = {}]] \in [Callers -> Caller]
    /\ call \in [Slots -> Promise!Calls]
    /\ rd.pc \in {"read", "cb", "drain", "exit"} /\ rd.todo \subseteq Requests
    /\ wr \in [pc : {"loop", "wait", "exit"}, q : {None}] \cup [pc : {"write"}, q : Requests]
    /\ srv \subseteq Requests /\ sfids \subseteq Fids

\* npc_create_fsys, and the root attached.
Init ==
    /\ careful \in BOOLEAN
    /\ trans = TRUE
    /\ unsent = <<>> /\ stale = FALSE /\ broken = FALSE
    /\ pend = {} /\ tags = {}
    /\ file = [n \in Fids |-> "free"]
    /\ th = [c \in Callers |-> IdleCaller]
    /\ call = [s \in Slots |-> Promise!NoCall]
    /\ rd = Reading
    /\ wr = [pc |-> "loop", q |-> None]
    /\ srv = {} /\ sfids = {}

----------------------------------------------------------------------------
(* npc_rpcnb, npc_rpc *)

\* The caller makes ready to send a message with npc_rpc.
Rpc(c, k, n) == th' = [th EXCEPT ![c].pc = "check", ![c].k = k, ![c].n = n]

\* npc_get_id, and the request is put at the end of the unsent queue; the
\* writer is woken when wake, the tag is marked when mark, and a read has n
\* parts.
Rpcnb(c, wake, mark, n) ==
    LET t == Lowest(Tags \ tags)
        s == <<c, th[c].part>>
        m == [k |-> th[c].k, n |-> th[c].n, s |-> s] IN
    /\ th[c].pc = "queue"
    /\ Tags \ tags # {}
    /\ tags' = IF mark THEN tags \cup {t} ELSE tags
    /\ broken' = (stale /\ unsent = <<>>)
    /\ unsent' = Append(unsent, [tag |-> t, m |-> m, flushed |-> FALSE])
    /\ wr' = IF wake /\ wr.pc = "wait" THEN [wr EXCEPT !.pc = "loop"] ELSE wr
    /\ call' = [call EXCEPT ![s] = [Promise!NoCall EXCEPT !.st = "asked", !.m = m]]
    /\ th' = [th EXCEPT ![c] = IF th[c].part = 0 THEN [th[c] EXCEPT !.pc = "wait"]
                               ELSE IF th[c].part = n THEN IdleCaller
                               ELSE [th[c] EXCEPT !.pc = "check", !.part = th[c].part + 1]]
    /\ UNCHANGED <<careful, trans, stale, pend, file, rd, server>>

\* Mutants: the writer is not woken, the tag is not marked, a read has one
\* request too many.
npc_rpcnb_quiet(c) == Rpcnb(c, FALSE, TRUE, Parts[c])
npc_rpcnb_unmarked(c) == Rpcnb(c, TRUE, FALSE, Parts[c])
npc_rpcnb_extra(c) == Rpcnb(c, TRUE, TRUE, Parts[c] + 1)

npc_rpcnb(c) == Rpcnb(c, TRUE, TRUE, Parts[c])

\* Other parts of the read are not answered yet, or not even sent.
PartsLeft(s) == \E i \in (1..Parts[s[1]]) \ {s[2]} : call[<<s[1], i>>].st # "answered"

\* The callbacks npc_rpc_cb and npc_read_cb.  The last part of a read ends it.
\* A caller that is stuck holds the lock of its read.
Callback(s, got, out) ==
    /\ th[s[1]].pc = "stuck" => s[2] = 0
    /\ call' = IF s[2] > 0 /\ ~PartsLeft(s)
               THEN [x \in Slots |-> IF x[1] = s[1] /\ x[2] > 0 THEN Promise!NoCall ELSE call[x]]
               ELSE [call EXCEPT ![s].st = "answered", ![s].got = got, ![s].out = out]

----------------------------------------------------------------------------
(* The calls of the application *)

\* Somebody waits for an answer about fid n, or is about to ask.
Outstanding(n) == \E s \in Slots : call[s].st = "asked" /\ call[s].m.k = "read" /\ call[s].m.n = n
Asking(n) == \E c \in Callers : th[c].fid = n /\ th[c].pc \in {"check", "queue"}

\* npc_open, npc_create, npc_stat, npc_remove begin with npc_walk, which
\* allocates the fid.  Paths are short enough for one Twalk (MAXWELEM).
StartWalk(c, op) ==
    LET free == {x \in Fids : file[x] = "free"} IN
    /\ th[c].pc = "idle"
    /\ free # {}
    /\ file' = [file EXCEPT ![Lowest(free)] = "busy"]
    /\ th' = [th EXCEPT ![c] = [@ EXCEPT !.pc = "check", !.op = op, !.k = "walk",
                                         !.n = Lowest(free), !.fid = Lowest(free)]]
    /\ UNCHANGED <<careful, trans, queue, pend, tags, call, rd, wr, server>>

\* One message, or several.
StartRead(c, op, n) ==
    /\ th[c].pc = "idle"
    /\ file[n] = "open"
    /\ op = "readnb" => Parts[c] > 0 /\ \A i \in 1..Parts[c] : call[<<c, i>>].st = "idle"
    /\ th' = [th EXCEPT ![c] = [@ EXCEPT !.pc = "check", !.op = op, !.k = "read", !.n = n,
                                         !.fid = n, !.part = IF op = "readnb" THEN 1 ELSE 0]]
    /\ UNCHANGED <<careful, trans, queue, pend, tags, file, call, rd, wr, server>>

npc_read(c, n) == StartRead(c, "read", n)
npc_readnb(c, n) == StartRead(c, "readnb", n)

\* What a message carries is left out, so that writes are as reads.
npc_write(c, n) == StartRead(c, "read", n)
npc_writenb(c, n) == StartRead(c, "readnb", n)

StartClose(c, n) ==
    /\ th[c].pc = "idle"
    /\ file[n] = "open" /\ ~Asking(n)
    /\ careful => ~Outstanding(n)
    /\ file' = [file EXCEPT ![n] = "busy"]
    /\ th' = [th EXCEPT ![c] = [@ EXCEPT !.pc = "cancel", !.op = "close", !.fid = n]]
    /\ UNCHANGED <<careful, trans, queue, pend, tags, call, rd, wr, server>>

\* A call ends, and leaves its fid so.
End(c, f) ==
    /\ th' = [th EXCEPT ![c] = IdleCaller]
    /\ file' = [file EXCEPT ![th[c].fid] = f]
Send(c, k) == Rpc(c, k, th[c].fid) /\ UNCHANGED file

\* npc_walk: an error leaves the fid allocated, a short walk tries to clunk it.
AfterWalk(c, res) ==
    CASE res = "ok" -> Send(c, th[c].op)
      [] res = "short" -> Send(c, "clunk")
      [] OTHER -> End(c, "lost")

\* npc_open and npc_create clunk the fid that could not be opened.
AfterOpen(c, res) == IF res = "ok" THEN End(c, "open") ELSE Send(c, "clunk")

\* npc_stat and npc_wstat close the fid only when they fail.
AfterStat(c, res) ==
    IF res = "ok" THEN End(c, "lost")
    ELSE th' = [th EXCEPT ![c].pc = "cancel"] /\ UNCHANGED file

\* Mutant: the number is returned whatever the server said.
AfterClunk_always(c, res) == End(c, "free")

\* The number is free when the server has agreed.
AfterClunk(c, res) == End(c, IF res = "ok" THEN "free" ELSE "lost")
AfterRemove(c, res) == End(c, IF res = "ok" THEN "free" ELSE "lost")

\* npc_cancel_fid_requests asks for more than 0 of npc_rpc, which returns 0 or
\* -1, so it answers none of the requests it has flushed.
AfterFlush(c) ==
    /\ th' = [th EXCEPT ![c].pc = "flush", ![c].ftags = @ \ {th[c].n}]
    /\ UNCHANGED file

\* What the call does when npc_rpc returns.
Continue(c, res) ==
    CASE th[c].k = "walk" -> AfterWalk(c, res)
      [] th[c].k = "open" -> AfterOpen(c, res)
      [] th[c].k = "stat" -> AfterStat(c, res)
      [] th[c].k = "clunk" -> AfterClunk(c, res)
      [] th[c].k = "remove" -> AfterRemove(c, res)
      [] th[c].k = "flush" -> AfterFlush(c)
      [] th[c].k = "read" -> End(c, file[th[c].fid])

\* npc_rpcnb looks at fs->trans, without the lock.  npc_readnb that fails here
\* locks its own lock a second time.
RpcCheck(c) ==
    /\ th[c].pc = "check"
    /\ CASE trans -> th' = [th EXCEPT ![c].pc = "queue"] /\ UNCHANGED file
         [] ~trans /\ th[c].part > 0 -> th' = [th EXCEPT ![c].pc = "stuck"] /\ UNCHANGED file
         [] OTHER -> Continue(c, "err")
    /\ UNCHANGED <<careful, trans, queue, pend, tags, call, rd, wr, server>>

\* npc_rpc has its answer.
RpcReturn(c) ==
    LET s == <<c, 0>> IN
    /\ th[c].pc = "wait"
    /\ call[s].st = "answered"
    /\ Continue(c, call[s].out)
    /\ call' = [call EXCEPT ![s] = Promise!NoCall]
    /\ UNCHANGED <<careful, trans, queue, pend, tags, rd, wr, server>>

----------------------------------------------------------------------------
(* npc_cancel_fid_requests *)

\* The queue s without the requests in S.
Without(s, S) ==
    LET f[i \in 0 .. Len(s)] == IF i = 0 THEN <<>>
                                ELSE IF s[i] \in S THEN f[i - 1]
                                ELSE Append(f[i - 1], s[i])
    IN f[Len(s)]

FidOf(m) == IF m.k \in {"walk", "flush"} THEN None ELSE m.n

\* Under fs->lock: the unsent requests of the fid are taken off the queue, the
\* pending ones marked.  The fid of a Tflush was never set and may be any number.
CancelTake(c) ==
    LET all == ToSet(unsent) \cup pend IN
    /\ th[c].pc = "cancel"
    /\ \E junk \in SUBSET {q \in all : q.m.k = "flush"} :
         LET mine == {q \in all : FidOf(q.m) = th[c].fid} \cup junk IN
         /\ unsent' = Without(unsent, mine)
         /\ broken' = (stale /\ unsent # <<>> /\ unsent[1] \in mine)
         /\ pend' = {IF q \in mine THEN [q EXCEPT !.flushed = TRUE] ELSE q : q \in pend}
         /\ th' = [th EXCEPT ![c].pc = "report", ![c].todo = mine \cap ToSet(unsent),
                             ![c].ftags = {q.tag : q \in mine \cap pend}]
    /\ UNCHANGED <<careful, trans, stale, tags, file, call, rd, wr, server>>

\* The unsent ones are answered "file closed".
CancelReport(c) ==
    /\ th[c].pc = "report"
    /\ \E q \in th[c].todo :
         /\ Callback(q.m.s, Error, "err")
         /\ tags' = tags \ {q.tag}
         /\ th' = [th EXCEPT ![c].todo = @ \ {q}]
    /\ UNCHANGED <<careful, trans, queue, pend, file, rd, wr, server>>

\* The pending ones are flushed one by one; then npc_close clunks the fid.
CancelFlush(c) ==
    /\ \/ th[c].pc = "report" /\ th[c].todo = {}
       \/ th[c].pc = "flush"
    /\ IF th[c].ftags = {} THEN Rpc(c, "clunk", th[c].fid)
       ELSE Rpc(c, "flush", Lowest(th[c].ftags))
    /\ UNCHANGED <<careful, trans, queue, pend, tags, file, call, rd, wr, server>>

----------------------------------------------------------------------------
(* npc_write_proc *)

\* The transport is destroyed; the server forgets the connection.
DropTrans == trans' = FALSE /\ srv' = {} /\ sfids' = {}

WriterWait ==
    /\ wr.pc = "loop"
    /\ ~trans \/ unsent = <<>>
    /\ wr' = [wr EXCEPT !.pc = IF trans THEN "wait" ELSE "exit"]
    /\ UNCHANGED <<careful, trans, queue, pend, tags, file, th, call, rd, server>>

\* The first unsent request becomes the first pending one.  The request behind
\* it keeps its prev: left says whether a pointer to the first one is left.
TakeFirst(left) ==
    /\ wr.pc = "loop"
    /\ trans /\ unsent # <<>>
    /\ unsent' = Tail(unsent)
    /\ stale' = left
    /\ pend' = pend \cup {unsent[1]}
    /\ wr' = [pc |-> "write", q |-> unsent[1]]
    /\ UNCHANGED <<careful, trans, broken, tags, file, th, call, rd, server>>

\* Mutant: unsent_last is not cleared with the last request.
WriterTake_last == TakeFirst(TRUE)

WriterTake == TakeFirst(Len(unsent) > 1)

\* np_trans_write succeeds, or fails and the transport is given up.
WriterWrite ==
    /\ wr.pc = "write"
    /\ wr' = [pc |-> "loop", q |-> None]
    /\ \/ trans /\ srv' = srv \cup {wr.q} /\ UNCHANGED <<trans, sfids>>
       \/ trans /\ DropTrans
       \/ ~trans /\ UNCHANGED <<trans, server>>
    /\ UNCHANGED <<careful, queue, pend, tags, file, th, call, rd>>

----------------------------------------------------------------------------
(* npc_read_proc *)

\* The server carries out m: what it may answer, and the fids it then has.
Outcomes(m) ==
    CASE m.k = "walk" -> {"short", "err"} \cup (IF m.n \in sfids THEN {} ELSE {"ok"})
      [] m.k = "flush" -> {"ok"}
      [] OTHER -> {"err"} \cup (IF m.n \in sfids THEN {"ok"} ELSE {})
FidsAfter(m, out) ==
    CASE m.k = "walk" /\ out = "ok" -> sfids \cup {m.n}
      [] m.k \in {"clunk", "remove"} /\ out = "ok" -> sfids \ {m.n}
      [] OTHER -> sfids
Settled(x) == {y \in srv : y = x \/ (x.m.k = "flush" /\ y.tag = x.m.n)}

\* A reply to x is read, and the request with its tag is taken off the pending
\* list.  A reply of the wrong type is an error.
Reply(x, unlink) ==
    /\ rd.pc = "read" /\ trans
    /\ x \in srv
    /\ \E out \in Outcomes(x.m) :
         /\ sfids' = FidsAfter(x.m, out)
         /\ srv' = srv \ Settled(x)
         /\ LET match == {q \in pend : q.tag = x.tag}
                wrong == out # "err" /\ \E q \in match : q.m.k # x.m.k IN
            /\ pend' = IF unlink THEN pend \ match ELSE pend
            /\ rd' = IF match = {} THEN rd
                     ELSE [pc |-> "cb", todo |-> match,
                           got |-> IF wrong THEN Error ELSE x.m,
                           out |-> IF wrong THEN "err" ELSE out]
    /\ UNCHANGED <<careful, trans, queue, tags, file, th, call, wr>>

\* Mutant: the answered request stays on the list.
ReaderReply_kept(x) == Reply(x, FALSE)

ReaderReply(x) == Reply(x, TRUE)

\* The callback is called, the tag returned unless the request was flushed, the
\* request freed.
ReaderCallback ==
    /\ rd.pc = "cb"
    /\ \E q \in rd.todo : /\ Callback(q.m.s, rd.got, rd.out)
                          /\ tags' = IF q.flushed THEN tags ELSE tags \ {q.tag}
    /\ rd' = Reading
    /\ UNCHANGED <<careful, trans, queue, pend, file, th, wr, server>>

\* The connection is at an end: both lists are taken away.  unsent_last is left.
ReaderEnd ==
    /\ rd.pc = "read"
    /\ DropTrans
    /\ unsent' = <<>> /\ pend' = {}
    /\ stale' = (unsent # <<>>)
    /\ rd' = [rd EXCEPT !.pc = "drain", !.todo = ToSet(unsent) \cup pend]
    /\ UNCHANGED <<careful, broken, tags, file, th, call, wr>>

\* Every request on them is answered with an error.
ReaderDrain ==
    /\ rd.pc = "drain"
    /\ \E q \in rd.todo : /\ Callback(q.m.s, Error, "err")
                          /\ rd' = [rd EXCEPT !.todo = @ \ {q}]
    /\ UNCHANGED <<careful, trans, queue, pend, tags, file, th, wr, server>>

ReaderExit ==
    /\ rd.pc = "drain" /\ rd.todo = {}
    /\ rd' = [rd EXCEPT !.pc = "exit"]
    /\ UNCHANGED <<careful, trans, queue, pend, tags, file, th, call, wr, server>>

----------------------------------------------------------------------------
(* npc_disconnect_fsys *)

Disconnect ==
    /\ trans
    /\ DropTrans
    /\ UNCHANGED <<careful, queue, pend, tags, file, th, call, rd, wr>>

\* The reader has been joined; the writer is woken to see that trans is gone.
DisconnectWake ==
    /\ ~trans /\ rd.pc = "exit" /\ wr.pc = "wait"
    /\ wr' = [wr EXCEPT !.pc = "loop"]
    /\ UNCHANGED <<careful, trans, queue, pend, tags, file, th, call, rd, server>>

----------------------------------------------------------------------------

Start(c) ==
    \/ \E op \in {"open", "stat", "remove"} : StartWalk(c, op)
    \/ \E n \in Fids : npc_read(c, n) \/ npc_readnb(c, n) \/ npc_write(c, n) \/ npc_writenb(c, n)
    \/ \E n \in Fids : StartClose(c, n)

Run(c) ==
    \/ RpcCheck(c)
    \/ npc_rpcnb(c)
    \/ RpcReturn(c)
    \/ CancelTake(c)
    \/ CancelReport(c)
    \/ CancelFlush(c)

Writer == WriterWait \/ WriterTake \/ WriterWrite
ReaderStep == ReaderCallback \/ ReaderDrain \/ ReaderExit

Next ==
    /\ ~broken
    /\ \/ \E c \in Callers : Start(c) \/ Run(c)
       \/ Writer
       \/ \E x \in srv : ReaderReply(x)
       \/ ReaderStep
       \/ ReaderEnd
       \/ Disconnect
       \/ DisconnectWake

\* The library's threads run; a transport that is gone ends the reading; and the
\* server answers what it was sent.
Fairness ==
    /\ \A c \in Callers : WF_vars(~broken /\ Run(c))
    /\ WF_vars(~broken /\ Writer)
    /\ WF_vars(~broken /\ ReaderStep)
    /\ WF_vars(~broken /\ ~trans /\ ReaderEnd)
    /\ \A t \in Tags : SF_vars(~broken /\ \E x \in srv : x.tag = t /\ ReaderReply(x))

Spec == Init /\ [][Next]_vars /\ Fairness

----------------------------------------------------------------------------
(* Properties *)

(***************************************************************************)
(* The client implements NpcPromise: whatever the threads and the server   *)
(* do, the callback of a request is called at most once, for the call that *)
(* made the request and with the reply to its own message or an error      *)
(* (npc_read_proc, npc_cancel_fid_requests, npc_rpc, npc_read_cb).         *)
(***************************************************************************)
PromiseKept == Promise!Spec

(***************************************************************************)
(* The requests on their way have tags that are in use and are not those   *)
(* of other requests, at the server too (npc_get_id, npc_put_id): a tag is *)
(* never returned while a reply with it may still come.                    *)
(***************************************************************************)
TagsApart ==
    LET all == ToSet(unsent) \cup pend \cup srv IN
    /\ \A x \in all : x.tag \in tags
    /\ \A x, y \in all : x.tag = y.tag => x.m = y.m

(***************************************************************************)
(* A fid number that is free for the next npc_fid_alloc is one the server  *)
(* does not know and is not about to learn: it was never walked to, or the *)
(* server has agreed to forget it (npc_fid_free after the Rclunk).         *)
(***************************************************************************)
FreeIdUnused ==
    \A n \in Fids : file[n] = "free" =>
        /\ n \notin sfids
        /\ \A q \in ToSet(unsent) \cup pend \cup srv : q.m.k = "walk" => q.m.n # n

(***************************************************************************)
(* The pointers npc_write_proc and npc_read_proc leave behind are not      *)
(* written through while the connection lives and fids are closed with     *)
(* nothing outstanding on them.                                            *)
(***************************************************************************)
QueueSound == broken => ~careful \/ ~trans

\* The request of s was put on the queue after the reader had taken it away.
Late(s) == rd.pc \in {"drain", "exit"} /\ \E q \in ToSet(unsent) : q.m.s = s

(***************************************************************************)
(* Every call ends, also when the connection is lost before its message is *)
(* sent or answered: with a reply or an error, unless it was queued too    *)
(* late or a failed npc_readnb has locked itself out (careful callers).    *)
(***************************************************************************)
CallsEnd ==
    \A s \in Slots : careful /\ call[s].st = "asked"
        ~> call[s].st # "asked" \/ broken \/ Late(s) \/ \E c \in Callers : th[c].pc = "stuck"
============================================================================
