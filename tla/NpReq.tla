------------------------------- MODULE NpReq -------------------------------
(***************************************************************************)
(* The life of a 9P request inside libnpfs: the connection reader queues   *)
(* it (conn.c), a worker thread takes it and runs its handler (srv.c), a   *)
(* Tflush finds it or does not (fcall.c), np_respond answers it and every  *)
(* Tflush chained to it, and the last np_req_unref recycles its memory.    *)
(*                                                                         *)
(* One action per section of code that holds a lock, so that everything    *)
(* the locks do not protect can interleave.  An Npreq is an element of     *)
(* Obj, a piece of memory: it is live while its reference count is not     *)
(* zero, and np_req_alloc may hand it out again as soon as it is.  The     *)
(* fields of a recycled object keep their contents until then, which is    *)
(* what a thread still reading it sees.                                    *)
(*                                                                         *)
(* One connection, no reset and no shutdown (see NpConn).  Both            *)
(* directions of the connection are FIFO and the server learns what the    *)
(* client has received only from what the client sends next, so a message  *)
(* is sent in the step that receives it.                                   *)
(***************************************************************************)
EXTENDS Integers, Sequences, FiniteSets, SequencesExt

CONSTANTS Obj,         \* memory for requests: Npreq structures
          Workers,     \* worker threads: np_wthread_proc
          Completers,  \* threads of the file server that answer deferred
                       \*   requests by calling np_respond
          OpTags,      \* tags the client uses for messages that are no Tflush
          FlushTags,   \* tags the client uses for Tflush
          NoObj,       \* the NULL pointer
          NoTag,       \* the oldtag of a message that is no Tflush
          Flushed,     \* what the client waits for is gone without a reply
          ReuseInWindow \* TRUE: memory np_req_unref recycled may be handed
                       \*   out again while np_respond still has to read its
                       \*   flushreq; FALSE: not within that window

Threads == Workers \cup Completers
Tags == OpTags \cup FlushTags

ASSUME NpReqAssumption ==
    /\ Workers \cap Completers = {}
    /\ OpTags \cap FlushTags = {}
    /\ IsFiniteSet(Threads)
    /\ NoObj \notin Obj
    /\ Flushed \notin Obj
    /\ Flushed # NoObj
    /\ NoTag \notin Tags
    /\ ReuseInWindow \in BOOLEAN
    /\ Workers # {}
    /\ OpTags # {}

VARIABLES
    refcount,   \* Npreq.refcount; 0 is memory that is not a request
    msg,        \* Npreq.tag and the oldtag of its tcall
    responded,  \* Npreq.responded
    flushreq,   \* Npreq.flushreq: the next Tflush to answer with this one
    reqs,       \* Npsrv.reqs_first ..: requests no worker has taken
    workreqs,   \* Npsrv.workreqs: requests being worked on
    deferred,   \* requests whose handler returned NULL, to be answered later
    pc,         \* where each thread is
    req,        \* the request a thread works on or answers
    held,       \* np_flush's creq, with the reference np_flush took on it
    cur,        \* np_respond's freq
    asleep,     \* workers in pthread_cond_wait(&srv->reqcond)
    csent,      \* client: the request that carries a tag it waits for
    cold,       \* client: the tag an outstanding Tflush names
    cnamed      \* client: the request that tag stood for when it was sent

objVars == <<refcount, msg, responded, flushreq>>
srvVars == <<reqs, workreqs, deferred>>
thrVars == <<pc, req, held, cur, asleep>>
cliVars == <<csent, cold, cnamed>>
vars == <<objVars, srvVars, thrVars, cliVars>>

Locations == {"idle", "process", "flushcb", "flushunref",
              "mark", "unlink", "send", "chain", "next"}

ObjOrNull == Obj \cup {NoObj}

\* What is left of tcall and tag in an object that is no request.
NoMsg == [tag |-> CHOOSE t \in OpTags : TRUE, old |-> NoTag]

(***************************************************************************)
(* The fields keep their C types and the threads their locations.          *)
(***************************************************************************)
TypeOK ==
    /\ refcount \in [Obj -> Nat]
    /\ msg \in [Obj -> [tag : Tags, old : OpTags \cup {NoTag}]]
    /\ responded \in [Obj -> BOOLEAN]
    /\ flushreq \in [Obj -> ObjOrNull]
    /\ reqs \in Seq(Obj)
    /\ workreqs \in SUBSET Obj
    /\ deferred \in SUBSET Obj
    /\ pc \in [Threads -> Locations]
    /\ req \in [Threads -> ObjOrNull]
    /\ held \in [Threads -> ObjOrNull]
    /\ cur \in [Threads -> ObjOrNull]
    /\ asleep \in SUBSET Workers
    /\ csent \in [Tags -> ObjOrNull \cup {Flushed}]
    /\ cold \in [FlushTags -> OpTags \cup {NoTag}]
    /\ cnamed \in [FlushTags -> ObjOrNull]

Init ==
    /\ refcount = [o \in Obj |-> 0]
    /\ msg = [o \in Obj |-> NoMsg]
    /\ responded = [o \in Obj |-> FALSE]
    /\ flushreq = [o \in Obj |-> NoObj]
    /\ reqs = <<>>
    /\ workreqs = {}
    /\ deferred = {}
    /\ pc = [th \in Threads |-> "idle"]
    /\ req = [th \in Threads |-> NoObj]
    /\ held = [th \in Threads |-> NoObj]
    /\ cur = [th \in Threads |-> NoObj]
    /\ asleep = {}
    /\ csent = [t \in Tags |-> NoObj]
    /\ cold = [f \in FlushTags |-> NoTag]
    /\ cnamed = [f \in FlushTags |-> NoObj]

----------------------------------------------------------------------------
(* np_req_alloc, np_req_unref *)

\* The memory np_req_alloc may return: the head of reqpool or fresh memory.
Free == {o \in Obj : /\ refcount[o] = 0
                      /\ \/ ReuseInWindow
                         \/ \A th \in Threads : pc[th] = "next" => cur[th] # o}

IsFlush(o) == msg[o].tag \in FlushTags

\* np_req_alloc resets every field.
np_req_alloc(o, m) ==
    /\ refcount' = [refcount EXCEPT ![o] = 1]
    /\ msg' = [msg EXCEPT ![o] = m]
    /\ responded' = [responded EXCEPT ![o] = FALSE]
    /\ flushreq' = [flushreq EXCEPT ![o] = NoObj]

\* np_req_unref: asserts refcount > 0, and at zero the object goes back to
\* the pool with flushreq as it was.  (Its tag is not read again.)
np_req_unref(o) ==
    /\ refcount' = [refcount EXCEPT ![o] = @ - 1]
    /\ msg' = [msg EXCEPT ![o] = IF refcount[o] = 1 THEN NoMsg ELSE @]

----------------------------------------------------------------------------
(* The client's view, changed by what np_conn_respond writes *)

\* A reply to a message that is no Tflush settles whatever the client waits
\* for under that tag.
ReplyToClient(t) ==
    /\ csent' = [csent EXCEPT ![t] = NoObj]
    /\ cnamed' = [f \in FlushTags |->
                    IF cold[f] = t THEN NoObj ELSE cnamed[f]]
    /\ UNCHANGED cold

\* An Rflush settles the Tflush and the request it named.
RflushToClient(f) ==
    /\ csent' = [t \in Tags |->
                   IF \/ t = f
                      \/ t = cold[f] /\ csent[t] \in {cnamed[f], Flushed}
                   THEN NoObj ELSE csent[t]]
    /\ cold' = [cold EXCEPT ![f] = NoTag]
    /\ cnamed' = [cnamed EXCEPT ![f] = NoObj]

\* np_conn_respond(o) with an rcall.
np_conn_respond(o) ==
    IF IsFlush(o) THEN RflushToClient(msg[o].tag)
                  ELSE ReplyToClient(msg[o].tag)

----------------------------------------------------------------------------
(* The reader: np_conn_read_proc *)

\* Mutant: the signal on reqcond is forgotten.
np_srv_add_req_nosignal(o) ==
    /\ reqs' = Append(reqs, o)
    /\ UNCHANGED asleep

\* np_srv_add_req: append and wake one worker.
np_srv_add_req(o) ==
    /\ reqs' = Append(reqs, o)
    /\ IF asleep = {}
       THEN UNCHANGED asleep
       ELSE \E w \in asleep : asleep' = asleep \ {w}

\* A message that is no Tflush arrives.
ReadOp(t, o) ==
    /\ csent[t] = NoObj
    /\ o \in Free
    /\ np_req_alloc(o, [tag |-> t, old |-> NoTag])
    /\ np_srv_add_req(o)
    /\ csent' = [csent EXCEPT ![t] = o]
    /\ UNCHANGED <<workreqs, deferred, pc, req, held, cur, cold, cnamed>>

\* A Tflush arrives.  It may name a tag the client does not wait for, and
\* the client may use a tag again while a Tflush for it is outstanding.
ReadFlush(f, t, o) ==
    /\ csent[f] = NoObj
    /\ o \in Free
    /\ np_req_alloc(o, [tag |-> f, old |-> t])
    /\ np_srv_add_req(o)
    /\ csent' = [csent EXCEPT ![f] = o]
    /\ cold' = [cold EXCEPT ![f] = t]
    /\ cnamed' = [cnamed EXCEPT ![f] = IF csent[t] \in Obj THEN csent[t] ELSE NoObj]
    /\ UNCHANGED <<workreqs, deferred, pc, req, held, cur>>

----------------------------------------------------------------------------
(* The worker: np_wthread_proc, np_process_request, np_flush *)

\* Nothing to do: wait on reqcond.
WorkerWait(w) ==
    /\ pc[w] = "idle"
    /\ w \notin asleep
    /\ reqs = <<>>
    /\ asleep' = asleep \cup {w}
    /\ UNCHANGED <<objVars, srvVars, pc, req, held, cur, cliVars>>

\* Take the first request and move it to workreqs.
WorkerTake(w) ==
    /\ pc[w] = "idle"
    /\ w \notin asleep
    /\ reqs # <<>>
    /\ reqs' = Tail(reqs)
    /\ workreqs' = workreqs \cup {Head(reqs)}
    /\ req' = [req EXCEPT ![w] = Head(reqs)]
    /\ pc' = [pc EXCEPT ![w] = "process"]
    /\ UNCHANGED <<objVars, deferred, held, cur, asleep, cliVars>>

\* The handler returned a response (or an error, which becomes one).
ProcessReply(w) ==
    /\ pc[w] = "process"
    /\ ~IsFlush(req[w])
    /\ pc' = [pc EXCEPT ![w] = "mark"]
    /\ UNCHANGED <<objVars, srvVars, req, held, cur, asleep, cliVars>>

\* The handler returned NULL: the file server answers later.
ProcessDefer(w) ==
    /\ pc[w] = "process"
    /\ ~IsFlush(req[w])
    /\ deferred' = deferred \cup {req[w]}
    /\ pc' = [pc EXCEPT ![w] = "idle"]
    /\ req' = [req EXCEPT ![w] = NoObj]
    /\ UNCHANGED <<objVars, reqs, workreqs, held, cur, asleep, cliVars>>

\* np_flush finds oldtag among the requests no worker has taken: the request
\* is dropped without a reply and the Tflush is answered.
FlushPending(w) ==
    /\ pc[w] = "process"
    /\ IsFlush(req[w])
    /\ \E i \in DOMAIN reqs :
         LET creq == reqs[i] IN
         /\ msg[creq].tag = msg[req[w]].old
         /\ \A j \in 1 .. i - 1 : msg[reqs[j]].tag # msg[req[w]].old
         /\ reqs' = RemoveAt(reqs, i)
         /\ np_req_unref(creq)
         /\ csent' = [csent EXCEPT ![msg[creq].tag] =
                        IF @ = creq THEN Flushed ELSE @]
         /\ cnamed' = [f \in FlushTags |->
                        IF cnamed[f] = creq THEN NoObj ELSE cnamed[f]]
    /\ pc' = [pc EXCEPT ![w] = "mark"]
    /\ UNCHANGED <<responded, flushreq, workreqs, deferred, req, held, cur,
                   asleep, cold>>

PendingHas(t) == \E i \in DOMAIN reqs : msg[reqs[i]].tag = t

\* Mutant: np_flush takes no reference on the request it links to.
FlushWorking_noref(w) ==
    /\ pc[w] = "process"
    /\ IsFlush(req[w])
    /\ ~PendingHas(msg[req[w]].old)
    /\ \E creq \in workreqs :
         /\ msg[creq].tag = msg[req[w]].old
         /\ flushreq' = [flushreq EXCEPT ![req[w]] = flushreq[creq],
                                         ![creq] = req[w]]
         /\ held' = [held EXCEPT ![w] = creq]
    /\ pc' = [pc EXCEPT ![w] = "flushcb"]
    /\ req' = [req EXCEPT ![w] = NoObj]
    /\ UNCHANGED <<refcount, msg, responded, srvVars, cur, asleep, cliVars>>

\* np_flush finds it among the requests being worked on: the Tflush is linked
\* to it and will be answered with it.
FlushWorking(w) ==
    /\ pc[w] = "process"
    /\ IsFlush(req[w])
    /\ ~PendingHas(msg[req[w]].old)
    /\ \E creq \in workreqs :
         /\ msg[creq].tag = msg[req[w]].old
         /\ refcount' = [refcount EXCEPT ![creq] = @ + 1]
         /\ flushreq' = [flushreq EXCEPT ![req[w]] = flushreq[creq],
                                         ![creq] = req[w]]
         /\ held' = [held EXCEPT ![w] = creq]
    /\ pc' = [pc EXCEPT ![w] = "flushcb"]
    /\ req' = [req EXCEPT ![w] = NoObj]
    /\ UNCHANGED <<msg, responded, srvVars, cur, asleep, cliVars>>

\* Mutant: np_flush looks only at the requests no worker has taken.
FlushNotFound_pendingonly(w) ==
    /\ pc[w] = "process"
    /\ IsFlush(req[w])
    /\ ~PendingHas(msg[req[w]].old)
    /\ pc' = [pc EXCEPT ![w] = "mark"]
    /\ UNCHANGED <<objVars, srvVars, req, held, cur, asleep, cliVars>>

\* np_flush finds nothing and answers the Tflush.
FlushNotFound(w) ==
    /\ pc[w] = "process"
    /\ IsFlush(req[w])
    /\ ~PendingHas(msg[req[w]].old)
    /\ \A creq \in workreqs : msg[creq].tag # msg[req[w]].old
    /\ pc' = [pc EXCEPT ![w] = "mark"]
    /\ UNCHANGED <<objVars, srvVars, req, held, cur, asleep, cliVars>>

\* np_flush calls srv->flush(creq), which does nothing (np_default_flush) ...
FlushCallback(w) ==
    /\ pc[w] = "flushcb"
    /\ pc' = [pc EXCEPT ![w] = "flushunref"]
    /\ UNCHANGED <<objVars, srvVars, req, held, cur, asleep, cliVars>>

\* ... or cancels the deferred request and answers it (the AIO server).
FlushCancel(w) ==
    /\ pc[w] = "flushcb"
    /\ held[w] \in deferred
    /\ deferred' = deferred \ {held[w]}
    /\ req' = [req EXCEPT ![w] = held[w]]
    /\ pc' = [pc EXCEPT ![w] = "mark"]
    /\ UNCHANGED <<objVars, reqs, workreqs, held, cur, asleep, cliVars>>

\* np_flush gives up the reference it took on creq.
FlushUnref(w) ==
    /\ pc[w] = "flushunref"
    /\ np_req_unref(held[w])
    /\ held' = [held EXCEPT ![w] = NoObj]
    /\ pc' = [pc EXCEPT ![w] = "idle"]
    /\ UNCHANGED <<responded, flushreq, srvVars, req, cur, asleep, cliVars>>

\* A thread of the file server answers a deferred request.
Complete(c, o) ==
    /\ pc[c] = "idle"
    /\ o \in deferred
    /\ deferred' = deferred \ {o}
    /\ req' = [req EXCEPT ![c] = o]
    /\ pc' = [pc EXCEPT ![c] = "mark"]
    /\ UNCHANGED <<objVars, reqs, workreqs, held, cur, asleep, cliVars>>

----------------------------------------------------------------------------
(* np_respond *)

\* Where the thread goes on when np_respond returns: into np_flush when a
\* flush callback called it.
Return(th) == IF held[th] = NoObj THEN "idle" ELSE "flushunref"

\* Under req->lock: a request is answered once.
RespondMark(th) ==
    /\ pc[th] = "mark"
    /\ IF responded[req[th]]
       THEN /\ np_req_unref(req[th])
            /\ pc' = [pc EXCEPT ![th] = Return(th)]
            /\ req' = [req EXCEPT ![th] = NoObj]
            /\ UNCHANGED responded
       ELSE /\ responded' = [responded EXCEPT ![req[th]] = TRUE]
            /\ pc' = [pc EXCEPT ![th] = "unlink"]
            /\ UNCHANGED <<refcount, msg, req>>
    /\ UNCHANGED <<flushreq, srvVars, held, cur, asleep, cliVars>>

\* The requests reached from o through flushreq: the least set that holds
\* flushreq[o] and is closed under flushreq.
ChainOf(o) ==
    {p \in Obj : \A S \in SUBSET Obj :
                    (\A q \in S \cup {o} : flushreq[q] \in S \cup {NoObj})
                      => p \in S}

\* Mutant: the chain stays on workreqs.
RespondUnlink_nochain(th) ==
    /\ pc[th] = "unlink"
    /\ workreqs' = workreqs \ {req[th]}
    /\ pc' = [pc EXCEPT ![th] = "send"]
    /\ UNCHANGED <<objVars, reqs, deferred, req, held, cur, asleep, cliVars>>

\* Under srv->lock: the request and the Tflush chained to it leave workreqs.
RespondUnlink(th) ==
    /\ pc[th] = "unlink"
    /\ workreqs' = workreqs \ ({req[th]} \cup ChainOf(req[th]))
    /\ pc' = [pc EXCEPT ![th] = "send"]
    /\ UNCHANGED <<objVars, reqs, deferred, req, held, cur, asleep, cliVars>>

\* Under req->lock: the reply is written; then the chain is entered.
RespondSend(th) ==
    /\ pc[th] = "send"
    /\ np_conn_respond(req[th])
    /\ cur' = [cur EXCEPT ![th] = flushreq[req[th]]]
    /\ pc' = [pc EXCEPT ![th] = "chain"]
    /\ UNCHANGED <<objVars, srvVars, req, held, asleep>>

\* Mutant: the Tflush is answered and not given up.
RespondFlush_leak(th) ==
    /\ pc[th] = "chain"
    /\ cur[th] # NoObj
    /\ np_conn_respond(cur[th])
    /\ pc' = [pc EXCEPT ![th] = "next"]
    /\ UNCHANGED <<objVars, srvVars, req, held, cur, asleep>>

\* One Tflush of the chain is answered and given up ...
RespondFlush(th) ==
    /\ pc[th] = "chain"
    /\ cur[th] # NoObj
    /\ np_conn_respond(cur[th])
    /\ np_req_unref(cur[th])
    /\ pc' = [pc EXCEPT ![th] = "next"]
    /\ UNCHANGED <<responded, flushreq, srvVars, req, held, cur, asleep>>

\* ... and only then its flushreq is read.
RespondNext(th) ==
    /\ pc[th] = "next"
    /\ cur' = [cur EXCEPT ![th] = flushreq[cur[th]]]
    /\ pc' = [pc EXCEPT ![th] = "chain"]
    /\ UNCHANGED <<objVars, srvVars, req, held, asleep, cliVars>>

RespondDone(th) ==
    /\ pc[th] = "chain"
    /\ cur[th] = NoObj
    /\ np_req_unref(req[th])
    /\ pc' = [pc EXCEPT ![th] = Return(th)]
    /\ req' = [req EXCEPT ![th] = NoObj]
    /\ UNCHANGED <<responded, flushreq, srvVars, held, cur, asleep, cliVars>>

np_respond(th) ==
    \/ RespondMark(th)
    \/ RespondUnlink(th)
    \/ RespondSend(th)
    \/ RespondFlush(th)
    \/ RespondNext(th)
    \/ RespondDone(th)

Worker(w) ==
    \/ WorkerWait(w)
    \/ WorkerTake(w)
    \/ ProcessReply(w)
    \/ ProcessDefer(w)
    \/ FlushPending(w)
    \/ FlushWorking(w)
    \/ FlushNotFound(w)
    \/ FlushCallback(w)
    \/ FlushCancel(w)
    \/ FlushUnref(w)
    \/ np_respond(w)

Completer(c) == (\E o \in Obj : Complete(c, o)) \/ np_respond(c)

Client ==
    \E o \in Obj, t \in OpTags :
      \/ ReadOp(t, o)
      \/ \E f \in FlushTags : ReadFlush(f, t, o)

Next ==
    \/ Client
    \/ \E w \in Workers : Worker(w)
    \/ \E c \in Completers : Completer(c)

Spec == Init /\ [][Next]_vars

\* The threads keep running, and the file server comes to each request it
\* deferred; the client owes nobody a message.
FairSpec ==
    /\ Spec
    /\ \A w \in Workers : WF_vars(Worker(w))
    /\ \A c \in Completers : WF_vars(Completer(c))
    /\ \A o \in Obj : SF_vars(\E c \in Completers : Complete(c, o))

----------------------------------------------------------------------------
(* Properties *)

\* The Tflush o is linked to t, which is not answered yet.
Chained(t, o) ==
    /\ flushreq[t] = o
    /\ \/ t \in workreqs
       \/ IsFlush(t) /\ refcount[t] > 0
       \/ \E th \in Threads : req[th] = t /\ pc[th] = "send"

\* np_respond in th has come to o in the chain.
Reached(th, o) ==
    \/ pc[th] = "chain" /\ cur[th] = o
    \/ pc[th] = "next" /\ flushreq[cur[th]] = o

\* Somebody is going to give up the reference np_req_alloc gave o.
Owned(o) ==
    \/ \E i \in DOMAIN reqs : reqs[i] = o
    \/ o \in deferred
    \/ \E th \in Threads : req[th] = o
    \/ \E t \in Obj : Chained(t, o)
    \/ \E th \in Threads : Reached(th, o)

\* The threads whose np_flush has a reference on o.
HeldBy(o) == {th \in Threads : held[th] = o}

(***************************************************************************)
(* The count np_req_ref and np_req_unref keep is exact: one for the single *)
(* place that still has to answer or drop the request, one for each        *)
(* np_flush holding it.  So no request is recycled while it is queued,     *)
(* worked on, deferred or chained, and none is lost: a request nobody will *)
(* answer has been given back.                                             *)
(***************************************************************************)
RefExact ==
    \A o \in Obj :
      refcount[o] = (IF Owned(o) THEN 1 ELSE 0) + Cardinality(HeldBy(o))

(***************************************************************************)
(* While np_respond holds req->lock (or freq->lock) over np_conn_respond,  *)
(* which may want srv->lock, the request is on none of the server's lists. *)
(* np_flush and np_conn_reset take the lock of a request they find on a    *)
(* list while they hold srv->lock, so this is what keeps the two lock      *)
(* orders from deadlocking.                                                *)
(***************************************************************************)
LockOrder ==
    \A th \in Threads, o \in Obj :
      (\/ pc[th] \in {"send", "chain", "next"} /\ req[th] = o
       \/ pc[th] = "chain" /\ cur[th] = o)
      => /\ o \notin workreqs
         /\ \A i \in DOMAIN reqs : reqs[i] # o

(***************************************************************************)
(* Once an Rflush reaches the client, the request its Tflush named is      *)
(* neither queued nor being worked on: whichever of its three branches     *)
(* np_flush took, the server does not run a request after it has confirmed *)
(* the flush.                                                              *)
(***************************************************************************)
FlushedNotListed ==
    [][\A f \in FlushTags :
         (csent[f] # NoObj /\ csent'[f] = NoObj /\ cnamed[f] # NoObj)
         => /\ cnamed[f] \notin workreqs'
            /\ \A i \in DOMAIN reqs' : reqs'[i] # cnamed[f]]_vars

(***************************************************************************)
(* np_req_unref's assert(req->refcount > 0), wherever it is called.        *)
(***************************************************************************)
AssertRefcount ==
    \A th \in Threads :
      /\ pc[th] = "chain" =>
           /\ cur[th] # NoObj => refcount[cur[th]] > 0
           /\ refcount[req[th]] > 0
      /\ pc[th] = "flushunref" => refcount[held[th]] > 0

(***************************************************************************)
(* A reply that is written answers the request the client waits for under  *)
(* that tag: no reply comes after the Rflush for its request.              *)
(***************************************************************************)
NoLateReply ==
    \A th \in Threads :
      pc[th] = "send" => csent[msg[req[th]].tag] = req[th]

(***************************************************************************)
(* Every request is eventually answered or flushed, and every Tflush is    *)
(* answered, however long its target is deferred.                          *)
(***************************************************************************)
EveryRequestSettled ==
    \A t \in Tags, o \in Obj : csent[t] = o ~> csent[t] # o
============================================================================
