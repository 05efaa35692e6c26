------------------------------ MODULE NpReqInv ------------------------------
(***************************************************************************)
(* The inductive invariants behind NpReq's properties.  IInv is for        *)
(* RefExact and LockOrder: an object has at most one owner, each of its    *)
(* parts says what one kind of owner excludes, and the last ties the lists *)
(* to the owners.  ClientInv, on top of it, is for FlushedNotListed.       *)
(***************************************************************************)
EXTENDS NpReq

\* A queued request has been seen by nobody but the reader.
QueueInv ==
    \A i \in DOMAIN reqs :
      /\ \A j \in DOMAIN reqs : reqs[i] = reqs[j] => i = j
      /\ reqs[i] \notin workreqs
      /\ reqs[i] \notin deferred
      /\ flushreq[reqs[i]] = NoObj
      /\ ~responded[reqs[i]]
      /\ \A th \in Threads : req[th] # reqs[i] /\ held[th] # reqs[i]

\* A deferred request is worked on by no thread and is no Tflush.
DeferInv ==
    \A o \in deferred :
      /\ o \in workreqs
      /\ ~IsFlush(o)
      /\ ~responded[o]
      /\ \A th \in Threads : req[th] # o

\* What a thread at each location has in its hands.
ThreadInv ==
    \A th \in Threads :
      /\ pc[th] \in {"idle", "flushcb", "flushunref"} <=> req[th] = NoObj
      /\ pc[th] \in {"process", "mark"} => ~responded[req[th]]
      /\ pc[th] \in {"process", "mark", "unlink"} => req[th] \in workreqs
      /\ pc[th] \in {"send", "chain", "next"} => req[th] \notin workreqs
      /\ pc[th] = "next" => cur[th] \in Obj /\ refcount[cur[th]] = 0
      /\ pc[th] \in {"idle", "process"} => held[th] = NoObj
      /\ pc[th] \in {"flushcb", "flushunref"} => held[th] \in Obj
      /\ \A u \in Threads : req[th] # NoObj /\ req[u] = req[th] => u = th
      /\ req[th] # NoObj /\ IsFlush(req[th]) => flushreq[req[th]] = NoObj
      /\ held[th] # NoObj => ~IsFlush(held[th])

\* A Tflush linked to a request is in nobody else's hands, is linked once,
\* and is on workreqs exactly as long as what it is linked to.
ChainInv ==
    \A t, o \in Obj : Chained(t, o) =>
      /\ IsFlush(o)
      /\ \A i \in DOMAIN reqs : reqs[i] # o
      /\ \A th \in Threads : req[th] # o /\ ~Reached(th, o)
      /\ \A u \in Obj : Chained(u, o) => u = t
      /\ t \in workreqs <=> o \in workreqs

\* The same for the Tflush np_respond has come to.
ReachedInv ==
    \A th \in Threads, o \in Obj : Reached(th, o) =>
      /\ IsFlush(o)
      /\ o \notin workreqs
      /\ \A i \in DOMAIN reqs : reqs[i] # o
      /\ \A u \in Threads : req[u] # o
      /\ \A u \in Threads : Reached(u, o) => u = th

\* Whatever is on workreqs is worked on, deferred, or linked to a request
\* on workreqs.
WorkInv ==
    \A o \in workreqs :
      \/ o \in deferred
      \/ \E th \in Threads :
           req[th] = o /\ pc[th] \in {"process", "mark", "unlink"}
      \/ \E t \in workreqs : flushreq[t] = o

IInv ==
    /\ TypeOK
    /\ QueueInv
    /\ DeferInv
    /\ ThreadInv
    /\ ChainInv
    /\ ReachedInv
    /\ WorkInv
    /\ RefExact
----------------------------------------------------------------------------
(* What the client has been told (FlushedNotListed) *)

Queued(o) == \E i \in DOMAIN reqs : reqs[i] = o
Listed(o) == Queued(o) \/ o \in workreqs
Answering == {"process", "mark", "unlink", "send"}

\* A request whose reply is not written yet.
Pending(o) == Listed(o) \/ \E th \in Threads : req[th] = o /\ pc[th] = "send"

\* The client waits for every Tflush that is not answered.
AskInv ==
    \A o \in Obj :
      /\ IsFlush(o) /\ refcount[o] > 0
      /\ \A th \in Threads : req[th] = o => pc[th] \in Answering
      => csent[msg[o].tag] = o /\ cold[msg[o].tag] = msg[o].old

\* What it waits for otherwise is not answered.
OpInv ==
    \A t \in OpTags : csent[t] \in Obj => msg[csent[t]].tag = t /\ Pending(csent[t])

\* Nor is what a Tflush named, and while it is on a list its tag is not used
\* again.
NamedInv ==
    \A f \in FlushTags : cnamed[f] # NoObj =>
      /\ cold[f] \in OpTags /\ msg[cnamed[f]].tag = cold[f]
      /\ Pending(cnamed[f])
      /\ Listed(cnamed[f]) => csent[cold[f]] = cnamed[f]

\* Tflush f was sent for a request that is still on a list.
Open(f) == cnamed[f] # NoObj /\ Listed(cnamed[f])

\* Whatever is queued under the tag it names came before the Tflush: np_flush
\* does not meet a later request of that tag.
BeforeInv ==
    /\ \A i, j \in DOMAIN reqs :
         /\ IsFlush(reqs[j]) /\ Open(msg[reqs[j]].tag)
         /\ msg[reqs[i]].tag = cold[msg[reqs[j]].tag]
         => i < j
    /\ \A th \in Threads :
         /\ req[th] # NoObj /\ IsFlush(req[th]) /\ pc[th] = "process"
         /\ Open(msg[req[th]].tag)
         => \A i \in DOMAIN reqs : msg[reqs[i]].tag # cold[msg[req[th]].tag]

\* When np_flush has not linked the Tflush, what it named is on no list.
ClosedInv ==
    \A th \in Threads : req[th] # NoObj /\ IsFlush(req[th]) /\ pc[th] \in {"mark", "unlink", "send"} =>
      ~Open(msg[req[th]].tag)

\* The requests linked to one of workreqs are Tflush for its tag.
LinkInv ==
    \A q \in workreqs : flushreq[q] # NoObj =>
      msg[flushreq[q]].old = IF IsFlush(q) THEN msg[q].old ELSE msg[q].tag

\* The chain np_respond has still to answer: before the reply all of it names
\* the tag of the reply, after it the client knows that what it named is done.
Link(th) ==
    IF pc[th] = "send" THEN flushreq[req[th]] ELSE IF pc[th] = "chain" THEN cur[th] ELSE flushreq[cur[th]]
Linked(s) ==
    /\ IsFlush(s) /\ refcount[s] > 0 /\ ~Listed(s)
    /\ \A th \in Threads : req[th] # s
Rest(th, S) ==
    /\ Link(th) \in S \cup {NoObj}
    /\ \A s \in S : /\ Linked(s) /\ flushreq[s] \in S \cup {NoObj}
                    /\ IF pc[th] = "send" THEN msg[s].old = msg[req[th]].tag
                                          ELSE cnamed[msg[s].tag] = NoObj
TailInv ==
    \A th \in Threads : pc[th] \in {"send", "chain", "next"} => \E S \in SUBSET Obj : Rest(th, S)

ClientInv ==
    AskInv /\ OpInv /\ NamedInv /\ BeforeInv /\ ClosedInv /\ LinkInv /\ TailInv
=============================================================================
