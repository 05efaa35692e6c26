------------------------------- MODULE NpConn -------------------------------
(***************************************************************************)
(* The life of a connection (conn.c, and its part of srv.c): the reader    *)
(* thread takes messages in until the transport ends, a Tversion or the    *)
(* end of the transport resets the connection, a worker that answers a     *)
(* request may find the transport broken, np_srv_shutdown takes the        *)
(* connection away, and the last np_conn_decref frees it.                  *)
(*                                                                         *)
(* One connection.  Its fids are represented by the pool they are in, a    *)
(* number that counts the pools; 0 is no pool.  A message is a Tversion or *)
(* something that uses a fid.  What happens to a request in between, and   *)
(* Tflush, is in NpReq; the fids are in NpFid.                             *)
(***************************************************************************)
EXTENDS Integers, Sequences, FiniteSets, SequencesExt

CONSTANTS Reqs,         \* Npreq structures
          Workers,      \* worker threads
          Reader,       \* the connection's np_conn_read_proc
          Stopper,      \* the thread that calls np_srv_shutdown
          None,         \* the NULL pointer
          MaxPools,     \* bound: the pools created for the connection
          EarlyShutdown \* TRUE: np_srv_shutdown may run before the reader has
                        \*   taken its reference; FALSE: only after that

Actors == Workers \cup {Reader, Stopper}

ASSUME NpConnAssumption ==
    /\ Reader \notin Workers
    /\ Stopper \notin Workers \cup {Reader}
    /\ None \notin Reqs
    /\ IsFiniteSet(Reqs) /\ IsFiniteSet(Workers)
    /\ MaxPools \in Nat \ {0}
    /\ EarlyShutdown \in BOOLEAN

VARIABLES
    careful,   \* client: it sends nothing while it waits for an Rversion
    awaits,    \* client: it waits for an Rversion
    refcount,  \* Npconn.refcount
    freed,     \* the Npconn has been freed
    listed,    \* the Npconn is on srv->conns
    trans,     \* Npconn.trans is not NULL
    closed,    \* how often np_trans_destroy was called for the transport
    resetting, \* Npconn.resetting
    pool,      \* Npconn.fidpool
    pools,     \* the pools created so far
    shut,      \* Npsrv.shuttingdown
    destroyed, \* Npsrv.destroyed: the workers take no more requests
    reqs,      \* the queued requests
    workreqs,  \* the requests being worked on
    rq,        \* each request: its references, kind, pool when it was read,
               \*   and the pool of req->fid
    pc,        \* where each thread is
    req,       \* the request a worker works on, or the reader has read
    preqs,     \* np_conn_reset: queued requests it took
    kept,      \* np_conn_reset: working requests it holds
    asleep,    \* threads in pthread_cond_wait(&conn->resetcond)
    took       \* threads that took the transport to destroy it

connVars == <<refcount, freed, listed, trans, closed, resetting, pool, pools>>
srvVars == <<shut, destroyed, reqs, workreqs>>
thrVars == <<req, preqs, kept, asleep, took>>
cliVars == <<careful, awaits>>
vars == <<connVars, srvVars, rq, pc, thrVars, cliVars>>

Kinds == {"op", "version"}
NoReq == [refs |-> 0, kind |-> "op", born |-> 0, fid |-> 0]

Locations == {"start", "read", "check", "sleepy", "sleep", "alloc", "add", "again",
              "exit", "remove",
              "bye", "last", "gone",
              "idle", "process", "unlink", "fid", "send", "write", "signal", "unref",
              "reset", "collect", "drop", "wait", "destroy", "renew", "newpool",
              "reopen", "unkeep",
              "close", "decref"}

(***************************************************************************)
(* The fields have their C types; the counts are never negative.           *)
(***************************************************************************)
TypeOK ==
    /\ careful \in BOOLEAN /\ awaits \in BOOLEAN
    /\ refcount \in Nat
    /\ {freed, listed, trans, resetting, shut, destroyed} \subseteq BOOLEAN
    /\ closed \in Nat
    /\ pools \in 0 .. MaxPools
    /\ pool \in 0 .. pools
    /\ reqs \in Seq(Reqs)
    /\ workreqs \in SUBSET Reqs
    /\ rq \in [Reqs -> [refs : Nat, kind : Kinds, born : 0 .. MaxPools, fid : 0 .. MaxPools]]
    /\ pc \in [Actors -> Locations]
    /\ req \in [Actors -> Reqs \cup {None}]
    /\ preqs \in [Actors -> SUBSET Reqs]
    /\ kept \in [Actors -> SUBSET Reqs]
    /\ asleep \in SUBSET Actors
    /\ took \in SUBSET Actors

\* np_conn_create: np_srv_add_conn puts the connection on the list, or not
\* when the server is shutting down already; the reader is started either way.
Init ==
    /\ careful \in BOOLEAN
    /\ awaits = FALSE
    /\ listed \in BOOLEAN
    /\ shut = ~listed
    /\ destroyed \in BOOLEAN
    /\ destroyed => shut
    /\ refcount = IF listed THEN 1 ELSE 0
    /\ freed = FALSE
    /\ trans = TRUE
    /\ closed = 0
    /\ resetting = FALSE
    /\ pool = 1
    /\ pools = 1
    /\ reqs = <<>>
    /\ workreqs = {}
    /\ rq = [r \in Reqs |-> NoReq]
    /\ pc = [a \in Actors |-> IF a = Reader THEN "start" ELSE "idle"]
    /\ req = [a \in Actors |-> None]
    /\ preqs = [a \in Actors |-> {}]
    /\ kept = [a \in Actors |-> {}]
    /\ asleep = {}
    /\ took = {}

Go(a, l) == pc' = [pc EXCEPT ![a] = l]

----------------------------------------------------------------------------
(* References *)

\* n times np_conn_decref: the last one frees the connection with its pool.
np_conn_decref(n) ==
    /\ refcount' = refcount - n
    /\ freed' = (freed \/ (n > 0 /\ refcount = n))
    /\ pool' = IF n > 0 /\ refcount = n THEN 0 ELSE pool

\* np_req_unref for the requests in S: one that is not referenced any more
\* gives up its reference on the connection.
np_req_unref(S) ==
    /\ rq' = [r \in Reqs |->
                IF r \notin S THEN rq[r]
                ELSE IF rq[r].refs = 1 THEN NoReq
                ELSE [rq[r] EXCEPT !.refs = @ - 1]]
    /\ np_conn_decref(Cardinality({r \in S : rq[r].refs = 1}))

\* Under conn->lock: whoever finds the transport takes it to destroy it.
TakeTrans(a) ==
    /\ trans' = FALSE
    /\ took' = IF trans THEN took \cup {a} ELSE took

np_trans_destroy(a) ==
    /\ closed' = IF a \in took THEN closed + 1 ELSE closed
    /\ took' = took \ {a}

----------------------------------------------------------------------------
(* The reader: np_conn_read_proc *)

ReaderStart ==
    /\ pc[Reader] = "start"
    /\ refcount' = refcount + 1
    /\ Go(Reader, "read")
    /\ UNCHANGED <<freed, listed, trans, closed, resetting, pool, pools,
                   srvVars, rq, thrVars, cliVars>>

\* np_trans_read returns a message, or there is another one in the buffer; the
\* request's memory is set aside.
ReaderRecv(r, kind) ==
    /\ \/ pc[Reader] = "read" /\ trans /\ Go(Reader, "check")
       \/ pc[Reader] = "again" /\ Go(Reader, "alloc")
    /\ rq[r].refs = 0
    /\ careful => ~awaits
    /\ awaits' = (awaits \/ kind = "version")
    /\ req' = [req EXCEPT ![Reader] = r]
    /\ rq' = [rq EXCEPT ![r].kind = kind]
    /\ UNCHANGED <<connVars, srvVars, preqs, kept, asleep, took, careful>>

\* Under conn->lock: while the connection is being reset the input is
\* discarded.  Only what was just read is looked at so.
ReaderCheck ==
    /\ pc[Reader] = "check"
    /\ IF resetting
       THEN /\ Go(Reader, "sleepy")
            /\ req' = [req EXCEPT ![Reader] = None]
            /\ rq' = [rq EXCEPT ![req[Reader]] = NoReq]
       ELSE Go(Reader, "alloc") /\ UNCHANGED <<req, rq>>
    /\ UNCHANGED <<connVars, srvVars, preqs, kept, asleep, took, cliVars>>

\* np_req_alloc
ReaderAlloc ==
    /\ pc[Reader] = "alloc"
    /\ refcount' = refcount + 1
    /\ rq' = [rq EXCEPT ![req[Reader]].refs = 1, ![req[Reader]].born = pool]
    /\ Go(Reader, "add")
    /\ UNCHANGED <<freed, listed, trans, closed, resetting, pool, pools, srvVars,
                   thrVars, cliVars>>

\* The wait on resetdonecond is a step of its own: np_conn_reset broadcasts
\* without conn->lock.
ReaderSleep ==
    /\ pc[Reader] = "sleepy"
    /\ Go(Reader, "sleep")
    /\ UNCHANGED <<connVars, srvVars, rq, thrVars, cliVars>>

\* Under srv->lock: the request is queued, unless a reset has begun.  There may
\* be more in the buffer, of which a careful client sends nothing after a Tversion.
ReaderAdd ==
    LET r == req[Reader] IN
    /\ pc[Reader] = "add"
    /\ IF resetting
       THEN /\ np_req_unref({r})
            /\ UNCHANGED reqs
       ELSE /\ reqs' = Append(reqs, r)
            /\ UNCHANGED <<rq, refcount, freed, pool>>
    /\ req' = [req EXCEPT ![Reader] = None]
    /\ Go(Reader, "read") \/ ((careful => ~awaits) /\ Go(Reader, "again"))
    /\ UNCHANGED <<listed, trans, closed, resetting, pools, shut, destroyed,
                   workreqs, preqs, kept, asleep, took, cliVars>>

\* The client closes the connection, or the transport is gone, or what came
\* is no 9P message.
ReaderEnd ==
    /\ pc[Reader] \in {"read", "again"}
    /\ Go(Reader, "exit")
    /\ UNCHANGED <<connVars, srvVars, rq, thrVars, cliVars>>

ReaderExit ==
    /\ pc[Reader] = "exit"
    /\ TakeTrans(Reader)
    /\ Go(Reader, "remove")
    /\ UNCHANGED <<refcount, freed, listed, closed, resetting, pool, pools,
                   srvVars, rq, req, preqs, kept, asleep, cliVars>>

\* Mutant: the list's reference is given up even when it is not the reader
\* that took the connection off the list.
np_srv_remove_conn_always ==
    /\ pc[Reader] = "remove"
    /\ np_conn_decref(1)
    /\ listed' = FALSE
    /\ destroyed' = (destroyed \/ shut)
    /\ Go(Reader, "reset")
    /\ UNCHANGED <<trans, closed, resetting, pools, shut, reqs, workreqs, rq,
                   thrVars, cliVars>>

\* np_srv_remove_conn: only a connection this call takes off the list gives up
\* the list's reference; the last one to leave a server that is shutting down
\* destroys it.
np_srv_remove_conn ==
    /\ pc[Reader] = "remove"
    /\ np_conn_decref(IF listed THEN 1 ELSE 0)
    /\ listed' = FALSE
    /\ destroyed' = (destroyed \/ shut)
    /\ Go(Reader, "reset")
    /\ UNCHANGED <<trans, closed, resetting, pools, shut, reqs, workreqs, rq,
                   thrVars, cliVars>>

ReaderBye ==
    /\ pc[Reader] = "bye"
    /\ np_trans_destroy(Reader)
    /\ Go(Reader, "last")
    /\ UNCHANGED <<refcount, freed, listed, trans, resetting, pool, pools,
                   srvVars, rq, req, preqs, kept, asleep, cliVars>>

ReaderLast ==
    /\ pc[Reader] = "last"
    /\ np_conn_decref(1)
    /\ Go(Reader, "gone")
    /\ UNCHANGED <<listed, trans, closed, resetting, pools, srvVars, rq, thrVars,
                   cliVars>>

----------------------------------------------------------------------------
(* np_conn_reset, called by the reader and by the worker with a Tversion *)

\* The working requests the reset in a waits for.
Awaited(a) == {r \in workreqs : a = Reader \/ rq[r].kind # "version"}

ResetBegin(a) ==
    /\ pc[a] = "reset"
    /\ resetting' = TRUE
    /\ Go(a, "collect")
    /\ UNCHANGED <<refcount, freed, listed, trans, closed, pool, pools, srvVars,
                   rq, thrVars, cliVars>>

\* Mutant: the queued requests stay.
ResetCollect_keepqueue(a) ==
    /\ pc[a] = "collect"
    /\ kept' = [kept EXCEPT ![a] = Awaited(a)]
    /\ rq' = [r \in Reqs |-> IF r \in Awaited(a) THEN [rq[r] EXCEPT !.refs = @ + 1]
                                                 ELSE rq[r]]
    /\ Go(a, "drop")
    /\ UNCHANGED <<connVars, srvVars, req, preqs, asleep, took, cliVars>>

\* Under srv->lock: the queued requests are taken, the working ones held.
ResetCollect(a) ==
    /\ pc[a] = "collect"
    /\ preqs' = [preqs EXCEPT ![a] = ToSet(reqs)]
    /\ reqs' = <<>>
    /\ kept' = [kept EXCEPT ![a] = Awaited(a)]
    /\ rq' = [r \in Reqs |-> IF r \in Awaited(a) THEN [rq[r] EXCEPT !.refs = @ + 1]
                                                 ELSE rq[r]]
    /\ Go(a, "drop")
    /\ UNCHANGED <<connVars, shut, destroyed, workreqs, req, asleep, took, cliVars>>

\* The queued requests are dropped without an answer (np_conn_respond finds no
\* rcall), the working ones passed to srv->flush, which may do nothing.
ResetDrop(a) ==
    /\ pc[a] = "drop"
    /\ np_req_unref(preqs[a])
    /\ preqs' = [preqs EXCEPT ![a] = {}]
    /\ asleep' = IF resetting /\ preqs[a] # {} THEN {} ELSE asleep
    /\ Go(a, "wait")
    /\ UNCHANGED <<listed, trans, closed, resetting, pools, srvVars, req, kept,
                   took, cliVars>>

\* Under srv->lock: wait until none of the connection's requests is on
\* workreqs.
ResetWait(a) ==
    /\ pc[a] = "wait"
    /\ a \notin asleep
    /\ IF Awaited(a) = {}
       THEN Go(a, "destroy") /\ UNCHANGED asleep
       ELSE asleep' = asleep \cup {a} /\ UNCHANGED pc
    /\ UNCHANGED <<connVars, srvVars, rq, req, preqs, kept, took, cliVars>>

\* Without a lock: the pool and its fids are freed ...
ResetDestroy(a) ==
    /\ pc[a] = "destroy"
    /\ pool' = 0
    /\ Go(a, IF a = Reader THEN "reopen" ELSE "renew")
    /\ UNCHANGED <<refcount, freed, listed, trans, closed, resetting, pools,
                   srvVars, rq, thrVars, cliVars>>

\* ... for a Tversion the connection is open again ...
ResetRenew(a) ==
    /\ pc[a] = "renew"
    /\ resetting' = FALSE
    /\ Go(a, "newpool")
    /\ UNCHANGED <<refcount, freed, listed, trans, closed, pool, pools, srvVars,
                   rq, thrVars, cliVars>>

\* ... and gets a new pool, and the reader is woken ...
ResetPool(a) ==
    /\ pc[a] = "newpool"
    /\ pool' = pools + 1
    /\ pools' = pools + 1
    /\ pc' = [pc EXCEPT ![a] = "reopen",
                        ![Reader] = IF @ = "sleep" THEN "read" ELSE @]
    /\ UNCHANGED <<refcount, freed, listed, trans, closed, resetting, srvVars, rq,
                   thrVars, cliVars>>

\* ... and resetting is cleared, for a Tversion once more.
ResetReopen(a) ==
    /\ pc[a] = "reopen"
    /\ resetting' = FALSE
    /\ Go(a, "unkeep")
    /\ UNCHANGED <<refcount, freed, listed, trans, closed, pool, pools, srvVars,
                   rq, thrVars, cliVars>>

ResetUnkeep(a) ==
    /\ pc[a] = "unkeep"
    /\ np_req_unref(kept[a])
    /\ kept' = [kept EXCEPT ![a] = {}]
    /\ Go(a, IF a = Reader THEN "bye" ELSE "unlink")
    /\ UNCHANGED <<listed, trans, closed, resetting, pools, srvVars, req, preqs,
                   asleep, took, cliVars>>

np_conn_reset(a) ==
    \/ ResetBegin(a)
    \/ ResetCollect(a)
    \/ ResetDrop(a)
    \/ ResetWait(a)
    \/ ResetDestroy(a)
    \/ ResetRenew(a)
    \/ ResetPool(a)
    \/ ResetReopen(a)
    \/ ResetUnkeep(a)

----------------------------------------------------------------------------
(* The workers *)

WorkerTake(w) ==
    /\ pc[w] = "idle"
    /\ ~destroyed
    /\ reqs # <<>>
    /\ reqs' = Tail(reqs)
    /\ workreqs' = workreqs \cup {Head(reqs)}
    /\ req' = [req EXCEPT ![w] = Head(reqs)]
    /\ Go(w, "process")
    /\ UNCHANGED <<connVars, shut, destroyed, rq, preqs, kept, asleep, took, cliVars>>

\* A handler finds its fid in the pool and keeps it in req->fid, or fails.
Process(w) ==
    LET r == req[w] IN
    /\ pc[w] = "process"
    /\ rq[r].kind = "op"
    /\ \E f \in {0, pool} : rq' = [rq EXCEPT ![r].fid = f]
    /\ Go(w, "unlink")
    /\ UNCHANGED <<connVars, srvVars, thrVars, cliVars>>

\* The workers that will create a pool.
Resetting == {w \in Workers : pc[w] \in {"reset", "collect", "drop", "wait",
                                        "destroy", "renew", "newpool"}}

\* np_version, np_default_version: refused, or the connection is reset.
np_version(w) ==
    /\ pc[w] = "process"
    /\ rq[req[w]].kind = "version"
    /\ \/ Go(w, "unlink")
       \/ /\ pools + Cardinality(Resetting) < MaxPools
          /\ Go(w, "reset")
    /\ UNCHANGED <<connVars, srvVars, rq, thrVars, cliVars>>

\* np_respond: off workreqs ...
RespondUnlink(w) ==
    /\ pc[w] = "unlink"
    /\ workreqs' = workreqs \ {req[w]}
    /\ Go(w, "fid")
    /\ UNCHANGED <<connVars, shut, destroyed, reqs, rq, thrVars, cliVars>>

\* ... req->fid is given up ...
RespondFid(w) ==
    /\ pc[w] = "fid"
    /\ rq' = [rq EXCEPT ![req[w]].fid = 0]
    /\ Go(w, "send")
    /\ UNCHANGED <<connVars, srvVars, thrVars, cliVars>>

\* ... and np_conn_respond, under conn->lock, looks whether to send ...
RespondSend(w) ==
    /\ pc[w] = "send"
    /\ Go(w, IF trans /\ ~resetting THEN "write" ELSE "signal")
    /\ UNCHANGED <<connVars, srvVars, rq, thrVars, cliVars>>

\* Mutant: the transport stays for others to destroy when a write fails.
RespondWrite_notake(w) ==
    /\ pc[w] = "write"
    /\ \/ /\ trans
          /\ awaits' = (awaits /\ rq[req[w]].kind # "version")
          /\ UNCHANGED <<trans, took>>
       \/ /\ took' = IF trans THEN took \cup {w} ELSE took
          /\ UNCHANGED <<awaits, trans>>
    /\ Go(w, "signal")
    /\ UNCHANGED <<refcount, freed, listed, closed, resetting, pool, pools,
                   srvVars, rq, req, preqs, kept, asleep, careful>>

\* ... writes, and takes the transport when that fails.  The transport may be
\* gone since the look; that write is taken to fail.
RespondWrite(w) ==
    /\ pc[w] = "write"
    /\ \/ /\ trans
          /\ awaits' = (awaits /\ rq[req[w]].kind # "version")
          /\ UNCHANGED <<trans, took>>
       \/ /\ TakeTrans(w)
          /\ UNCHANGED awaits
    /\ Go(w, "signal")
    /\ UNCHANGED <<refcount, freed, listed, closed, resetting, pool, pools,
                   srvVars, rq, req, preqs, kept, asleep, careful>>

\* Mutant: nobody is told.
RespondSignal_silent(w) ==
    /\ pc[w] = "signal"
    /\ np_trans_destroy(w)
    /\ Go(w, "unref")
    /\ UNCHANGED <<refcount, freed, listed, trans, resetting, pool, pools,
                   srvVars, rq, req, preqs, kept, asleep, cliVars>>

\* A reset that waits is told, and a transport that was taken is destroyed.
RespondSignal(w) ==
    /\ pc[w] = "signal"
    /\ asleep' = IF resetting THEN {} ELSE asleep
    /\ np_trans_destroy(w)
    /\ Go(w, "unref")
    /\ UNCHANGED <<refcount, freed, listed, trans, resetting, pool, pools,
                   srvVars, rq, req, preqs, kept, cliVars>>

RespondUnref(w) ==
    /\ pc[w] = "unref"
    /\ np_req_unref({req[w]})
    /\ req' = [req EXCEPT ![w] = None]
    /\ Go(w, "idle")
    /\ UNCHANGED <<listed, trans, closed, resetting, pools, srvVars, preqs, kept,
                   asleep, took, cliVars>>

----------------------------------------------------------------------------
(* np_srv_shutdown *)

\* Under srv->lock: with shutconns the connections, and the list's references
\* with them, are taken; a server without connections is destroyed.
np_srv_shutdown(shutconns) ==
    /\ pc[Stopper] = "idle"
    /\ ~shut
    /\ EarlyShutdown \/ pc[Reader] # "start"
    /\ shut' = TRUE
    /\ listed' = (listed /\ ~shutconns)
    /\ destroyed' = (destroyed \/ ~listed')
    /\ Go(Stopper, IF listed /\ shutconns THEN "close" ELSE "gone")
    /\ UNCHANGED <<refcount, freed, trans, closed, resetting, pool, pools, reqs,
                   workreqs, rq, thrVars, cliVars>>

\* np_conn_shutdown
np_conn_shutdown ==
    /\ pc[Stopper] = "close"
    /\ trans' = FALSE
    /\ closed' = IF trans THEN closed + 1 ELSE closed
    /\ Go(Stopper, "decref")
    /\ UNCHANGED <<refcount, freed, listed, resetting, pool, pools, srvVars, rq,
                   thrVars, cliVars>>

StopperDecref ==
    /\ pc[Stopper] = "decref"
    /\ np_conn_decref(1)
    /\ Go(Stopper, "gone")
    /\ UNCHANGED <<listed, trans, closed, resetting, pools, srvVars, rq, thrVars,
                   cliVars>>

----------------------------------------------------------------------------

np_conn_read_proc ==
    \/ ReaderStart
    \/ ReaderCheck
    \/ ReaderAlloc
    \/ ReaderSleep
    \/ ReaderAdd
    \/ ReaderExit
    \/ np_srv_remove_conn
    \/ np_conn_reset(Reader)
    \/ ReaderBye
    \/ ReaderLast

Worker(w) ==
    \/ WorkerTake(w)
    \/ Process(w)
    \/ np_version(w)
    \/ np_conn_reset(w)
    \/ RespondUnlink(w)
    \/ RespondFid(w)
    \/ RespondSend(w)
    \/ RespondWrite(w)
    \/ RespondSignal(w)
    \/ RespondUnref(w)

Next ==
    \/ \E r \in Reqs, kind \in Kinds : ReaderRecv(r, kind)
    \/ ReaderEnd
    \/ np_conn_read_proc
    \/ \E w \in Workers : Worker(w)
    \/ \E shutconns \in BOOLEAN : np_srv_shutdown(shutconns)
    \/ np_conn_shutdown
    \/ StopperDecref

Spec == Init /\ [][Next]_vars

----------------------------------------------------------------------------
(* Properties *)

\* 1 for a true statement, to count with.
One(b) == IF b THEN 1 ELSE 0

(***************************************************************************)
(* The count of the connection is exact: one reference each for the list,  *)
(* the shutdown that took it off the list, the reader, and every request;  *)
(* so it is freed when the last of them is done with it, not before, and   *)
(* it is not leaked, however the reader, a shutdown and the answers        *)
(* overlap.                                                                *)
(***************************************************************************)
ConnRefExact ==
    /\ refcount = One(listed) + One(pc[Stopper] \in {"close", "decref"})
                  + One(pc[Reader] \notin {"start", "gone"})
                  + Cardinality({r \in Reqs : rq[r].refs > 0})
    /\ freed <=> refcount = 0 /\ pc[Reader] = "gone"

(***************************************************************************)
(* The transport is destroyed once, though the reader, a shutdown and      *)
(* every failed write may want to, and it is destroyed when the connection *)
(* is gone.                                                                *)
(***************************************************************************)
TransOnce ==
    /\ closed + Cardinality(took) = One(~trans)
    /\ freed => closed = 1

(***************************************************************************)
(* When the client waits for the Rversion, a handler runs with the pool    *)
(* the connection had when the request was read: no request survives a     *)
(* reset, and none runs while the connection has no pool.                  *)
(***************************************************************************)
HandlerInSession ==
    careful => \A w \in Workers :
      pc[w] \in {"process", "unlink"} /\ rq[req[w]].kind = "op" => rq[req[w]].born = pool

(***************************************************************************)
(* When the client waits for the Rversion, the worker that resets the      *)
(* connection does not sleep with nobody left to wake it.                  *)
(***************************************************************************)
VersionWoken ==
    careful => \A w \in Workers \cap asleep :
      \/ Awaited(w) # {}
      \/ \E u \in Workers \ {w} : pc[u] \in {"fid", "send", "write", "signal"} /\ resetting

(***************************************************************************)
(* np_conn_reset waits until all working requests finish: none of them     *)
(* still has a fid of the pool when that has been freed.                   *)
(***************************************************************************)
WorkingFinished ==
    \A w \in Workers : pc[w] \in {"unlink", "fid"} => rq[req[w]].fid \in {0, pool}
=============================================================================
