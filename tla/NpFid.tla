------------------------------- MODULE NpFid -------------------------------
(***************************************************************************)
(* The fids of a connection: the pool (fidpool.c) and the references the   *)
(* message handlers (fcall.c) and np_respond (srv.c) take and give up.     *)
(*                                                                         *)
(* np_fid_find returns a pointer without a reference, np_fid_create        *)
(* publishes a fid with no reference and no user, and the last             *)
(* np_fid_decref destroys it, so between any two of these another request  *)
(* may interfere.  Every one of them is a step here.                       *)
(*                                                                         *)
(* A handler is a record of what distinguishes it from the others; those   *)
(* that treat fids alike are the same record.  What it refuses because of  *)
(* the contents of the message is left to the outcome of the operation.    *)
(***************************************************************************)
EXTENDS Integers, FiniteSets

CONSTANTS Nums,      \* fid numbers the client uses
          Mem,       \* memory for Npfid structures
          Reqs,      \* requests that can be in progress at a time
          None,      \* the NULL pointer, and the number NOFID
          Careful,   \* the operations for which the client keeps to the
                     \*   discipline of MaySend
          CloneFails \* whether srv->clone may fail: a subset of BOOLEAN

Operations == {"nothing", "open", "create", "xattrcreate", "clunk", "remove",
               "walk", "xattrwalk", "attach", "auth"}

ASSUME NpFidAssumption ==
    /\ None \notin Mem
    /\ None \notin Nums
    /\ IsFiniteSet(Reqs)
    /\ Careful \subseteq Operations
    /\ CloneFails \in SUBSET BOOLEAN
    /\ CloneFails # {}

----------------------------------------------------------------------------
(* The handlers *)

\* first:  "old" looks the fid up, "new" creates it
\* check:  what the fid must be, or the message is refused
\* second: another fid: none, "old", "new", or "afid"
\* check2: what the second fid must be
\* sets:   when req->fid is set: with the fid "found", after it is "checked",
\*         with the "second" fid found, or "never"
\* does:   what the operation does to the fids
Handler(does) == [first |-> "old", check |-> {}, second |-> "none",
                  check2 |-> {}, sets |-> "found", does |-> does]

np_stat == Handler("nothing")
np_wstat == Handler("nothing")
np_statfs == Handler("nothing")
np_readlink == Handler("nothing")
np_getattr == Handler("nothing")
np_setattr == Handler("nothing")
np_fsync == Handler("nothing")
np_flock == Handler("nothing")
np_getlock == Handler("nothing")
np_read == [Handler("nothing") EXCEPT !.check = {"readable"}]
np_write == [Handler("nothing") EXCEPT !.check = {"writable"}]
np_readdir == [Handler("nothing") EXCEPT !.check = {"dir", "opened"}]
np_symlink == [Handler("nothing") EXCEPT !.check = {"closed", "dir"}]
np_mknod == [Handler("nothing") EXCEPT !.check = {"closed", "dir"}]
np_mkdir == [Handler("nothing") EXCEPT !.check = {"closed", "dir"}]
np_unlinkat == [Handler("nothing") EXCEPT !.check = {"closed", "dir"},
                                          !.sets = "checked"]
np_rename == [Handler("nothing") EXCEPT !.second = "old"]
np_renameat == [Handler("nothing") EXCEPT !.check = {"closed", "dir"}, !.second = "old",
                                          !.check2 = {"closed", "dir"}]
np_link == [Handler("nothing") EXCEPT !.second = "old", !.check2 = {"closed", "dir"},
                                      !.sets = "second"]
np_open == [Handler("open") EXCEPT !.check = {"closed"}]
np_lopen == Handler("open")
np_create == [Handler("create") EXCEPT !.check = {"closed", "dir"}]
np_lcreate == [Handler("create") EXCEPT !.check = {"closed", "dir"}]
np_xattrcreate == [Handler("xattrcreate") EXCEPT !.check = {"noxattr"}]
np_clunk == Handler("clunk")
np_remove == Handler("remove")
np_walk == [Handler("walk") EXCEPT !.check = {"closed"}, !.second = "new"]
np_xattrwalk == [Handler("xattrwalk") EXCEPT !.second = "new"]
np_attach == [Handler("attach") EXCEPT !.first = "new", !.second = "afid"]
np_auth == [Handler("auth") EXCEPT !.first = "new", !.sets = "never"]

Handlers == {np_stat, np_wstat, np_statfs, np_readlink, np_getattr, np_setattr,
             np_fsync, np_flock, np_getlock, np_read, np_write, np_readdir,
             np_symlink, np_mknod, np_mkdir, np_unlinkat, np_rename,
             np_renameat, np_link, np_open, np_lopen, np_create, np_lcreate,
             np_xattrcreate, np_clunk, np_remove, np_walk, np_xattrwalk,
             np_attach, np_auth}

\* The handlers that change the fid they name: a careful client has nothing
\* else outstanding on it.
Exclusive == {"open", "create", "xattrcreate", "clunk", "remove"}

----------------------------------------------------------------------------

VARIABLES
    pool,    \* Npconn.fidpool: the fid that carries a number
    live,    \* memory that is allocated
    refs,    \* Npfid.refcount
    type,    \* Npfid.type: the bits set, {} for a plain file
    omode,   \* Npfid.omode
    user,    \* whether Npfid.user is set
    rq,      \* the requests in progress
    granted  \* client: the numbers it holds a fid under

fidVars == <<live, refs, type, omode, user>>
vars == <<pool, fidVars, rq, granted>>

Pcs == {"idle", "find", "create", "hold", "find2", "create2", "clone", "hold2",
        "op", "done", "respond", "reply"}
Omodes == {"closed", "read", "write"}  \* Ordwr is one or the other
Pointers == Mem \cup {None}

\* f and g are the handler's fid and newfid (dfid, afid), rf is req->fid, zero
\* a fid whose count np_fid_decref has brought to zero, ok whether the answer
\* grants the client a fid or takes one from it.
Request == [pc : Pcs, h : Handlers, n : Nums \cup {None}, m : Nums \cup {None},
            f : Pointers, g : Pointers, rf : Pointers, zero : Pointers,
            ok : BOOLEAN]

Idle == [pc |-> "idle", h |-> np_stat, n |-> None, m |-> None,
         f |-> None, g |-> None, rf |-> None, zero |-> None, ok |-> FALSE]

(***************************************************************************)
(* The fids and the handlers' variables have their C types; a count is     *)
(* never negative, so np_fid_decref never starts from zero.                *)
(***************************************************************************)
TypeOK ==
    /\ pool \in [Nums -> Pointers]
    /\ live \in SUBSET Mem
    /\ refs \in [Mem -> Nat]
    /\ type \in [Mem -> SUBSET {"dir", "auth", "xattr"}]
    /\ omode \in [Mem -> Omodes]
    /\ user \in [Mem -> BOOLEAN]
    /\ rq \in [Reqs -> Request]
    /\ granted \in SUBSET Nums

Init ==
    /\ pool = [n \in Nums |-> None]
    /\ live = {}
    /\ refs = [f \in Mem |-> 0]
    /\ type = [f \in Mem |-> {}]
    /\ omode = [f \in Mem |-> "closed"]
    /\ user = [f \in Mem |-> FALSE]
    /\ rq = [r \in Reqs |-> Idle]
    /\ granted = {}

----------------------------------------------------------------------------
(* The client *)

Busy == {r \in Reqs : rq[r].pc # "idle"}
Names(r) == {rq[r].n, rq[r].m}
Changes(h, n, m) == h.does \in Exclusive \/ (h.does = "walk" /\ m = n)

\* The number stands for a fid whose type has bit t.
Is(n, t) == pool[n] # None /\ t \in type[pool[n]]

\* What a client does that keeps its fids apart: it creates a fid under a
\* number it does not use, uses fids it holds, and changes or gives up a fid
\* only while nothing else names it.  It keeps an afid, passes Tattach
\* nothing else, and sends Tunlinkat for a directory that is not open.
MaySend(h, n, m) ==
    /\ (h.first = "old") <=> (n \in granted)
    /\ h.second = "old" => m \in granted
    /\ h.second = "new" /\ m # n => m \notin granted
    /\ \A r \in Busy : /\ Changes(rq[r].h, rq[r].n, rq[r].m) => rq[r].n \notin {n, m}
                       /\ Changes(h, n, m) => n \notin Names(r)
                       /\ h.first = "new" => n \notin Names(r)
                       /\ h.second = "new" => m = n \/ m \notin Names(r)
    /\ h.second = "afid" => m = None \/ (m \in granted /\ Is(m, "auth"))
    /\ h.does \in {"clunk", "remove"} => ~Is(n, "auth")
    /\ h = np_unlinkat => Is(n, "dir") /\ omode[pool[n]] = "closed"

\* Which second number a message for handler h carries.
SecondNums(h) == CASE h.second = "none" -> {None}
                   [] h.second = "afid" -> Nums \cup {None}
                   [] OTHER -> Nums

Send(r, h, n, m) ==
    /\ rq[r].pc = "idle"
    /\ h.does \in Careful => MaySend(h, n, m)
    /\ rq' = [rq EXCEPT ![r] = [Idle EXCEPT !.pc = "find", !.h = h, !.n = n, !.m = m]]
    /\ UNCHANGED <<pool, fidVars, granted>>

----------------------------------------------------------------------------
(* The pool *)

At(r, l) == rq[r].pc = l /\ rq[r].zero = None

\* np_fid_create: the fid that has the number already, or a new one.
np_fid_create(n, x) ==
    IF pool[n] # None
    THEN x = pool[n] /\ UNCHANGED <<pool, fidVars>>
    ELSE /\ x \in Mem \ live
         /\ pool' = [pool EXCEPT ![n] = x]
         /\ live' = live \cup {x}
         /\ refs' = [refs EXCEPT ![x] = 0]
         /\ type' = [type EXCEPT ![x] = {}]
         /\ omode' = [omode EXCEPT ![x] = "closed"]
         /\ user' = [user EXCEPT ![x] = FALSE]

np_fid_incref(f) == refs' = [refs EXCEPT ![f] = @ + 1]

\* np_fid_decref lets go of the fid's lock before it destroys the fid: the
\* request that reached zero has that still to do.
np_fid_decref(f) ==
    refs' = IF f = None THEN refs ELSE [refs EXCEPT ![f] = @ - 1]
Zero(f) == IF f # None /\ refs[f] = 1 THEN f ELSE None

\* np_fid_destroy: out of the pool, and freed.  Freed memory holds what it
\* held at the start; NoDangling says that nobody reads it.
np_fid_destroy(r) ==
    LET f == rq[r].zero IN
    /\ f # None
    /\ pool' = [n \in Nums |-> IF pool[n] = f THEN None ELSE pool[n]]
    /\ live' = live \ {f}
    /\ refs' = [refs EXCEPT ![f] = 0]
    /\ type' = [type EXCEPT ![f] = {}]
    /\ omode' = [omode EXCEPT ![f] = "closed"]
    /\ user' = [user EXCEPT ![f] = FALSE]
    /\ rq' = [rq EXCEPT ![r].zero = None]
    /\ UNCHANGED granted

----------------------------------------------------------------------------
(* A handler, step by step *)

\* The fid passes the handler's check.  An afid and an attribute are read and
\* written whatever their omode.
Passes(c, f) ==
    CASE c = "closed" -> omode[f] = "closed"
      [] c = "dir" -> "dir" \in type[f]
      [] c = "noxattr" -> "xattr" \notin type[f]
      [] c = "readable" -> type[f] \cap {"auth", "xattr"} # {} \/ omode[f] = "read"
      [] c = "opened" -> omode[f] = "read"
      [] c = "writable" -> \/ type[f] \cap {"auth", "xattr"} # {}
                           \/ omode[f] = "write" /\ "dir" \notin type[f]

\* np_fid_find for the first fid.  np_auth gives up the fid it finds.
Find(r) ==
    LET f == pool[rq[r].n]
        h == rq[r].h IN
    /\ At(r, "find")
    /\ rq' = [rq EXCEPT ![r].f = IF h.first = "old" THEN f ELSE None,
                        ![r].g = IF h.does = "auth" THEN f ELSE None,
                        ![r].pc = IF h.first = "old"
                                  THEN IF f = None THEN "respond" ELSE "hold"
                                  ELSE IF f = None THEN "create"
                                  ELSE IF h.does = "auth" THEN "done" ELSE "respond"]
    /\ UNCHANGED <<pool, fidVars, granted>>

Create(r) ==
    /\ At(r, "create")
    /\ \E x \in Mem : /\ np_fid_create(rq[r].n, x)
                      /\ rq' = [rq EXCEPT ![r].f = x, ![r].pc = "hold"]
    /\ UNCHANGED granted

\* Mutant: the request takes no reference on the fid it found.
Hold_noref(r) ==
    LET f == rq[r].f
        h == rq[r].h
        pass == \A c \in h.check : Passes(c, f) IN
    /\ At(r, "hold")
    /\ rq' = [rq EXCEPT ![r].rf = IF h.sets = "found" \/ (h.sets = "checked" /\ pass)
                                  THEN f ELSE None,
                        ![r].pc = IF ~pass THEN "respond"
                                  ELSE IF h.second = "none" THEN "op" ELSE "find2"]
    /\ UNCHANGED <<pool, fidVars, granted>>

\* The reference of the request, and the handler's checks.
Hold(r) ==
    LET f == rq[r].f
        h == rq[r].h
        pass == \A c \in h.check : Passes(c, f) IN
    /\ At(r, "hold")
    /\ np_fid_incref(f)
    /\ rq' = [rq EXCEPT ![r].rf = IF h.sets = "found" \/ (h.sets = "checked" /\ pass)
                                  THEN f ELSE None,
                        ![r].pc = IF ~pass THEN "respond"
                                  ELSE IF h.second = "none" THEN "op" ELSE "find2"]
    /\ UNCHANGED <<pool, live, type, omode, user, granted>>

\* np_fid_find for the second fid.  np_walk gives up the newfid it finds in
\* use, np_attach the fid it finds that is no afid.
Find2(r) ==
    LET g == IF rq[r].m = None THEN None ELSE pool[rq[r].m]
        s == rq[r].h.second
        self == rq[r].h.does = "walk" /\ rq[r].m = rq[r].n IN
    /\ At(r, "find2")
    /\ rq' = [rq EXCEPT
          ![r].g = IF self THEN rq[r].f ELSE g,
          ![r].pc = IF self THEN "hold2"
                    ELSE IF s = "new"
                    THEN IF g = None THEN "create2"
                         ELSE IF rq[r].h.does = "walk" THEN "done" ELSE "respond"
                    ELSE IF s = "afid" /\ rq[r].m = None THEN "op"
                    ELSE IF g = None THEN "respond"
                    ELSE IF s = "afid" /\ "auth" \notin type[g] THEN "done" ELSE "hold2"]
    /\ UNCHANGED <<pool, fidVars, granted>>

Create2(r) ==
    /\ At(r, "create2")
    /\ \E x \in Mem : /\ np_fid_create(rq[r].m, x)
                      /\ rq' = [rq EXCEPT ![r].g = x, ![r].pc = "clone"]
    /\ UNCHANGED granted

\* np_walk: srv->clone, and newfid takes the user and the type of fid.
\* np_xattrwalk: newfid takes the user.
Clone(r) ==
    LET g == rq[r].g
        walk == rq[r].h.does = "walk" IN
    /\ At(r, "clone")
    /\ \E fails \in CloneFails :
         IF walk /\ fails
         THEN /\ rq' = [rq EXCEPT ![r].pc = "done"]
              /\ UNCHANGED <<user, type>>
         ELSE /\ rq' = [rq EXCEPT ![r].pc = "hold2"]
              /\ user' = [user EXCEPT ![g] = user[rq[r].f]]
              /\ type' = IF walk THEN [type EXCEPT ![g] = type[rq[r].f]] ELSE type
    /\ UNCHANGED <<pool, live, refs, omode, granted>>

\* The reference on the second fid, and the checks on it.
Hold2(r) ==
    LET g == rq[r].g
        h == rq[r].h IN
    /\ At(r, "hold2")
    /\ np_fid_incref(g)
    /\ rq' = [rq EXCEPT ![r].rf = rq[r].f,
                        ![r].pc = IF \A c \in h.check2 : Passes(c, g)
                                  THEN "op" ELSE "done"]
    /\ UNCHANGED <<pool, live, type, omode, user, granted>>

\* Where a handler goes on from its operation.
AfterOp(r) == IF rq[r].h.second = "none" THEN "respond" ELSE "done"

\* The operation of the file server changes no fid, whatever its outcome, or
\* fails; or np_open refuses to open a directory for writing.
OpPlain(r) ==
    /\ At(r, "op")
    /\ rq[r].h.does = "open" => rq[r].h = np_open /\ "dir" \in type[rq[r].f]
    /\ rq' = [rq EXCEPT ![r].g = IF rq[r].h.does = "auth" THEN rq[r].f ELSE @,
                        ![r].pc = IF rq[r].h.does = "auth" THEN "done" ELSE AfterOp(r)]
    /\ UNCHANGED <<pool, fidVars, granted>>

\* srv->open, srv->lopen: omode is set whether they succeed or not.
OpOpen(r) ==
    LET f == rq[r].f IN
    /\ At(r, "op")
    /\ rq[r].h.does = "open"
    /\ \E mode \in {"read", "write"} :
         /\ "dir" \in type[f] /\ rq[r].h = np_open => mode = "read"
         /\ omode' = [omode EXCEPT ![f] = mode]
         /\ rq' = [rq EXCEPT ![r].pc = "respond"]
    /\ UNCHANGED <<pool, live, refs, type, user, granted>>

\* A successful srv->create or srv->lcreate turns the fid into the file.
OpCreate(r) ==
    LET f == rq[r].f IN
    /\ At(r, "op")
    /\ rq[r].h.does = "create"
    /\ \E mode \in {"read", "write"}, t \in {{"dir"}, {}} :
         /\ omode' = [omode EXCEPT ![f] = mode]
         /\ type' = [type EXCEPT ![f] = t]
    /\ rq' = [rq EXCEPT ![r].pc = "respond"]
    /\ UNCHANGED <<pool, live, refs, user, granted>>

OpXattrcreate(r) ==
    /\ At(r, "op")
    /\ rq[r].h.does = "xattrcreate"
    /\ type' = [type EXCEPT ![rq[r].f] = @ \cup {"xattr"}]
    /\ rq' = [rq EXCEPT ![r].pc = "respond"]
    /\ UNCHANGED <<pool, live, refs, omode, user, granted>>

\* Rclunk, Rremove: the pool's reference is given up.  Not for an afid.  (A
\* Tclunk of a file open with Orclose removes it; np_clunk looks at the type of
\* the reply even when a failed remove returns none, where the server stops.
\* Here that is a refusal.)
OpClunk(r) ==
    LET f == IF rq[r].h.does = "clunk" /\ "auth" \in type[rq[r].f]
             THEN None ELSE rq[r].f IN
    /\ At(r, "op")
    /\ rq[r].h.does \in {"clunk", "remove"}
    /\ np_fid_decref(f)
    /\ rq' = [rq EXCEPT ![r].ok = TRUE, ![r].pc = "respond", ![r].zero = Zero(f)]
    /\ UNCHANGED <<pool, live, type, omode, user, granted>>

\* A walk that takes the pool's reference when takes is TRUE, and sets the type
\* of the fids in changed.
WalkWith(r, takes(_), changed) ==
    LET g == rq[r].g
        self == rq[r].m = rq[r].n IN
    /\ At(r, "op")
    /\ rq[r].h.does = "walk"
    /\ \E full \in BOOLEAN, t \in {type[g], {"dir"}, {}} :
         /\ type' = [x \in Mem |-> IF x \in changed THEN t ELSE type[x]]
         /\ IF takes(full) /\ ~self THEN np_fid_incref(g) ELSE UNCHANGED refs
         /\ rq' = [rq EXCEPT ![r].ok = full, ![r].pc = "done"]
    /\ UNCHANGED <<pool, live, omode, user, granted>>

\* Mutants: the pool's reference is never taken, or taken by a short walk
\* too, or the walk sets the type of the fid it starts from.
OpWalk_noref(r) == WalkWith(r, LAMBDA full : FALSE, {rq[r].g})
OpWalk_short(r) == WalkWith(r, LAMBDA full : TRUE, {rq[r].g})
OpWalk_settype(r) == WalkWith(r, LAMBDA full : full, {rq[r].f, rq[r].g})

\* The walk: full when it reached every name, otherwise short.  The pool's
\* reference on newfid is taken only when it is full.
OpWalk(r) == WalkWith(r, LAMBDA full : full, {rq[r].g})

\* srv->xattrwalk takes the pool's reference itself.
OpXattrwalk(r) ==
    LET g == rq[r].g IN
    /\ At(r, "op")
    /\ rq[r].h.does = "xattrwalk"
    /\ np_fid_incref(g)
    /\ type' = [type EXCEPT ![g] = {"xattr"}]
    /\ rq' = [rq EXCEPT ![r].ok = TRUE, ![r].pc = "done"]
    /\ UNCHANGED <<pool, live, omode, user, granted>>

\* np_attach: the user is found; srv->attach takes the pool's reference.
OpAttach(r) ==
    LET f == rq[r].f IN
    /\ At(r, "op")
    /\ rq[r].h.does = "attach"
    /\ np_fid_incref(f)
    /\ user' = [user EXCEPT ![f] = TRUE]
    /\ type' = [type EXCEPT ![f] = {"dir"}]
    /\ rq' = [rq EXCEPT ![r].ok = TRUE, ![r].pc = "done"]
    /\ UNCHANGED <<pool, live, omode, granted>>

\* np_auth keeps the reference it took as the pool's.
OpAuth(r) ==
    LET f == rq[r].f IN
    /\ At(r, "op")
    /\ rq[r].h.does = "auth"
    /\ user' = [user EXCEPT ![f] = TRUE]
    /\ type' = [type EXCEPT ![f] = {"auth"}]
    /\ rq' = [rq EXCEPT ![r].ok = TRUE, ![r].pc = "respond"]
    /\ UNCHANGED <<pool, live, refs, omode, granted>>

\* done: the handler gives up the second fid.
Done(r) ==
    /\ At(r, "done")
    /\ np_fid_decref(rq[r].g)
    /\ rq' = [rq EXCEPT ![r].pc = "respond", ![r].zero = Zero(rq[r].g)]
    /\ UNCHANGED <<pool, live, type, omode, user, granted>>

\* The numbers the client holds after the answer to r.
GrantedAfter(r) ==
    LET q == rq[r] IN
    IF ~q.ok THEN granted
    ELSE IF q.h.first = "new" THEN granted \cup {q.n}
    ELSE IF q.h.second = "new" THEN granted \cup {q.m}
    ELSE IF q.h.does \in {"clunk", "remove"} THEN granted \ {q.n}
    ELSE granted

\* Mutant: the answer is written before req->fid is given up.
Respond_replyfirst(r) ==
    /\ At(r, "respond")
    /\ np_fid_decref(rq[r].rf)
    /\ granted' = GrantedAfter(r)
    /\ rq' = [rq EXCEPT ![r] = [Idle EXCEPT !.pc = "reply", !.zero = Zero(rq[r].rf)]]
    /\ UNCHANGED <<pool, live, type, omode, user>>

\* np_respond gives up req->fid ...
Respond(r) ==
    /\ At(r, "respond")
    /\ np_fid_decref(rq[r].rf)
    /\ rq' = [rq EXCEPT ![r].pc = "reply", ![r].zero = Zero(rq[r].rf),
                        ![r].f = None, ![r].g = None, ![r].rf = None]
    /\ UNCHANGED <<pool, live, type, omode, user, granted>>

\* ... and writes the answer.
Reply(r) ==
    /\ At(r, "reply")
    /\ granted' = GrantedAfter(r)
    /\ rq' = [rq EXCEPT ![r] = Idle]
    /\ UNCHANGED <<pool, fidVars>>

Op(r) ==
    \/ OpPlain(r)
    \/ OpOpen(r)
    \/ OpCreate(r)
    \/ OpXattrcreate(r)
    \/ OpClunk(r)
    \/ OpWalk(r)
    \/ OpXattrwalk(r)
    \/ OpAttach(r)
    \/ OpAuth(r)

Serve(r) ==
    \/ Find(r)
    \/ Create(r)
    \/ Hold(r)
    \/ Find2(r)
    \/ Create2(r)
    \/ Clone(r)
    \/ Hold2(r)
    \/ Op(r)
    \/ Done(r)
    \/ np_fid_destroy(r)
    \/ Respond(r)
    \/ Reply(r)

Next ==
    \E r \in Reqs :
      \/ \E h \in Handlers, n \in Nums : \E m \in SecondNums(h) : Send(r, h, n, m)
      \/ Serve(r)

Spec == Init /\ [][Next]_vars

----------------------------------------------------------------------------
(* Properties *)

\* The fids a handler or np_respond is still going to use.
Uses(r) ==
    LET q == rq[r] IN
    {q.rf, q.zero}
      \cup (IF q.pc \in {"hold", "find2", "create2", "clone", "hold2", "op"}
            THEN {q.f} ELSE {})
      \cup (IF q.pc \in {"clone", "hold2", "op", "done"} THEN {q.g} ELSE {})

(***************************************************************************)
(* No handler and no np_respond is left with a fid that has been freed,    *)
(* though np_fid_find hands it out without a reference and a handler may   *)
(* run while another gives the fid up.                                     *)
(***************************************************************************)
NoDangling == \A r \in Busy : Uses(r) \ {None} \subseteq live

(***************************************************************************)
(* A fid the client holds is in the pool, constructed, with the reference  *)
(* the pool keeps on it.                                                   *)
(***************************************************************************)
GrantedKept ==
    \A n \in granted :
      \/ \E r \in Busy : rq[r].n = n /\ rq[r].h.does \in {"clunk", "remove"}
      \/ pool[n] # None /\ refs[pool[n]] > 0 /\ user[pool[n]]

(***************************************************************************)
(* When no request is in progress the pool holds the client's fids and     *)
(* nothing else, each with one reference: no request that failed, stopped  *)
(* short or gave a fid up has left a number behind that the next Twalk     *)
(* would find in use.                                                      *)
(***************************************************************************)
NoCorpse ==
    Busy = {} => \A n \in Nums : /\ pool[n] # None <=> n \in granted
                                 /\ pool[n] # None => refs[pool[n]] = 1

(***************************************************************************)
(* When the operation of the file server runs, what the handler checked of *)
(* its fids before is still so.                                            *)
(***************************************************************************)
ChecksHold ==
    \A r \in Reqs : At(r, "op") =>
      /\ \A c \in rq[r].h.check : Passes(c, rq[r].f)
      /\ \A c \in rq[r].h.check2 : Passes(c, rq[r].g)

(***************************************************************************)
(* A client that holds a fid finds it in the pool, whatever else it sends. *)
(***************************************************************************)
PoolKeepsGranted ==
    Busy = {} => \A n \in granted : pool[n] # None
============================================================================
