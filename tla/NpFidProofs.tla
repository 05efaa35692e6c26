---------------------------- MODULE NpFidProofs ----------------------------
(***************************************************************************)
(* Theorems about NpFid for a client that keeps its fids apart: whatever   *)
(* the number of requests in progress, no handler is left with a freed     *)
(* fid, a fid the client holds is kept, nothing else stays in the pool,    *)
(* and what a handler has checked is still so when the operation runs.     *)
(*                                                                         *)
(* The argument: a number that a request creates, changes or gives up is   *)
(* its own (OwnInv), every pointer a handler has is what the pool has      *)
(* under a number the message names (ShapeInv), and so all that others do  *)
(* leaves what a request knows of its fids alone.  A count is the number   *)
(* of references the requests have and the pool's one (CountInv); that it  *)
(* comes to zero only where a fid is to go, and then surely, is ownership  *)
(* again.                                                                  *)
(***************************************************************************)
EXTENDS NpFid, FiniteSetTheorems, TLAPS

(* The invariant *)

\* The numbers a request is to create, and those nobody else may name.
Makes(q) == (IF q.h.first = "new" THEN {q.n} ELSE {})
            \cup (IF q.h.second = "new" /\ q.m # q.n THEN {q.m} ELSE {})
Owns(q) == Makes(q) \cup (IF Changes(q.h, q.n, q.m) THEN {q.n} ELSE {})

\* The numbers the answer will give to the client or take from it.
Gives(q) == IF ~q.ok THEN {}
            ELSE IF q.h.first = "new" THEN {q.n}
            ELSE IF q.h.second = "new" THEN {q.m} ELSE {}
Takes(q) == IF q.ok /\ q.h.does \in {"clunk", "remove"} THEN {q.n} ELSE {}

\* What the numbers of a message are to the client.
NumInv(q) ==
    /\ q.n \in Nums
    /\ q.h.second = "none" => q.m = None
    /\ q.h.second \in {"old", "new"} => q.m \in Nums
    /\ q.h.first = "new" <=> q.n \notin granted
    /\ q.h.second = "old" => q.m \in granted
    /\ q.h.second = "new" /\ q.m # q.n => q.m \notin granted
    /\ q.h.second = "afid" /\ q.m # None => q.m \in granted

\* A handler's pointers are those the pool has under its numbers, and req->fid
\* is set when it has its reference.
FirstInv(q) ==
    /\ q.pc \in {"find", "create", "hold"} => q.g = None /\ q.rf = None
    /\ q.pc \in {"find", "create"} => q.f = None
    /\ q.pc = "create" => q.h.first = "new"
    /\ q.pc \in {"hold", "find2", "create2", "clone", "hold2", "op", "done"} =>
         q.f = pool[q.n] /\ q.f # None
    /\ q.pc \in {"find2", "create2", "clone", "hold2"} =>
         q.rf = IF q.h.sets = "second" THEN None ELSE q.f
    /\ q.pc \in {"op", "done"} => q.rf = IF q.h.does = "auth" THEN None ELSE q.f
    /\ q.pc = "respond" => q.rf = IF q.h.does = "auth" THEN None ELSE pool[q.n]
    /\ q.pc = "reply" => q.rf = None
SecondInv(q) ==
    /\ q.pc \in {"find2", "create2"} => q.g = None
    /\ q.pc \in {"find2", "create2", "clone", "hold2"} => q.h.second # "none"
    /\ q.pc \in {"create2", "clone"} => q.h.second = "new" /\ q.m # q.n
    /\ q.pc \in {"clone", "hold2"} => q.m # None
    /\ q.pc \in {"clone", "hold2", "op", "done"} /\ q.m # None =>
         q.g = pool[q.m] /\ q.g # None
    /\ q.pc \in {"hold2", "op", "done"} /\ q.h.does = "xattrwalk" => q.m # q.n
    /\ q.pc \in {"op", "done"} /\ q.h.second # "none" /\ q.m = None => q.g = None
    /\ q.pc = "op" /\ q.h.second = "none" => q.g = None
    /\ q.pc = "done" /\ q.h.second = "none" => q.h.does = "auth" /\ q.g = q.f
AnswerInv(q) ==
    /\ q.ok => /\ q.pc \in {"done", "respond", "reply"}
               /\ \/ q.h.second \in {"new", "afid"}
                  \/ q.h.does \in {"auth", "clunk", "remove"} /\ q.pc # "done"
               /\ q.h.does = "xattrwalk" => q.m # q.n
    /\ q.zero # None =>
         \/ /\ q.pc = "respond" /\ ~q.ok
            /\ \/ q.h.does = "auth" /\ q.zero = pool[q.n]
               \/ q.h.second = "new" /\ q.m # q.n /\ q.zero = pool[q.m]
         \/ /\ q.pc = "reply" /\ q.zero = pool[q.n]
            /\ \/ q.h.does = "attach" /\ ~q.ok
               \/ q.h.does \in {"clunk", "remove"} /\ q.ok

\* Whether the pool has a fid under the numbers.
PoolHas(q) ==
    /\ q.h.first = "new" =>
         (pool[q.n] # None <=>
            \/ q.pc \notin {"find", "create", "respond", "reply"}
            \/ q.pc = "respond" /\ q.h.does = "attach"
            \/ q.pc \in {"respond", "reply"} /\ (q.ok \/ q.zero # None))
    /\ q.h.first = "old" =>
         (pool[q.n] = None <=> q.pc = "reply" /\ q.zero = None /\ Takes(q) # {})
    /\ q.h.second = "new" /\ q.m # q.n =>
         (pool[q.m] # None <=>
            \/ q.pc \in {"clone", "hold2", "op", "done"}
            \/ q.pc \in {"respond", "reply"} /\ (q.ok \/ q.zero # None))
    /\ q.h.second \in {"old", "afid"} /\ q.m # None => pool[q.m] # None

\* What the client has seen to ...
ToldInv(q) ==
    /\ q.h.sets = "checked" /\ q.pc \in {"find", "hold"} =>
         "dir" \in type[pool[q.n]] /\ omode[pool[q.n]] = "closed"
    /\ q.h.second = "afid" /\ q.m # None /\ q.pc \in {"find", "create", "hold", "find2"} =>
         "auth" \in type[pool[q.m]]
    /\ q.h.does \in {"clunk", "remove"} /\ q.pc \in {"find", "hold", "op"} =>
         "auth" \notin type[pool[q.n]]

\* ... what the handler has checked, and which fids have their user.
CheckedInv(q) ==
    /\ q.pc \in {"find2", "create2", "clone", "hold2", "op"} =>
         \A c \in q.h.check : Passes(c, pool[q.n])
    /\ q.pc = "op" => \A c \in q.h.check2 : Passes(c, pool[q.m])
UserInv(q) ==
    /\ q.h.second = "new" /\ q.pc \in {"hold2", "op"} => user[pool[q.m]]
    /\ \A k \in Gives(q) : user[pool[k]]

ShapeInv(q) == FirstInv(q) /\ SecondInv(q) /\ AnswerInv(q) /\ PoolHas(q)
SeenInv(q) == ToldInv(q) /\ CheckedInv(q) /\ UserInv(q)
ReqInv(q) == q.pc # "idle" => NumInv(q) /\ ShapeInv(q) /\ SeenInv(q)

IdleInv == \A r \in Reqs : rq[r].pc = "idle" => rq[r] = Idle

OwnInv ==
    \A r, s \in Busy : r # s => Owns(rq[r]) \cap {rq[s].n, rq[s].m} = {}

\* A fid has one number, and is there for the client or for its maker.
PoolInv ==
    /\ \A n, k \in Nums : pool[n] # None /\ pool[n] = pool[k] => n = k
    /\ live = {pool[n] : n \in Nums} \ {None}
    /\ \A n \in Nums : pool[n] # None => n \in granted \/ \E r \in Busy : n \in Makes(rq[r])

\* A fid the client holds is there, until its clunk is all but answered.
GrantedInv ==
    \A n \in granted :
      /\ pool[n] = None => \E r \in Busy : n \in Takes(rq[r])
      /\ pool[n] # None => user[pool[n]]

\* The two references a request may have, and all on fid x.
Claim(q, i) ==
    IF i = 1
    THEN IF q.pc \in {"find2", "create2", "clone", "hold2", "op"} THEN q.f
         ELSE IF q.pc \in {"done", "respond"} THEN q.rf ELSE None
    ELSE IF q.pc \in {"op", "done"} THEN q.g ELSE None
Held(x) == {t \in Reqs \X {1, 2} : Claim(rq[t[1]], t[2]) = x}

\* The pool has a reference on the fid under n.
Kept(n) == \/ n \in granted /\ \A r \in Reqs : n \notin Takes(rq[r])
           \/ \E r \in Reqs : n \in Gives(rq[r])

One(b) == IF b THEN 1 ELSE 0
CountInv ==
    \A n \in Nums : pool[n] # None =>
      refs[pool[n]] = One(Kept(n)) + Cardinality(Held(pool[n]))

FidInv ==
    /\ TypeOK /\ IdleInv /\ OwnInv /\ PoolInv /\ GrantedInv /\ CountInv
    /\ \A r \in Reqs : ReqInv(rq[r])

----------------------------------------------------------------------------
(* The handlers *)

Checks == {"closed", "dir", "noxattr", "readable", "opened", "writable"}

\* What the records have in common.
LEMMA HandlerFacts ==
    ASSUME NEW h \in Handlers
    PROVE  /\ h.first \in {"old", "new"}
           /\ h.second \in {"none", "old", "new", "afid"}
           /\ h.sets \in {"found", "checked", "second", "never"}
           /\ h.does \in Operations
           /\ h.first = "new" <=> h.does \in {"attach", "auth"}
           /\ h.second = "new" <=> h.does \in {"walk", "xattrwalk"}
           /\ h.second = "afid" <=> h.does = "attach"
           /\ h.second = "old" => h.does = "nothing"
           /\ h.sets = "never" <=> h.does = "auth"
           /\ h.sets = "second" => h.second = "old" /\ h.check = {}
           /\ h.sets = "checked" =>
                /\ h = np_unlinkat /\ h.second = "none" /\ h.does = "nothing"
                /\ h.check = {"closed", "dir"}
           /\ h.first = "new" => h.check = {}
           /\ h.second # "old" => h.check2 = {}
           /\ h = np_open => h.does = "open"
           /\ h.check \subseteq Checks /\ h.check2 \subseteq Checks
<1>. USE DEF Handler, Operations, Checks
<1>1. CASE h \in {np_stat, np_wstat, np_statfs, np_readlink, np_getattr, np_setattr,
                  np_fsync, np_flock, np_getlock, np_read, np_write, np_readdir}
  BY <1>1 DEF np_stat, np_wstat, np_statfs, np_readlink, np_getattr, np_setattr,
              np_fsync, np_flock, np_getlock, np_read, np_write, np_readdir,
              np_unlinkat, np_open
<1>2. CASE h \in {np_symlink, np_mknod, np_mkdir, np_unlinkat, np_rename, np_renameat, np_link}
  BY <1>2 DEF np_symlink, np_mknod, np_mkdir, np_unlinkat, np_rename, np_renameat,
              np_link, np_open
<1>3. CASE h \in {np_open, np_lopen, np_create, np_lcreate, np_xattrcreate, np_clunk, np_remove}
  BY <1>3 DEF np_open, np_lopen, np_create, np_lcreate, np_xattrcreate, np_clunk,
              np_remove, np_unlinkat
<1>4. CASE h \in {np_walk, np_xattrwalk, np_attach, np_auth}
  BY <1>4 DEF np_walk, np_xattrwalk, np_attach, np_auth, np_unlinkat, np_open
<1>. QED  BY <1>1, <1>2, <1>3, <1>4 DEF Handlers

----------------------------------------------------------------------------
(* What a step of one request leaves to the others *)

\* The step changes nothing of number k and the fid under it, but its count.
Same(k) ==
    /\ pool'[k] = pool[k]
    /\ pool[k] # None => /\ type'[pool[k]] = type[pool[k]]
                         /\ omode'[pool[k]] = omode[pool[k]]
                         /\ user'[pool[k]] = user[pool[k]]
    /\ k \in granted' <=> k \in granted

Alone(r) ==
    /\ \A s \in Reqs \ {r} : rq'[s] = rq[s]
    /\ \A k \in Nums \ Owns(rq[r]) : Same(k)

\* A step in the course of a request.
Mid(r) ==
    /\ Alone(r)
    /\ rq[r].pc # "idle" /\ rq'[r].pc # "idle"
    /\ rq'[r].h = rq[r].h /\ rq'[r].n = rq[r].n /\ rq'[r].m = rq[r].m
    /\ granted' = granted

\* A request keeps what it knows if its numbers are left alone ...
LEMMA ReqStays ==
    ASSUME FidInv, TypeOK', NEW s \in Reqs, rq'[s] = rq[s],
           rq[s].pc # "idle" => \A k \in Nums : k \in {rq[s].n, rq[s].m} => Same(k)
    PROVE  ReqInv(rq[s])'
<1>. SUFFICES ASSUME rq[s].pc # "idle" PROVE ReqInv(rq[s])'
  BY DEF ReqInv
<1>1. rq'[s] = rq[s] /\ NumInv(rq[s]) /\ ShapeInv(rq[s]) /\ SeenInv(rq[s])
  BY DEF FidInv, ReqInv
<1>2. \A k \in Nums : k \in {rq[s].n, rq[s].m} => Same(k)
  OBVIOUS
<1>3. Same(rq[s].n) /\ (rq[s].m \in Nums => Same(rq[s].m))
  BY <1>1, <1>2 DEF NumInv
<1>4. rq[s].h \in Handlers /\ rq[s].m \in Nums \cup {None}
  BY DEF FidInv, TypeOK, Request
<1>5. NumInv(rq[s])'
  BY <1>1, <1>3, <1>4 DEF NumInv, Same
<1>6. FirstInv(rq[s])' /\ SecondInv(rq[s])'
  BY <1>1, <1>3, <1>4 DEF ShapeInv, FirstInv, SecondInv, NumInv, Same
<1>7. AnswerInv(rq[s])'
  BY <1>1, <1>3, <1>4 DEF ShapeInv, AnswerInv, NumInv, Same
<1>8. PoolHas(rq[s])'
  BY <1>1, <1>3, <1>4, HandlerFacts DEF ShapeInv, PoolHas, NumInv, Same, Takes
<1>9. SeenInv(rq[s])'
  <2>. USE DEF Checks
  <2>1. pool[rq[s].n] # None =>
          \A c \in Checks : Passes(c, pool[rq[s].n])' <=> Passes(c, pool[rq[s].n])
    BY <1>1, <1>3 DEF Same, Passes
  <2>2. rq[s].m \in Nums /\ pool[rq[s].m] # None =>
          \A c \in Checks : Passes(c, pool[rq[s].m])' <=> Passes(c, pool[rq[s].m])
    BY <1>1, <1>3 DEF Same, Passes
  <2>3. rq[s].pc \notin {"respond", "reply"} /\ (rq[s].h.first = "old" \/ rq[s].pc \notin {"find", "create"}) =>
          pool[rq[s].n] # None
    BY <1>1, <1>4, HandlerFacts DEF ShapeInv, PoolHas
  <2>4. ToldInv(rq[s])'
    BY <1>1, <1>3, <1>4, <2>3, HandlerFacts DEF SeenInv, ToldInv, ShapeInv, FirstInv, PoolHas, NumInv, Same
  <2>5. CheckedInv(rq[s])'
    <3>1. rq[s].pc = "op" => rq[s].h.check2 = {} \/ (rq[s].m \in Nums /\ pool[rq[s].m] # None)
      BY <1>1, <1>4, HandlerFacts, NpFidAssumption DEF ShapeInv, SecondInv, NumInv
    <3>. QED  BY <1>1, <1>4, <2>1, <2>2, <2>3, <3>1, HandlerFacts DEF SeenInv, CheckedInv
  <2>6. UserInv(rq[s])'
    <3>1. \A k \in Gives(rq[s]) : k \in {rq[s].n, rq[s].m} /\ k \in Nums /\ pool[k] # None
      BY <1>1, <1>4, HandlerFacts DEF ShapeInv, PoolHas, NumInv, Gives, AnswerInv, Takes
    <3>2. Gives(rq[s])' = Gives(rq[s])
      BY <1>1 DEF Gives
    <3>3. \A k \in Gives(rq[s]) : user'[pool'[k]]
      BY <1>1, <1>2, <3>1 DEF SeenInv, UserInv, Same
    <3>4. rq[s].h.second = "new" /\ rq[s].pc \in {"hold2", "op"} => user'[pool'[rq[s].m]]
      BY <1>1, <1>3, NpFidAssumption DEF SeenInv, UserInv, ShapeInv, SecondInv, NumInv, Same
    <3>. QED  BY <1>1, <3>2, <3>3, <3>4 DEF UserInv
  <2>. QED  BY <2>4, <2>5, <2>6 DEF SeenInv
<1>. QED  BY <1>5, <1>6, <1>7, <1>8, <1>9 DEF ReqInv, ShapeInv

\* ... as they are by the steps of others.
LEMMA OthersKeep ==
    ASSUME FidInv, TypeOK', NEW r \in Reqs, rq[r].pc # "idle", Alone(r),
           NEW s \in Reqs \ {r}
    PROVE  ReqInv(rq[s])'
<1>1. rq'[s] = rq[s]
  BY DEF Alone
<1>2. rq[s].pc # "idle" => \A k \in Nums : k \in {rq[s].n, rq[s].m} => Same(k)
  BY DEF FidInv, OwnInv, Busy, Alone
<1>. QED  BY <1>1, <1>2, ReqStays

\* A step in the course of a request leaves the numbers whose they are.
LEMMA MidKeeps ==
    ASSUME FidInv, TypeOK', NEW r \in Reqs, Mid(r)
    PROVE  /\ OwnInv' /\ IdleInv' /\ NumInv(rq[r])'
           /\ \A s \in Reqs \ {r} : ReqInv(rq[s])'
           /\ Busy' = Busy
           /\ \A s \in Reqs : Makes(rq[s])' = Makes(rq[s])
<1>1. \A s \in Reqs : /\ rq'[s].h = rq[s].h /\ rq'[s].n = rq[s].n /\ rq'[s].m = rq[s].m
                      /\ rq'[s].pc = "idle" <=> rq[s].pc = "idle"
  BY DEF Mid, Alone
<1>2. Busy' = Busy
  BY <1>1 DEF Busy
<1>3. \A s \in Reqs : /\ Makes(rq[s])' = Makes(rq[s])
                      /\ Owns(rq[s])' = Owns(rq[s])
  BY <1>1 DEF Makes, Owns, Changes
<1>4. OwnInv'
  BY <1>1, <1>2, <1>3 DEF FidInv, OwnInv, Busy
<1>5. IdleInv'
  BY DEF FidInv, IdleInv, Mid, Alone
<1>6. NumInv(rq[r])'
  BY <1>1 DEF Mid, FidInv, ReqInv, NumInv
<1>7. \A s \in Reqs \ {r} : ReqInv(rq[s])'
  BY OthersKeep DEF Mid
<1>. QED  BY <1>2, <1>3, <1>4, <1>5, <1>6, <1>7

\* As long as no fid is made or destroyed.
LEMMA PoolStays ==
    ASSUME FidInv, TypeOK', NEW r \in Reqs, Mid(r), UNCHANGED <<pool, live>>,
           rq[r].ok => rq'[r].ok,
           \A n \in granted : pool[n] # None /\ user[pool[n]] => user'[pool[n]]
    PROVE  PoolInv' /\ GrantedInv'
<1>1. Busy' = Busy /\ \A s \in Reqs : Makes(rq[s])' = Makes(rq[s])
  BY MidKeeps
<1>2. PoolInv'
  BY <1>1 DEF FidInv, PoolInv, Mid, Busy
<1>3. \A s \in Reqs : Takes(rq[s]) \subseteq Takes(rq[s])'
  BY DEF Mid, Alone, Takes
<1>4. GrantedInv'
  BY <1>1, <1>3 DEF FidInv, GrantedInv, Mid, Busy
<1>. QED  BY <1>2, <1>4

----------------------------------------------------------------------------
(* References *)

\* Only finitely many references are out on a fid.
LEMMA HeldFinite == \A x : IsFiniteSet(Held(x)) /\ Cardinality(Held(x)) \in Nat
<1>1. IsFiniteSet({1, 2})
  <2>1. IsFiniteSet({1}) /\ IsFiniteSet({2}) /\ {1, 2} = {1} \cup {2}
    BY FS_Singleton
  <2>2. IsFiniteSet({1} \cup {2})
    BY <2>1, FS_Union
  <2>. QED  BY <2>1, <2>2
<1>2. IsFiniteSet(Reqs \X {1, 2})
  BY <1>1, FS_Product, NpFidAssumption
<1>3. \A x : Held(x) \subseteq Reqs \X {1, 2}
  BY DEF Held
<1>. QED  BY <1>2, <1>3, FS_Subset, FS_CardinalityType

\* What a request has a reference on is under a number it names.
LEMMA ClaimNamed ==
    ASSUME FidInv, NEW s \in Reqs, NEW i \in {1, 2}, Claim(rq[s], i) # None
    PROVE  /\ rq[s].pc # "idle"
           /\ \E k \in Nums : k \in {rq[s].n, rq[s].m} /\ Claim(rq[s], i) = pool[k]
<1>1. rq[s].h \in Handlers /\ rq[s].m \in Nums \cup {None}
  BY DEF FidInv, TypeOK, Request
<1>2. rq[s].pc # "idle" /\ NumInv(rq[s]) /\ ShapeInv(rq[s])
  BY DEF FidInv, ReqInv, Claim
<1>3. CASE i = 1
  BY <1>1, <1>2, <1>3 DEF Claim, NumInv, ShapeInv, FirstInv
<1>4. CASE i = 2
  BY <1>1, <1>2, <1>4, NpFidAssumption DEF Claim, NumInv, ShapeInv, FirstInv, SecondInv
<1>. QED  BY <1>2, <1>3, <1>4

\* On a fid of its own nobody else has one.
LEMMA OwnHeld ==
    ASSUME FidInv, NEW r \in Reqs, rq[r].pc # "idle",
           NEW c \in Nums, c \in Owns(rq[r]), pool[c] # None
    PROVE  \A t \in Held(pool[c]) : t[1] = r
<1>. SUFFICES ASSUME NEW t \in Held(pool[c]), t[1] # r PROVE FALSE
  OBVIOUS
<1>1. PICK s \in Reqs, i \in {1, 2} : t = <<s, i>>
  BY DEF Held
<1>2. Claim(rq[s], i) = pool[c] /\ s # r
  BY <1>1 DEF Held
<1>3. PICK k \in Nums : rq[s].pc # "idle" /\ k \in {rq[s].n, rq[s].m} /\ pool[c] = pool[k]
  BY <1>2, ClaimNamed
<1>4. k = c
  BY <1>3 DEF FidInv, PoolInv
<1>. QED  BY <1>2, <1>3, <1>4 DEF FidInv, OwnInv, Busy

\* A request takes a reference on x: x has one more, other fids what they had.
LEMMA HeldAdd ==
    ASSUME FidInv, NEW r \in Reqs, Mid(r), NEW i \in {1, 2}, NEW x \in Mem,
           Claim(rq[r], i) = None, Claim(rq'[r], i) = x,
           \A j \in {1, 2} \ {i} : Claim(rq'[r], j) = Claim(rq[r], j)
    PROVE  /\ Cardinality(Held(x)') = Cardinality(Held(x)) + 1
           /\ \A y \in Mem \ {x} : Held(y)' = Held(y)
<1>. DEFINE H == Held(x)
            K == Held(x)'
<1>1. x # None
  BY NpFidAssumption
<1>2. K = H \cup {<<r, i>>} /\ <<r, i>> \notin H
  BY <1>1 DEF Held, Mid, Alone
<1>3. \A y \in Mem \ {x} : Held(y)' = Held(y)
  BY NpFidAssumption DEF Held, Mid, Alone
<1>4. IsFiniteSet(H)
  BY HeldFinite
<1>. HIDE DEF H, K
<1>5. Cardinality(K) = Cardinality(H) + 1
  BY <1>2, <1>4, FS_AddElement
<1>. QED  BY <1>3, <1>5 DEF H, K

\* The same for giving one up ...
LEMMA HeldDrop ==
    ASSUME FidInv, NEW r \in Reqs, Mid(r), NEW i \in {1, 2}, NEW x \in Mem,
           Claim(rq[r], i) = x, Claim(rq'[r], i) = None,
           \A j \in {1, 2} \ {i} : Claim(rq'[r], j) = Claim(rq[r], j)
    PROVE  /\ Cardinality(Held(x)) = Cardinality(Held(x)') + 1
           /\ Cardinality(Held(x)') \in Nat
           /\ <<r, i>> \in Held(x) /\ Held(x)' = Held(x) \ {<<r, i>>}
           /\ \A y \in Mem \ {x} : Held(y)' = Held(y)
<1>. DEFINE H == Held(x)
            K == Held(x)'
<1>1. x # None
  BY NpFidAssumption
<1>2. K = H \ {<<r, i>>} /\ <<r, i>> \in H
  BY <1>1 DEF Held, Mid, Alone
<1>3. \A y \in Mem \ {x} : Held(y)' = Held(y)
  BY NpFidAssumption DEF Held, Mid, Alone
<1>4. IsFiniteSet(H)
  BY HeldFinite
<1>. HIDE DEF H, K
<1>5. Cardinality(K) = Cardinality(H) - 1 /\ IsFiniteSet(K)
  BY <1>2, <1>4, FS_RemoveElement
<1>6. Cardinality(K) \in Nat /\ Cardinality(H) \in Nat
  BY <1>4, <1>5, FS_CardinalityType
<1>7. Cardinality(H) = Cardinality(K) + 1
  BY <1>5, <1>6
<1>. QED  BY <1>2, <1>3, <1>6, <1>7 DEF H, K

\* ... and for neither.
LEMMA HeldSame ==
    ASSUME NEW r \in Reqs, Alone(r),
           \A j \in {1, 2} : Claim(rq'[r], j) = Claim(rq[r], j)
    PROVE  \A y : Held(y)' = Held(y)
BY DEF Held, Alone

\* The pool's references are what they were, if the answer is.
LEMMA KeptSame ==
    ASSUME NEW r \in Reqs, Mid(r), rq'[r].ok = rq[r].ok
    PROVE  \A n \in Nums : Kept(n)' <=> Kept(n)
<1>1. \A s \in Reqs : Gives(rq[s])' = Gives(rq[s]) /\ Takes(rq[s])' = Takes(rq[s])
  BY DEF Mid, Alone, Gives, Takes
<1>. QED  BY <1>1 DEF Kept, Mid

\* A step that moves no reference.
LEMMA CountSame ==
    ASSUME FidInv, NEW r \in Reqs, Mid(r), rq'[r].ok = rq[r].ok,
           \A j \in {1, 2} : Claim(rq'[r], j) = Claim(rq[r], j),
           UNCHANGED <<pool, refs>>
    PROVE  CountInv'
<1>1. \A y : Held(y)' = Held(y)
  BY HeldSame DEF Mid
<1>2. \A n \in Nums : Kept(n)' <=> Kept(n)
  BY KeptSame
<1>. QED  BY <1>1, <1>2 DEF FidInv, CountInv, One

----------------------------------------------------------------------------
(* The steps *)

\* What is known of a request in progress.
LEMMA Known ==
    ASSUME FidInv, NEW r \in Reqs, rq[r].pc # "idle"
    PROVE  /\ NumInv(rq[r])
           /\ FirstInv(rq[r]) /\ SecondInv(rq[r]) /\ AnswerInv(rq[r]) /\ PoolHas(rq[r])
           /\ ToldInv(rq[r]) /\ CheckedInv(rq[r]) /\ UserInv(rq[r])
           /\ rq[r] \in Request /\ rq[r].h \in Handlers
           /\ rq[r].n \in Nums /\ rq[r].m \in Nums \cup {None}
           /\ rq[r].f \in Pointers /\ rq[r].g \in Pointers /\ rq[r].rf \in Pointers
           /\ rq[r].zero \in Pointers /\ rq[r].ok \in BOOLEAN
<1>1. rq[r] \in Request
  BY DEF FidInv, TypeOK
<1>2. NumInv(rq[r]) /\ ShapeInv(rq[r]) /\ SeenInv(rq[r])
  BY DEF FidInv, ReqInv
<1>. QED  BY <1>1, <1>2 DEF Request, NumInv, ShapeInv, SeenInv

\* What has to be shown of a step in the course of a request.
LEMMA MidStep ==
    ASSUME FidInv, TypeOK', NEW r \in Reqs, Mid(r),
           FirstInv(rq[r])', SecondInv(rq[r])', AnswerInv(rq[r])', PoolHas(rq[r])',
           ToldInv(rq[r])', CheckedInv(rq[r])', UserInv(rq[r])',
           PoolInv', GrantedInv', CountInv'
    PROVE  FidInv'
<1>1. NumInv(rq[r])' /\ OwnInv' /\ IdleInv' /\ \A s \in Reqs \ {r} : ReqInv(rq[s])'
  BY MidKeeps
<1>2. ReqInv(rq[r])'
  BY <1>1 DEF ReqInv, ShapeInv, SeenInv
<1>3. \A s \in Reqs : ReqInv(rq[s])'
  BY <1>1, <1>2
<1>. QED  BY <1>1, <1>3 DEF FidInv

\* The step changes no field of a fid but its count.
Plain == UNCHANGED <<pool, live, type, omode, user, granted>>

\* Then the checks come out as before.
LEMMA PassesSame ==
    ASSUME Plain, NEW r \in Reqs, rq'[r].n = rq[r].n, rq'[r].m = rq[r].m
    PROVE  \A c \in Checks : /\ Passes(c, pool[rq[r].n])' <=> Passes(c, pool[rq[r].n])
                             /\ Passes(c, pool[rq[r].m])' <=> Passes(c, pool[rq[r].m])
BY DEF Plain, Checks, Passes

\* np_fid_find for the first fid.
LEMMA FindKeeps ==
    ASSUME FidInv, NEW r \in Reqs, Find(r)
    PROVE  FidInv'
<1>1. rq[r].pc = "find" /\ rq[r].zero = None /\ rq[r].pc # "idle"
  BY DEF Find, At
<1>. USE Known
<1>2. rq[r].f = None /\ rq[r].g = None /\ rq[r].rf = None /\ rq[r].ok = FALSE
  BY <1>1 DEF FirstInv, AnswerInv
<1>3. /\ rq[r].h.first = "old" => pool[rq[r].n] # None
      /\ rq[r].h.first = "new" => pool[rq[r].n] = None
      /\ rq[r].h.first \in {"old", "new"}
      /\ rq[r].h.does = "auth" => rq[r].h.first = "new"
      /\ pool[rq[r].n] \in Pointers
  BY <1>1, HandlerFacts DEF PoolHas, FidInv, TypeOK
<1>4. /\ rq'[r].pc = IF rq[r].h.first = "old" THEN "hold" ELSE "create"
      /\ rq'[r].f = IF rq[r].h.first = "old" THEN pool[rq[r].n] ELSE None
      /\ rq'[r].g = None /\ rq'[r].rf = None /\ rq'[r].zero = None /\ rq'[r].ok = FALSE
      /\ rq'[r].h = rq[r].h /\ rq'[r].n = rq[r].n /\ rq'[r].m = rq[r].m
      /\ \A s \in Reqs \ {r} : rq'[s] = rq[s]
  BY <1>1, <1>2, <1>3 DEF Find, FidInv, TypeOK, Request
<1>5. TypeOK'
  BY <1>1, <1>3 DEF Find, FidInv, TypeOK, Request, fidVars, Pcs, Pointers
<1>6. Plain /\ refs' = refs
  BY DEF Plain, Find, fidVars
<1>7. Mid(r)
  BY <1>1, <1>4, <1>6 DEF Mid, Alone, Same, Plain
<1>8. FirstInv(rq[r])' /\ SecondInv(rq[r])' /\ AnswerInv(rq[r])' /\ PoolHas(rq[r])'
  BY <1>1, <1>3, <1>4, <1>6, HandlerFacts DEF Plain, FirstInv, SecondInv, AnswerInv, PoolHas, Takes
<1>9. ToldInv(rq[r])' /\ CheckedInv(rq[r])' /\ UserInv(rq[r])'
  BY <1>1, <1>3, <1>4, <1>6 DEF Plain, ToldInv, CheckedInv, UserInv, Gives
<1>10. PoolInv' /\ GrantedInv'
  BY <1>2, <1>4, <1>5, <1>6, <1>7, PoolStays DEF Plain
<1>11. CountInv'
  <2>1. \A j \in {1, 2} : Claim(rq'[r], j) = Claim(rq[r], j)
    BY <1>1, <1>4 DEF Claim
  <2>. QED  BY <2>1, <1>2, <1>4, <1>6, <1>7, CountSame DEF Plain
<1>. QED  BY <1>5, <1>7, <1>8, <1>9, <1>10, <1>11, MidStep

\* The pool has no reference on a fid that its owner has yet to hand over, or
\* has taken.
LEMMA OwnNotKept ==
    ASSUME FidInv, NEW r \in Reqs, rq[r].pc # "idle",
           NEW c \in Owns(rq[r]), c \notin Gives(rq[r]), c \notin granted \/ c \in Takes(rq[r])
    PROVE  ~Kept(c)
<1>1. \A s \in Reqs : c \notin Gives(rq[s])
  <2>. SUFFICES ASSUME NEW s \in Reqs, c \in Gives(rq[s]) PROVE FALSE
    OBVIOUS
  <2>1. s # r /\ rq[s].ok /\ c \in {rq[s].n, rq[s].m}
    BY DEF Gives
  <2>2. rq[s].pc # "idle"
    BY <2>1 DEF FidInv, IdleInv, Idle
  <2>. QED  BY <2>1, <2>2 DEF FidInv, OwnInv, Busy
<1>. QED  BY <1>1 DEF Kept

\* As with a fid that is being made.
LEMMA NotKept ==
    ASSUME FidInv, NEW r \in Reqs, rq[r].pc # "idle", ~rq[r].ok,
           NEW c \in Makes(rq[r]), c \notin granted
    PROVE  ~Kept(c)
BY OwnNotKept DEF Owns, Gives

\* np_fid_create makes the fid x of number c for request r.
LEMMA Made ==
    ASSUME FidInv, TypeOK', NEW r \in Reqs, Mid(r),
           NEW c \in Nums, c \in Makes(rq[r]), c \notin granted, pool[c] = None,
           NEW x \in Mem \ live, pool' = [pool EXCEPT ![c] = x], live' = live \cup {x},
           refs' = [refs EXCEPT ![x] = 0],
           user' = [user EXCEPT ![x] = FALSE],
           ~rq[r].ok, rq'[r].ok = rq[r].ok,
           \A j \in {1, 2} : Claim(rq'[r], j) = Claim(rq[r], j)
    PROVE  PoolInv' /\ GrantedInv' /\ CountInv'
<1>1. Busy' = Busy /\ (\A s \in Reqs : Makes(rq[s])' = Makes(rq[s])) /\ r \in Busy
  BY MidKeeps DEF Busy, Mid
<1>2. /\ \A k \in Nums : k # c => pool'[k] = pool[k] /\ pool[k] # x
      /\ pool'[c] = x /\ x # None
  BY NpFidAssumption DEF FidInv, TypeOK, PoolInv
<1>3. PoolInv'
  <2>1. \A n, k \in Nums : pool'[n] # None /\ pool'[n] = pool'[k] => n = k
    BY <1>2 DEF FidInv, PoolInv
  <2>2. live' = {pool'[n] : n \in Nums} \ {None}
    BY <1>2 DEF FidInv, PoolInv
  <2>3. \A n \in Nums : pool'[n] # None => n \in granted' \/ \E s \in Busy' : n \in Makes(rq[s])'
    BY <1>1, <1>2 DEF FidInv, PoolInv, Mid, Busy
  <2>. QED  BY <2>1, <2>2, <2>3 DEF PoolInv
<1>4. GrantedInv'
  <2>1. \A s \in Reqs : Takes(rq[s])' = Takes(rq[s])
    BY DEF Mid, Alone, Takes
  <2>2. \A k \in granted : k \in Nums /\ k # c /\ (pool[k] # None => user'[pool[k]] = user[pool[k]])
    BY <1>2 DEF FidInv, TypeOK, Pointers
  <2>. QED  BY <1>1, <1>2, <2>1, <2>2 DEF FidInv, GrantedInv, Mid, Busy
<1>5. CountInv'
  <2>1. \A y : Held(y)' = Held(y)
    BY HeldSame DEF Mid
  <2>2. \A n \in Nums : Kept(n)' <=> Kept(n)
    BY KeptSame
  <2>3. ~Kept(c)
    BY NotKept DEF Mid
  <2>4. Held(x) = {}
    <3>. SUFFICES ASSUME NEW t \in Held(x) PROVE FALSE
      OBVIOUS
    <3>1. PICK s \in Reqs, i \in {1, 2} : Claim(rq[s], i) = x
      BY DEF Held
    <3>2. PICK k \in Nums : x = pool[k]
      BY <1>2, <3>1, ClaimNamed
    <3>. QED  BY <3>2, <1>2
  <2>5. Cardinality(Held(x)) = 0
    BY <2>4, FS_EmptySet
  <2>6. \A k \in Nums : k # c /\ pool[k] # None => refs'[pool[k]] = refs[pool[k]]
    BY <1>2 DEF FidInv, TypeOK, Pointers
  <2>7. refs'[x] = 0
    BY DEF FidInv, TypeOK
  <2>. QED  BY <1>2, <2>1, <2>2, <2>3, <2>5, <2>6, <2>7 DEF FidInv, CountInv, One
<1>. QED  BY <1>3, <1>4, <1>5

\* np_fid_create for the first fid.
LEMMA CreateKeeps ==
    ASSUME FidInv, NEW r \in Reqs, Create(r)
    PROVE  FidInv'
<1>1. rq[r].pc = "create" /\ rq[r].zero = None /\ rq[r].pc # "idle"
  BY DEF Create, At
<1>. USE Known
<1>2. rq[r].g = None /\ rq[r].rf = None /\ rq[r].ok = FALSE /\ rq[r].h.first = "new"
  BY <1>1 DEF FirstInv, AnswerInv
<1>3. pool[rq[r].n] = None /\ rq[r].n \notin granted /\ rq[r].n \in Makes(rq[r])
  BY <1>1, <1>2 DEF PoolHas, NumInv, Makes
<1>4. PICK x \in Mem : np_fid_create(rq[r].n, x) /\ rq' = [rq EXCEPT ![r].f = x, ![r].pc = "hold"]
  BY DEF Create
<1>5. /\ x \in Mem \ live /\ x # None
      /\ pool' = [pool EXCEPT ![rq[r].n] = x] /\ live' = live \cup {x}
      /\ refs' = [refs EXCEPT ![x] = 0] /\ type' = [type EXCEPT ![x] = {}]
      /\ omode' = [omode EXCEPT ![x] = "closed"] /\ user' = [user EXCEPT ![x] = FALSE]
      /\ granted' = granted
  BY <1>3, <1>4, NpFidAssumption DEF np_fid_create, Create
<1>6. /\ rq'[r].pc = "hold" /\ rq'[r].f = x /\ rq'[r].g = None /\ rq'[r].rf = None
      /\ rq'[r].zero = None /\ rq'[r].ok = FALSE
      /\ rq'[r].h = rq[r].h /\ rq'[r].n = rq[r].n /\ rq'[r].m = rq[r].m
      /\ \A s \in Reqs \ {r} : rq'[s] = rq[s]
  BY <1>1, <1>2, <1>4 DEF FidInv, TypeOK, Request
<1>7. TypeOK'
  <2>1. rq' \in [Reqs -> Request]
    BY <1>1, <1>4 DEF FidInv, TypeOK, Request, Pcs, Pointers
  <2>. QED  BY <2>1, <1>5 DEF FidInv, TypeOK, Pointers, Omodes
<1>8. \A k \in Nums : k # rq[r].n => Same(k) /\ pool[k] # x
  BY <1>5 DEF Same, FidInv, TypeOK, PoolInv, Pointers
<1>9. Mid(r)
  BY <1>1, <1>3, <1>5, <1>6, <1>8 DEF Mid, Alone, Owns
<1>10. pool'[rq[r].n] = x
  BY <1>1, <1>5 DEF FidInv, TypeOK
<1>11. FirstInv(rq[r])' /\ SecondInv(rq[r])' /\ AnswerInv(rq[r])'
  BY <1>5, <1>6, <1>10, HandlerFacts DEF FirstInv, SecondInv, AnswerInv
<1>12. rq[r].m # None => rq[r].m # rq[r].n /\ rq[r].m \in Nums /\ Same(rq[r].m) /\ pool[rq[r].m] # None
  BY <1>1, <1>2, <1>3, <1>8, HandlerFacts DEF NumInv, PoolHas
<1>13. PoolHas(rq[r])' /\ ToldInv(rq[r])'
  <2>1. rq[r].h.does \in {"attach", "auth"} /\ rq[r].h.second \in {"none", "afid"}
        /\ rq[r].h.sets # "checked"
    BY <1>1, <1>2, HandlerFacts
  <2>2. PoolHas(rq[r])'
    BY <1>2, <1>5, <1>6, <1>10, <1>12, <2>1 DEF PoolHas, Same
  <2>3. ToldInv(rq[r])'
    BY <1>1, <1>6, <1>12, <2>1 DEF ToldInv, Same
  <2>. QED  BY <2>2, <2>3
<1>14. CheckedInv(rq[r])' /\ UserInv(rq[r])'
  BY <1>6 DEF CheckedInv, UserInv, Gives
<1>15. PoolInv' /\ GrantedInv' /\ CountInv'
  <2>1. \A j \in {1, 2} : Claim(rq'[r], j) = Claim(rq[r], j)
    BY <1>1, <1>6 DEF Claim
  <2>. QED  BY <2>1, <1>1, <1>2, <1>3, <1>5, <1>6, <1>7, <1>9, Made
<1>. QED  BY <1>7, <1>9, <1>11, <1>13, <1>14, <1>15, MidStep

\* np_fid_incref: request r takes its reference i on the fid under c.
LEMMA RefTaken ==
    ASSUME FidInv, NEW r \in Reqs, Mid(r), NEW i \in {1, 2}, NEW c \in Nums, pool[c] # None,
           Claim(rq[r], i) = None, Claim(rq'[r], i) = pool[c],
           \A j \in {1, 2} \ {i} : Claim(rq'[r], j) = Claim(rq[r], j),
           rq'[r].ok = rq[r].ok, pool' = pool, refs' = [refs EXCEPT ![pool[c]] = @ + 1]
    PROVE  CountInv'
<1>1. pool \in [Nums -> Pointers] /\ refs \in [Mem -> Nat] /\ pool[c] \in Mem
  BY DEF FidInv, TypeOK, Pointers
<1>2. /\ Cardinality(Held(pool[c])') = Cardinality(Held(pool[c])) + 1
      /\ \A y \in Mem \ {pool[c]} : Held(y)' = Held(y)
  <2>1. PICK x \in Mem : x = pool[c]
    BY <1>1
  <2>2. /\ Cardinality(Held(x)') = Cardinality(Held(x)) + 1
        /\ \A y \in Mem \ {x} : Held(y)' = Held(y)
    BY <2>1, HeldAdd
  <2>. QED  BY <2>1, <2>2 DEF Held
<1>3. \A n \in Nums : Kept(n)' <=> Kept(n)
  BY KeptSame
<1>4. \A n \in Nums : n # c /\ pool[n] # None => pool[n] \in Mem \ {pool[c]} /\ refs'[pool[n]] = refs[pool[n]]
  BY <1>1 DEF FidInv, PoolInv, Pointers
<1>5. refs'[pool[c]] = refs[pool[c]] + 1
  BY <1>1
<1>6. Cardinality(Held(pool[c])) \in Nat
  BY HeldFinite
<1>7. refs'[pool[c]] = One(Kept(c)') + Cardinality(Held(pool[c])')
  BY <1>2, <1>3, <1>5, <1>6 DEF FidInv, CountInv, One
<1>8. \A n \in Nums : n # c /\ pool[n] # None =>
        refs'[pool[n]] = One(Kept(n)') + Cardinality(Held(pool[n])')
  BY <1>2, <1>3, <1>4 DEF FidInv, CountInv, One
<1>. QED  BY <1>7, <1>8 DEF CountInv, One, Held

\* np_fid_decref: request r gives up its reference i on the fid under c.
LEMMA RefGiven ==
    ASSUME FidInv, NEW r \in Reqs, Mid(r), NEW i \in {1, 2}, NEW c \in Nums, pool[c] # None,
           Claim(rq[r], i) = pool[c], Claim(rq'[r], i) = None,
           \A j \in {1, 2} \ {i} : Claim(rq'[r], j) = Claim(rq[r], j),
           rq'[r].ok = rq[r].ok, pool' = pool, refs' = [refs EXCEPT ![pool[c]] = @ - 1]
    PROVE  CountInv'
<1>1. pool \in [Nums -> Pointers] /\ refs \in [Mem -> Nat] /\ pool[c] \in Mem
  BY DEF FidInv, TypeOK, Pointers
<1>2. /\ Cardinality(Held(pool[c])) = Cardinality(Held(pool[c])') + 1
      /\ Cardinality(Held(pool[c])') \in Nat
      /\ \A y \in Mem \ {pool[c]} : Held(y)' = Held(y)
  <2>1. PICK x \in Mem : x = pool[c]
    BY <1>1
  <2>2. /\ Cardinality(Held(x)) = Cardinality(Held(x)') + 1
        /\ Cardinality(Held(x)') \in Nat
        /\ \A y \in Mem \ {x} : Held(y)' = Held(y)
    BY <2>1, HeldDrop
  <2>. QED  BY <2>1, <2>2 DEF Held
<1>3. \A n \in Nums : Kept(n)' <=> Kept(n)
  BY KeptSame
<1>4. \A n \in Nums : n # c /\ pool[n] # None => pool[n] \in Mem \ {pool[c]} /\ refs'[pool[n]] = refs[pool[n]]
  BY <1>1 DEF FidInv, PoolInv, Pointers
<1>5. refs'[pool[c]] = refs[pool[c]] - 1
  BY <1>1
<1>7. refs'[pool[c]] = One(Kept(c)') + Cardinality(Held(pool[c])')
  BY <1>2, <1>3, <1>5 DEF FidInv, CountInv, One
<1>8. \A n \in Nums : n # c /\ pool[n] # None =>
        refs'[pool[n]] = One(Kept(n)') + Cardinality(Held(pool[n])')
  BY <1>2, <1>3, <1>4 DEF FidInv, CountInv, One
<1>. QED  BY <1>7, <1>8 DEF CountInv, One, Held

\* The count of a fid on which request r has reference i: it is positive, at
\* least two if there is another reference, and one if there is none.
LEMMA RefCounted ==
    ASSUME FidInv, NEW r \in Reqs, NEW i \in {1, 2}, NEW c \in Nums, pool[c] # None,
           Claim(rq[r], i) = pool[c]
    PROVE  /\ refs[pool[c]] \in Nat \ {0}
           /\ Kept(c) => refs[pool[c]] # 1
           /\ Claim(rq[r], 3 - i) = pool[c] => refs[pool[c]] # 1
           /\ /\ rq[r].pc # "idle" /\ c \in Owns(rq[r]) /\ ~Kept(c)
              /\ Claim(rq[r], 3 - i) # pool[c]
              => refs[pool[c]] = 1
<1>. DEFINE H == Held(pool[c])
<1>1. <<r, i>> \in H /\ IsFiniteSet(H)
  BY HeldFinite DEF Held
<1>2. refs[pool[c]] = One(Kept(c)) + Cardinality(H)
  BY DEF FidInv, CountInv
<1>3. Claim(rq[r], 3 - i) = pool[c] => <<r, 3 - i>> \in H
  BY DEF Held
<1>4. ASSUME rq[r].pc # "idle", c \in Owns(rq[r]), Claim(rq[r], 3 - i) # pool[c]
      PROVE  H = {<<r, i>>}
  <2>1. \A t \in H : t[1] = r
    BY <1>4, OwnHeld
  <2>2. \A t \in H : t = <<r, i>> \/ t = <<r, 3 - i>>
    BY <2>1 DEF Held
  <2>3. <<r, 3 - i>> \notin H
    BY <1>4 DEF Held
  <2>. QED  BY <1>1, <2>2, <2>3
<1>. HIDE DEF H
<1>5. /\ Cardinality(H \ {<<r, i>>}) = Cardinality(H) - 1
      /\ IsFiniteSet(H \ {<<r, i>>})
      /\ Cardinality(H) \in Nat /\ Cardinality(H \ {<<r, i>>}) \in Nat
  <2>1. Cardinality(H \ {<<r, i>>}) = Cardinality(H) - 1 /\ IsFiniteSet(H \ {<<r, i>>})
    BY <1>1, FS_RemoveElement
  <2>. QED  BY <2>1, <1>1, FS_CardinalityType
<1>6. H = {<<r, i>>} => Cardinality(H) = 1
  BY FS_Singleton
<1>7. <<r, 3 - i>> \in H => Cardinality(H) # 1
  <2>. SUFFICES ASSUME <<r, 3 - i>> \in H, Cardinality(H) = 1 PROVE FALSE
    OBVIOUS
  <2>1. Cardinality(H \ {<<r, i>>}) = 0
    BY <1>5
  <2>2. H \ {<<r, i>>} = {}
    BY <1>5, <2>1, FS_EmptySet
  <2>3. <<r, 3 - i>> # <<r, i>>
    OBVIOUS
  <2>. QED  BY <2>2, <2>3
<1>8. Cardinality(H) >= 1
  BY <1>5
<1>. QED  BY <1>2, <1>3, <1>4, <1>5, <1>6, <1>7, <1>8 DEF One

\* A number the client holds has its reference but for a clunk.
LEMMA GrantedIsKept ==
    ASSUME FidInv, NEW r \in Reqs, rq[r].pc # "idle", NEW c \in granted,
           c \in {rq[r].n, rq[r].m}, c \notin Takes(rq[r])
    PROVE  Kept(c)
<1>1. \A s \in Reqs : c \notin Takes(rq[s])
  <2>. SUFFICES ASSUME NEW s \in Reqs, c \in Takes(rq[s]) PROVE FALSE
    OBVIOUS
  <2>1. s # r /\ rq[s].ok /\ c = rq[s].n /\ rq[s].h.does \in {"clunk", "remove"}
    BY DEF Takes
  <2>2. rq[s].pc # "idle"
    BY <2>1 DEF FidInv, IdleInv, Idle
  <2>3. c \in Owns(rq[s])
    BY <2>1 DEF Owns, Changes, Exclusive
  <2>. QED  BY <2>1, <2>2, <2>3 DEF FidInv, OwnInv, Busy
<1>. QED  BY <1>1 DEF Kept

\* The request takes its reference and checks the fid.
LEMMA HoldKeeps ==
    ASSUME FidInv, NEW r \in Reqs, Hold(r)
    PROVE  FidInv'
<1>1. rq[r].pc = "hold" /\ rq[r].zero = None /\ rq[r].pc # "idle"
  BY DEF Hold, At
<1>. USE Known
<1>2. /\ rq[r].g = None /\ rq[r].rf = None /\ rq[r].ok = FALSE
      /\ rq[r].f = pool[rq[r].n] /\ rq[r].f # None /\ rq[r].f \in Mem
  BY <1>1 DEF FirstInv, AnswerInv, Pointers
<1>. DEFINE pass == \A c \in rq[r].h.check : Passes(c, rq[r].f)
<1>3. ~pass => rq[r].h.sets = "found" /\ rq[r].h.first = "old"
  <2>1. rq[r].h.sets = "checked" => pass
    <3>. SUFFICES ASSUME rq[r].h.sets = "checked", NEW c \in rq[r].h.check PROVE Passes(c, rq[r].f)
      OBVIOUS
    <3>1. c \in {"closed", "dir"} /\ "dir" \in type[rq[r].f] /\ omode[rq[r].f] = "closed"
      BY <1>1, <1>2, HandlerFacts DEF ToldInv
    <3>. QED  BY <3>1 DEF Passes
  <2>2. rq[r].h.check = {} => pass
    OBVIOUS
  <2>. QED  BY <2>1, <2>2, <1>1, HandlerFacts
<1>. HIDE DEF pass
<1>4. /\ rq'[r].pc = IF ~pass THEN "respond"
                     ELSE IF rq[r].h.second = "none" THEN "op" ELSE "find2"
      /\ rq'[r].rf = IF rq[r].h.sets = "found" \/ (rq[r].h.sets = "checked" /\ pass)
                     THEN rq[r].f ELSE None
      /\ rq'[r].f = rq[r].f /\ rq'[r].g = None /\ rq'[r].zero = None /\ rq'[r].ok = FALSE
      /\ rq'[r].h = rq[r].h /\ rq'[r].n = rq[r].n /\ rq'[r].m = rq[r].m
      /\ \A s \in Reqs \ {r} : rq'[s] = rq[s]
  BY <1>1, <1>2 DEF pass, Hold, FidInv, TypeOK, Request
<1>5. refs' = [refs EXCEPT ![pool[rq[r].n]] = @ + 1]
  BY <1>2 DEF Hold, np_fid_incref
<1>6. Plain
  BY DEF Plain, Hold
<1>7. TypeOK'
  <2>1. rq' \in [Reqs -> Request]
    BY <1>1 DEF Hold, FidInv, TypeOK, Request, Pcs, Pointers
  <2>2. refs' \in [Mem -> Nat]
    BY <1>2, <1>5 DEF FidInv, TypeOK
  <2>. QED  BY <2>1, <2>2, <1>6 DEF FidInv, TypeOK, Plain
<1>8. Mid(r)
  BY <1>1, <1>4, <1>6 DEF Mid, Alone, Same, Plain
<1>9. FirstInv(rq[r])'
  BY <1>1, <1>2, <1>3, <1>4, <1>6, HandlerFacts DEF Plain, FirstInv
<1>10. SecondInv(rq[r])' /\ AnswerInv(rq[r])'
  BY <1>1, <1>2, <1>3, <1>4, <1>6, HandlerFacts DEF Plain, SecondInv, AnswerInv, NumInv
<1>11. PoolHas(rq[r])'
  BY <1>1, <1>2, <1>3, <1>4, <1>6, HandlerFacts DEF Plain, PoolHas, Takes
<1>12. ToldInv(rq[r])' /\ UserInv(rq[r])'
  BY <1>1, <1>2, <1>4, <1>6, HandlerFacts DEF Plain, ToldInv, UserInv, Gives
<1>13. CheckedInv(rq[r])'
  <2>1. rq'[r].pc = "op" => rq[r].h.check2 = {}
    BY <1>1, <1>4, HandlerFacts
  <2>2. rq'[r].pc # "respond" => \A c \in rq[r].h.check : Passes(c, pool[rq[r].n])'
    BY <1>1, <1>2, <1>4, <1>6, PassesSame, HandlerFacts DEF pass
  <2>. QED  BY <2>1, <2>2, <1>4 DEF CheckedInv
<1>14. PoolInv' /\ GrantedInv'
  BY <1>2, <1>4, <1>6, <1>7, <1>8, PoolStays DEF Plain
<1>15. CountInv'
  <2>1. Claim(rq[r], 1) = None /\ Claim(rq'[r], 1) = pool[rq[r].n]
    BY <1>1, <1>2, <1>3, <1>4 DEF Claim
  <2>2. \A j \in {1, 2} \ {1} : Claim(rq'[r], j) = Claim(rq[r], j)
    BY <1>1, <1>2, <1>4 DEF Claim
  <2>. QED  BY <2>1, <2>2, <1>1, <1>2, <1>4, <1>5, <1>6, <1>8, RefTaken DEF Plain
<1>. QED  BY <1>7, <1>8, <1>9, <1>10, <1>11, <1>12, <1>13, <1>14, <1>15, MidStep

\* np_fid_find for the second fid.
LEMMA Find2Keeps ==
    ASSUME FidInv, NEW r \in Reqs, Find2(r)
    PROVE  FidInv'
<1>1. rq[r].pc = "find2" /\ rq[r].zero = None /\ rq[r].pc # "idle"
  BY DEF Find2, At
<1>. USE Known
<1>2. /\ rq[r].g = None /\ rq[r].ok = FALSE /\ rq[r].h.second # "none"
      /\ rq[r].f = pool[rq[r].n] /\ rq[r].f # None
      /\ rq[r].rf = IF rq[r].h.sets = "second" THEN None ELSE rq[r].f
  BY <1>1 DEF FirstInv, SecondInv, AnswerInv
<1>3. /\ rq[r].m \in Nums => pool[rq[r].m] \in Pointers
      /\ rq[r].h.second \in {"old", "new", "afid"}
      /\ rq[r].h.second # "afid" => rq[r].m \in Nums
      /\ rq[r].h.second \in {"old", "afid"} /\ rq[r].m # None => pool[rq[r].m] # None
      /\ rq[r].h.second = "new" /\ rq[r].m # rq[r].n => pool[rq[r].m] = None
      /\ rq[r].h.second = "afid" /\ rq[r].m # None => "auth" \in type[pool[rq[r].m]]
      /\ rq[r].h.does \in {"walk", "xattrwalk"} <=> rq[r].h.second = "new"
      /\ None \notin Nums
  BY <1>1, <1>2, HandlerFacts, NpFidAssumption DEF NumInv, PoolHas, ToldInv, FidInv, TypeOK
<1>4. /\ rq'[r].pc = IF rq[r].h.second = "new"
                     THEN IF rq[r].m # rq[r].n THEN "create2"
                          ELSE IF rq[r].h.does = "walk" THEN "hold2" ELSE "respond"
                     ELSE IF rq[r].m = None THEN "op" ELSE "hold2"
      /\ rq'[r].g = IF rq[r].m = None THEN None ELSE pool[rq[r].m]
      /\ rq'[r].rf = rq[r].rf /\ rq'[r].f = rq[r].f /\ rq'[r].zero = None /\ rq'[r].ok = FALSE
      /\ rq'[r].h = rq[r].h /\ rq'[r].n = rq[r].n /\ rq'[r].m = rq[r].m
      /\ \A s \in Reqs \ {r} : rq'[s] = rq[s]
  <2>1. /\ rq'[r].g = IF rq[r].h.does = "walk" /\ rq[r].m = rq[r].n THEN rq[r].f
                      ELSE IF rq[r].m = None THEN None ELSE pool[rq[r].m]
        /\ rq'[r].rf = rq[r].rf /\ rq'[r].f = rq[r].f /\ rq'[r].zero = None /\ rq'[r].ok = FALSE
        /\ rq'[r].h = rq[r].h /\ rq'[r].n = rq[r].n /\ rq'[r].m = rq[r].m
        /\ \A s \in Reqs \ {r} : rq'[s] = rq[s]
    BY <1>1, <1>2 DEF Find2, FidInv, TypeOK, Request
  <2>2. rq'[r].pc = IF rq[r].h.second = "new"
                    THEN IF rq[r].m # rq[r].n THEN "create2"
                         ELSE IF rq[r].h.does = "walk" THEN "hold2" ELSE "respond"
                    ELSE IF rq[r].m = None THEN "op" ELSE "hold2"
    BY <1>1, <1>2, <1>3 DEF Find2, FidInv, TypeOK, Request
  <2>. QED  BY <1>1, <1>2, <1>3, <2>1, <2>2
<1>5. TypeOK'
  BY <1>1, <1>3 DEF Find2, FidInv, TypeOK, Request, fidVars, Pcs, Pointers
<1>6. Plain /\ refs' = refs
  BY DEF Plain, Find2, fidVars
<1>7. Mid(r)
  BY <1>1, <1>4, <1>6 DEF Mid, Alone, Same, Plain
<1>8. FirstInv(rq[r])'
  BY <1>1, <1>2, <1>3, <1>4, <1>6, HandlerFacts DEF Plain, FirstInv
<1>9. SecondInv(rq[r])' /\ AnswerInv(rq[r])'
  BY <1>1, <1>2, <1>3, <1>4, <1>6, HandlerFacts DEF Plain, SecondInv, AnswerInv
<1>10. PoolHas(rq[r])'
  BY <1>1, <1>2, <1>3, <1>4, <1>6, HandlerFacts DEF Plain, PoolHas, Takes
<1>11. ToldInv(rq[r])'
  BY <1>1, <1>3, <1>4, <1>6, HandlerFacts DEF Plain, ToldInv
<1>12. UserInv(rq[r])'
  <2>1. rq[r].m = rq[r].n => user[pool[rq[r].m]] \/ rq[r].h.first = "new"
    BY <1>1, <1>2, HandlerFacts DEF FidInv, GrantedInv, NumInv
  <2>. QED  BY <2>1, <1>1, <1>3, <1>4, <1>6, HandlerFacts DEF Plain, UserInv, Gives
<1>13. CheckedInv(rq[r])'
  <2>1. rq'[r].pc = "op" => rq[r].h.check2 = {}
    BY <1>1, <1>3, <1>4, HandlerFacts
  <2>2. \A c \in rq[r].h.check : Passes(c, pool[rq[r].n])'
    BY <1>1, <1>4, <1>6, PassesSame, HandlerFacts DEF CheckedInv
  <2>. QED  BY <2>1, <2>2, <1>4 DEF CheckedInv
<1>14. PoolInv' /\ GrantedInv'
  BY <1>2, <1>4, <1>5, <1>6, <1>7, PoolStays DEF Plain
<1>15. CountInv'
  <2>1. \A j \in {1, 2} : Claim(rq'[r], j) = Claim(rq[r], j)
    BY <1>1, <1>2, <1>3, <1>4, HandlerFacts DEF Claim
  <2>. QED  BY <2>1, <1>2, <1>4, <1>6, <1>7, CountSame DEF Plain
<1>. QED  BY <1>5, <1>7, <1>8, <1>9, <1>10, <1>11, <1>12, <1>13, <1>14, <1>15, MidStep

\* np_fid_create for the second fid.
LEMMA Create2Keeps ==
    ASSUME FidInv, NEW r \in Reqs, Create2(r)
    PROVE  FidInv'
<1>1. rq[r].pc = "create2" /\ rq[r].zero = None /\ rq[r].pc # "idle"
  BY DEF Create2, At
<1>. USE Known
<1>2. /\ rq[r].ok = FALSE /\ rq[r].h.second = "new" /\ rq[r].m # rq[r].n
      /\ rq[r].f = pool[rq[r].n] /\ rq[r].f # None /\ rq[r].rf = rq[r].f
  BY <1>1, HandlerFacts DEF FirstInv, SecondInv, AnswerInv
<1>3. /\ rq[r].m \in Nums /\ pool[rq[r].m] = None /\ rq[r].m \notin granted
      /\ rq[r].m \in Makes(rq[r])
      /\ rq[r].h.first = "old" /\ rq[r].h.check2 = {} /\ rq[r].h.sets = "found"
      /\ rq[r].h.does \in {"walk", "xattrwalk"}
  BY <1>1, <1>2, HandlerFacts DEF PoolHas, NumInv, Makes
<1>4. PICK x \in Mem : np_fid_create(rq[r].m, x) /\ rq' = [rq EXCEPT ![r].g = x, ![r].pc = "clone"]
  BY DEF Create2
<1>5. /\ x \in Mem \ live /\ x # None
      /\ pool' = [pool EXCEPT ![rq[r].m] = x] /\ live' = live \cup {x}
      /\ refs' = [refs EXCEPT ![x] = 0] /\ type' = [type EXCEPT ![x] = {}]
      /\ omode' = [omode EXCEPT ![x] = "closed"] /\ user' = [user EXCEPT ![x] = FALSE]
      /\ granted' = granted
  BY <1>3, <1>4, NpFidAssumption DEF np_fid_create, Create2
<1>6. /\ rq'[r].pc = "clone" /\ rq'[r].g = x /\ rq'[r].f = rq[r].f /\ rq'[r].rf = rq[r].rf
      /\ rq'[r].zero = None /\ rq'[r].ok = FALSE
      /\ rq'[r].h = rq[r].h /\ rq'[r].n = rq[r].n /\ rq'[r].m = rq[r].m
      /\ \A s \in Reqs \ {r} : rq'[s] = rq[s]
  BY <1>1, <1>2, <1>4 DEF FidInv, TypeOK, Request
<1>7. TypeOK'
  <2>1. rq' \in [Reqs -> Request]
    BY <1>1, <1>4 DEF FidInv, TypeOK, Request, Pcs, Pointers
  <2>. QED  BY <2>1, <1>3, <1>5 DEF FidInv, TypeOK, Pointers, Omodes
<1>8. \A k \in Nums : k # rq[r].m => Same(k) /\ pool[k] # x
  BY <1>3, <1>5 DEF Same, FidInv, TypeOK, PoolInv, Pointers
<1>9. Mid(r)
  BY <1>1, <1>3, <1>5, <1>6, <1>8 DEF Mid, Alone, Owns
<1>10. pool'[rq[r].m] = x /\ Same(rq[r].n)
  BY <1>1, <1>2, <1>3, <1>5, <1>8 DEF FidInv, TypeOK
<1>11. FirstInv(rq[r])' /\ SecondInv(rq[r])' /\ AnswerInv(rq[r])'
  BY <1>2, <1>3, <1>5, <1>6, <1>10, NpFidAssumption DEF FirstInv, SecondInv, AnswerInv, Same
<1>12. PoolHas(rq[r])' /\ ToldInv(rq[r])'
  BY <1>2, <1>3, <1>5, <1>6, <1>10 DEF PoolHas, ToldInv, Same
<1>13. CheckedInv(rq[r])'
  <2>1. \A c \in Checks : Passes(c, pool[rq[r].n])' <=> Passes(c, pool[rq[r].n])
    BY <1>2, <1>6, <1>10 DEF Same, Passes, Checks
  <2>. QED  BY <2>1, <1>1, <1>6, HandlerFacts DEF CheckedInv
<1>14. UserInv(rq[r])'
  BY <1>6 DEF UserInv, Gives
<1>15. PoolInv' /\ GrantedInv' /\ CountInv'
  <2>1. \A j \in {1, 2} : Claim(rq'[r], j) = Claim(rq[r], j)
    BY <1>1, <1>6 DEF Claim
  <2>. QED  BY <2>1, <1>2, <1>3, <1>5, <1>6, <1>7, <1>9, Made
<1>. QED  BY <1>7, <1>9, <1>11, <1>12, <1>13, <1>14, <1>15, MidStep

\* srv->clone: newfid gets its user and its type.
LEMMA CloneKeeps ==
    ASSUME FidInv, CloneFails = {FALSE}, NEW r \in Reqs, Clone(r)
    PROVE  FidInv'
<1>1. rq[r].pc = "clone" /\ rq[r].zero = None /\ rq[r].pc # "idle"
  BY DEF Clone, At
<1>. USE Known
<1>2. /\ rq[r].ok = FALSE /\ rq[r].h.second = "new" /\ rq[r].m # rq[r].n
      /\ rq[r].f = pool[rq[r].n] /\ rq[r].f # None /\ rq[r].rf = rq[r].f
      /\ rq[r].h.first = "old" /\ rq[r].h.check2 = {} /\ rq[r].h.sets = "found"
      /\ rq[r].h.does \in {"walk", "xattrwalk"}
  BY <1>1, HandlerFacts DEF FirstInv, SecondInv, AnswerInv
<1>3. /\ rq[r].m \in Nums /\ rq[r].m \notin granted /\ rq[r].m \in Makes(rq[r]) /\ rq[r].m # None
      /\ rq[r].g = pool[rq[r].m] /\ rq[r].g # None /\ rq[r].g \in Mem /\ rq[r].f \in Mem
  BY <1>1, <1>2 DEF NumInv, Makes, SecondInv, Pointers
<1>4. /\ rq' = [rq EXCEPT ![r].pc = "hold2"]
      /\ user' = [user EXCEPT ![rq[r].g] = user[rq[r].f]]
      /\ type' = IF rq[r].h.does = "walk" THEN [type EXCEPT ![rq[r].g] = type[rq[r].f]] ELSE type
      /\ UNCHANGED <<pool, live, refs, omode, granted>>
  BY DEF Clone
<1>5. user[rq[r].f]
  BY <1>1, <1>2 DEF NumInv, FidInv, GrantedInv
<1>6. /\ rq'[r].pc = "hold2" /\ rq'[r].g = rq[r].g /\ rq'[r].f = rq[r].f /\ rq'[r].rf = rq[r].rf
      /\ rq'[r].zero = None /\ rq'[r].ok = FALSE
      /\ rq'[r].h = rq[r].h /\ rq'[r].n = rq[r].n /\ rq'[r].m = rq[r].m
      /\ \A s \in Reqs \ {r} : rq'[s] = rq[s]
  BY <1>1, <1>2, <1>4 DEF FidInv, TypeOK, Request
<1>7. TypeOK'
  <2>1. rq' \in [Reqs -> Request]
    BY <1>1, <1>4 DEF FidInv, TypeOK, Request, Pcs
  <2>. QED  BY <2>1, <1>3, <1>4 DEF FidInv, TypeOK
<1>8. \A k \in Nums : k # rq[r].m => Same(k)
  BY <1>3, <1>4 DEF Same, FidInv, TypeOK, PoolInv, Pointers
<1>9. Mid(r)
  BY <1>1, <1>3, <1>4, <1>6, <1>8 DEF Mid, Alone, Owns
<1>10. FirstInv(rq[r])' /\ SecondInv(rq[r])' /\ AnswerInv(rq[r])'
  BY <1>2, <1>3, <1>4, <1>6 DEF FirstInv, SecondInv, AnswerInv
<1>11. PoolHas(rq[r])' /\ ToldInv(rq[r])'
  BY <1>1, <1>2, <1>3, <1>4, <1>6 DEF PoolHas, ToldInv, Takes
<1>12. CheckedInv(rq[r])'
  <2>1. \A c \in Checks : Passes(c, pool[rq[r].n])' <=> Passes(c, pool[rq[r].n])
    BY <1>1, <1>2, <1>6, <1>8 DEF Same, Passes, Checks
  <2>. QED  BY <2>1, <1>1, <1>6, HandlerFacts DEF CheckedInv
<1>13. UserInv(rq[r])'
  BY <1>3, <1>4, <1>5, <1>6 DEF UserInv, Gives, FidInv, TypeOK
<1>14. PoolInv' /\ GrantedInv'
  <2>1. \A n \in granted : pool[n] # None /\ user[pool[n]] => user'[pool[n]]
    BY <1>3, <1>8 DEF Same, FidInv, TypeOK
  <2>. QED  BY <2>1, <1>4, <1>2, <1>6, <1>7, <1>9, PoolStays
<1>15. CountInv'
  <2>1. \A j \in {1, 2} : Claim(rq'[r], j) = Claim(rq[r], j)
    BY <1>1, <1>6 DEF Claim
  <2>. QED  BY <2>1, <1>2, <1>4, <1>6, <1>9, CountSame
<1>. QED  BY <1>7, <1>9, <1>10, <1>11, <1>12, <1>13, <1>14, <1>15, MidStep

\* The reference on the second fid, and the checks on it.
LEMMA Hold2Keeps ==
    ASSUME FidInv, NEW r \in Reqs, Hold2(r)
    PROVE  FidInv'
<1>1. rq[r].pc = "hold2" /\ rq[r].zero = None /\ rq[r].pc # "idle"
  BY DEF Hold2, At
<1>. USE Known
<1>2. /\ rq[r].ok = FALSE /\ rq[r].h.second # "none" /\ rq[r].m # None /\ rq[r].m \in Nums
      /\ rq[r].f = pool[rq[r].n] /\ rq[r].f # None
      /\ rq[r].g = pool[rq[r].m] /\ rq[r].g # None /\ rq[r].g \in Mem
  BY <1>1 DEF FirstInv, SecondInv, AnswerInv, Pointers
<1>. DEFINE pass == \A c \in rq[r].h.check2 : Passes(c, rq[r].g)
<1>. HIDE DEF pass
<1>4. /\ rq'[r].pc = IF pass THEN "op" ELSE "done"
      /\ rq'[r].rf = rq[r].f /\ rq'[r].f = rq[r].f /\ rq'[r].g = rq[r].g
      /\ rq'[r].zero = None /\ rq'[r].ok = FALSE
      /\ rq'[r].h = rq[r].h /\ rq'[r].n = rq[r].n /\ rq'[r].m = rq[r].m
      /\ \A s \in Reqs \ {r} : rq'[s] = rq[s]
  BY <1>1, <1>2 DEF pass, Hold2, FidInv, TypeOK, Request
<1>5. refs' = [refs EXCEPT ![pool[rq[r].m]] = @ + 1]
  BY <1>2 DEF Hold2, np_fid_incref
<1>6. Plain
  BY DEF Plain, Hold2
<1>7. TypeOK'
  <2>1. rq' \in [Reqs -> Request]
    BY <1>1 DEF Hold2, FidInv, TypeOK, Request, Pcs
  <2>2. refs' \in [Mem -> Nat]
    BY <1>2, <1>5 DEF FidInv, TypeOK
  <2>. QED  BY <2>1, <2>2, <1>6 DEF FidInv, TypeOK, Plain
<1>8. Mid(r)
  BY <1>1, <1>4, <1>6 DEF Mid, Alone, Same, Plain
<1>9. FirstInv(rq[r])'
  BY <1>1, <1>2, <1>4, <1>6, HandlerFacts DEF Plain, FirstInv
<1>10. SecondInv(rq[r])' /\ AnswerInv(rq[r])'
  BY <1>1, <1>2, <1>4, <1>6, HandlerFacts DEF Plain, SecondInv, AnswerInv, NumInv
<1>11. PoolHas(rq[r])'
  BY <1>1, <1>2, <1>4, <1>6, HandlerFacts DEF Plain, PoolHas, Takes
<1>12. ToldInv(rq[r])' /\ UserInv(rq[r])'
  BY <1>1, <1>2, <1>4, <1>6, HandlerFacts DEF Plain, ToldInv, UserInv, Gives
<1>13. CheckedInv(rq[r])'
  <2>1. rq'[r].pc = "op" => \A c \in rq[r].h.check2 : Passes(c, pool[rq[r].m])'
    BY <1>1, <1>2, <1>4, <1>6, PassesSame, HandlerFacts DEF pass
  <2>2. \A c \in rq[r].h.check : Passes(c, pool[rq[r].n])'
    BY <1>1, <1>4, <1>6, PassesSame, HandlerFacts DEF CheckedInv
  <2>. QED  BY <2>1, <2>2, <1>4 DEF CheckedInv
<1>14. PoolInv' /\ GrantedInv'
  BY <1>2, <1>4, <1>6, <1>7, <1>8, PoolStays DEF Plain
<1>15. CountInv'
  <2>1. Claim(rq[r], 2) = None /\ Claim(rq'[r], 2) = pool[rq[r].m]
    BY <1>1, <1>2, <1>4 DEF Claim
  <2>2. \A j \in {1, 2} \ {2} : Claim(rq'[r], j) = Claim(rq[r], j)
    BY <1>1, <1>2, <1>4 DEF Claim
  <2>. QED  BY <2>1, <2>2, <1>1, <1>2, <1>4, <1>5, <1>6, <1>8, RefTaken DEF Plain
<1>. QED  BY <1>7, <1>8, <1>9, <1>10, <1>11, <1>12, <1>13, <1>14, <1>15, MidStep

----------------------------------------------------------------------------
(* The operations *)

\* What a handler has when its operation runs.
OpFacts(r) ==
    /\ rq[r].pc = "op" /\ rq[r].zero = None /\ rq[r].ok = FALSE
    /\ rq[r].n \in Nums /\ rq[r].f = pool[rq[r].n] /\ rq[r].f # None /\ rq[r].f \in Mem
    /\ rq[r].rf = IF rq[r].h.does = "auth" THEN None ELSE rq[r].f
    /\ rq[r].m \in Nums \cup {None}
    /\ rq[r].h.second = "none" => rq[r].g = None /\ rq[r].m = None
    /\ rq[r].h.second \in {"old", "new"} => rq[r].m # None
    /\ rq[r].m # None => rq[r].g = pool[rq[r].m] /\ rq[r].g # None /\ rq[r].g \in Mem
    /\ rq[r].m = None => rq[r].g = None
    /\ rq[r].h.does = "xattrwalk" => rq[r].m # rq[r].n
    /\ rq \in [Reqs -> Request] /\ rq[r] \in Request /\ rq[r].h \in Handlers
    /\ NumInv(rq[r]) /\ PoolHas(rq[r]) /\ ToldInv(rq[r]) /\ CheckedInv(rq[r]) /\ UserInv(rq[r])
\* They follow from the invariant.
LEMMA OpKnown ==
    ASSUME FidInv, NEW r \in Reqs, At(r, "op")
    PROVE  OpFacts(r)
<1>1. rq[r].pc = "op" /\ rq[r].pc # "idle" /\ rq[r].zero = None
  BY DEF At
<1>. USE Known
<1>2. rq[r].h.second \in {"none", "old", "new", "afid"}
  BY <1>1, HandlerFacts
<1>3. /\ rq[r].rf = IF rq[r].h.does = "auth" THEN None ELSE rq[r].f
      /\ rq[r].n \in Nums /\ rq[r].f = pool[rq[r].n] /\ rq[r].f # None /\ rq[r].f \in Mem
      /\ rq[r].ok = FALSE /\ rq \in [Reqs -> Request]
  BY <1>1 DEF FirstInv, AnswerInv, FidInv, TypeOK, Pointers
<1>. QED  BY <1>1, <1>2, <1>3, NpFidAssumption DEF OpFacts, SecondInv, NumInv, Pointers

\* The operation goes well: nobody else's answer says anything of its numbers.
LEMMA KeptTurns ==
    ASSUME FidInv, NEW r \in Reqs, Mid(r), rq[r].ok = FALSE
    PROVE  /\ \A n \in Nums : n \notin Gives(rq'[r]) \cup Takes(rq'[r]) => (Kept(n)' <=> Kept(n))
           /\ \A n \in Nums : n \in Gives(rq'[r]) => Kept(n)'
           /\ \A n \in Nums : n \in Takes(rq'[r]) \ Gives(rq'[r]) /\ n \in Owns(rq[r]) => ~Kept(n)'
<1>1. \A s \in Reqs \ {r} : Gives(rq[s])' = Gives(rq[s]) /\ Takes(rq[s])' = Takes(rq[s])
  BY DEF Mid, Alone, Gives, Takes
<1>2. Gives(rq[r]) = {} /\ Takes(rq[r]) = {}
  BY DEF Gives, Takes
<1>3. Gives(rq[r])' = Gives(rq'[r]) /\ Takes(rq[r])' = Takes(rq'[r])
  BY DEF Gives, Takes
<1>4. \A n \in Nums : n \notin Gives(rq'[r]) \cup Takes(rq'[r]) => (Kept(n)' <=> Kept(n))
  BY <1>1, <1>2, <1>3 DEF Kept, Mid
<1>5. \A n \in Nums : n \in Gives(rq'[r]) => Kept(n)'
  BY <1>3 DEF Kept
<1>6. \A n \in Owns(rq[r]), s \in Reqs \ {r} : n \notin Gives(rq[s])
  <2>. SUFFICES ASSUME NEW n \in Owns(rq[r]), NEW s \in Reqs \ {r}, n \in Gives(rq[s]) PROVE FALSE
    OBVIOUS
  <2>1. rq[s].ok /\ n \in {rq[s].n, rq[s].m}
    BY DEF Gives
  <2>2. rq[s].pc # "idle"
    BY <2>1 DEF FidInv, IdleInv, Idle
  <2>. QED  BY <2>1, <2>2 DEF FidInv, OwnInv, Busy, Mid
<1>7. \A n \in Nums : n \in Takes(rq'[r]) \ Gives(rq'[r]) /\ n \in Owns(rq[r]) => ~Kept(n)'
  <2>1. \A n \in Owns(rq[r]), s \in Reqs : n \notin Gives(rq[s])' \/ (s = r /\ n \in Gives(rq'[r]))
    BY <1>1, <1>3, <1>6
  <2>. QED  BY <1>3, <2>1 DEF Kept
<1>. QED  BY <1>4, <1>5, <1>7

\* The pool's reference is taken on a new fid ...
LEMMA PoolTakes ==
    ASSUME FidInv, NEW r \in Reqs, Mid(r), rq[r].ok = FALSE,
           NEW c \in Nums, pool[c] # None, Gives(rq'[r]) = {c}, Takes(rq'[r]) = {},
           c \in Makes(rq[r]), c \notin granted,
           \A j \in {1, 2} : Claim(rq'[r], j) = Claim(rq[r], j),
           pool' = pool, refs' = [refs EXCEPT ![pool[c]] = @ + 1]
    PROVE  CountInv'
<1>1. pool \in [Nums -> Pointers] /\ refs \in [Mem -> Nat] /\ pool[c] \in Mem
  BY DEF FidInv, TypeOK, Pointers
<1>2. \A y : Held(y)' = Held(y)
  BY HeldSame DEF Mid
<1>3. (\A n \in Nums : n # c => (Kept(n)' <=> Kept(n))) /\ Kept(c)'
  BY KeptTurns
<1>4. ~Kept(c)
  BY NotKept DEF Mid
<1>5. \A n \in Nums : n # c /\ pool[n] # None => refs'[pool[n]] = refs[pool[n]]
  BY <1>1 DEF FidInv, PoolInv, Pointers
<1>6. refs'[pool[c]] = refs[pool[c]] + 1 /\ Cardinality(Held(pool[c])) \in Nat
  BY <1>1, HeldFinite
<1>7. refs'[pool[c]] = One(Kept(c)') + Cardinality(Held(pool[c])')
  BY <1>2, <1>3, <1>4, <1>6 DEF FidInv, CountInv, One
<1>8. \A n \in Nums : n # c /\ pool[n] # None =>
        refs'[pool[n]] = One(Kept(n)') + Cardinality(Held(pool[n])')
  BY <1>2, <1>3, <1>5 DEF FidInv, CountInv, One
<1>. QED  BY <1>7, <1>8 DEF CountInv, One, Held

\* ... and given up by a clunk.
LEMMA PoolGives ==
    ASSUME FidInv, NEW r \in Reqs, Mid(r), rq[r].ok = FALSE,
           NEW c \in Nums, pool[c] # None, Gives(rq'[r]) = {}, Takes(rq'[r]) = {c},
           c \in Owns(rq[r]), Kept(c),
           \A j \in {1, 2} : Claim(rq'[r], j) = Claim(rq[r], j),
           pool' = pool, refs' = [refs EXCEPT ![pool[c]] = @ - 1]
    PROVE  CountInv'
<1>1. pool \in [Nums -> Pointers] /\ refs \in [Mem -> Nat] /\ pool[c] \in Mem
  BY DEF FidInv, TypeOK, Pointers
<1>2. \A y : Held(y)' = Held(y)
  BY HeldSame DEF Mid
<1>3. (\A n \in Nums : n # c => (Kept(n)' <=> Kept(n))) /\ ~Kept(c)'
  BY KeptTurns
<1>5. \A n \in Nums : n # c /\ pool[n] # None => refs'[pool[n]] = refs[pool[n]]
  BY <1>1 DEF FidInv, PoolInv, Pointers
<1>6. refs'[pool[c]] = refs[pool[c]] - 1 /\ Cardinality(Held(pool[c])) \in Nat
  BY <1>1, HeldFinite
<1>7. refs'[pool[c]] = One(Kept(c)') + Cardinality(Held(pool[c])')
  BY <1>2, <1>3, <1>6 DEF FidInv, CountInv, One
<1>8. \A n \in Nums : n # c /\ pool[n] # None =>
        refs'[pool[n]] = One(Kept(n)') + Cardinality(Held(pool[n])')
  BY <1>2, <1>3, <1>5 DEF FidInv, CountInv, One
<1>. QED  BY <1>7, <1>8 DEF CountInv, One, Held

\* An operation that changes no fid.
LEMMA OpPlainKeeps ==
    ASSUME FidInv, NEW r \in Reqs, OpPlain(r)
    PROVE  FidInv'
<1>1. OpFacts(r)
  BY OpKnown DEF OpPlain
<1>. USE DEF OpFacts
<1>2. /\ rq[r].h.second = "none" \/ rq[r].h.does # "auth"
      /\ rq[r].h.second \in {"none", "old", "new", "afid"}
      /\ rq[r].h.does = "auth" => rq[r].h.first = "new" /\ rq[r].m = None
  BY <1>1, HandlerFacts DEF NumInv
<1>3. /\ rq'[r].pc = IF rq[r].h.does = "auth" \/ rq[r].h.second # "none" THEN "done" ELSE "respond"
      /\ rq'[r].g = IF rq[r].h.does = "auth" THEN rq[r].f ELSE rq[r].g
      /\ rq'[r].rf = rq[r].rf /\ rq'[r].f = rq[r].f /\ rq'[r].zero = None /\ rq'[r].ok = FALSE
      /\ rq'[r].h = rq[r].h /\ rq'[r].n = rq[r].n /\ rq'[r].m = rq[r].m
      /\ \A s \in Reqs \ {r} : rq'[s] = rq[s]
  BY <1>1 DEF OpPlain, AfterOp, Request
<1>4. Plain /\ refs' = refs
  BY DEF OpPlain, Plain, fidVars
<1>5. TypeOK'
  <2>1. rq' \in [Reqs -> Request]
    BY <1>1 DEF OpPlain, AfterOp, Request, Pcs, Pointers
  <2>. QED  BY <2>1, <1>4 DEF FidInv, TypeOK, Plain
<1>6. Mid(r)
  BY <1>1, <1>3, <1>4 DEF Mid, Alone, Same, Plain
<1>7. FirstInv(rq[r])'
  BY <1>1, <1>2, <1>3, <1>4 DEF Plain, FirstInv
<1>8. SecondInv(rq[r])' /\ AnswerInv(rq[r])'
  BY <1>1, <1>2, <1>3, <1>4 DEF Plain, SecondInv, AnswerInv
<1>9. PoolHas(rq[r])'
  BY <1>1, <1>2, <1>3, <1>4, HandlerFacts DEF Plain, PoolHas, Takes
<1>10. ToldInv(rq[r])' /\ CheckedInv(rq[r])' /\ UserInv(rq[r])'
  BY <1>3 DEF ToldInv, CheckedInv, UserInv, Gives
<1>11. PoolInv' /\ GrantedInv'
  BY <1>1, <1>3, <1>4, <1>5, <1>6, PoolStays DEF Plain
<1>12. CountInv'
  <2>1. CASE rq[r].h.does # "auth"
    <3>1. \A j \in {1, 2} : Claim(rq'[r], j) = Claim(rq[r], j)
      BY <2>1, <1>1, <1>2, <1>3 DEF Claim
    <3>. QED  BY <3>1, <1>1, <1>3, <1>4, <1>6, CountSame DEF Plain
  <2>2. CASE rq[r].h.does = "auth"
    <3>. PICK x \in Mem : x = rq[r].f
      BY <1>1
    <3>1. /\ Claim(rq[r], 1) = x /\ Claim(rq[r], 2) = None
          /\ Claim(rq'[r], 1) = None /\ Claim(rq'[r], 2) = x
      BY <2>2, <1>1, <1>2, <1>3 DEF Claim
    <3>2. \A y \in Mem \ {x} : Held(y)' = Held(y)
      BY <3>1, <1>3, NpFidAssumption DEF Held
    <3>3. Cardinality(Held(x)') = Cardinality(Held(x))
      <4>. DEFINE H == Held(x)
                  K == Held(x)'
      <4>1. K = (H \ {<<r, 1>>}) \cup {<<r, 2>>} /\ <<r, 1>> \in H /\ <<r, 2>> \notin H
        BY <3>1, <1>1, <1>3 DEF Held
      <4>2. IsFiniteSet(H)
        BY HeldFinite
      <4>. HIDE DEF H, K
      <4>3. Cardinality(H \ {<<r, 1>>}) = Cardinality(H) - 1 /\ IsFiniteSet(H \ {<<r, 1>>})
        BY <4>1, <4>2, FS_RemoveElement
      <4>4. Cardinality(K) = Cardinality(H \ {<<r, 1>>}) + 1
        BY <4>1, <4>3, FS_AddElement
      <4>5. Cardinality(H) \in Nat
        BY <4>2, FS_CardinalityType
      <4>. QED  BY <4>3, <4>4, <4>5 DEF H, K
    <3>4. \A n \in Nums : Kept(n)' <=> Kept(n)
      BY <1>1, <1>3, <1>6, KeptSame
    <3>5. \A y \in Mem : Cardinality(Held(y)') = Cardinality(Held(y))
      BY <3>2, <3>3
    <3>6. \A n \in Nums : pool[n] # None => pool[n] \in Mem
      BY DEF FidInv, TypeOK, Pointers
    <3>7. \A n \in Nums : pool[n] # None => Cardinality(Held(pool[n])') = Cardinality(Held(pool[n]))
      BY <3>5, <3>6, <1>4 DEF Held, Plain
    <3>. QED  BY <3>4, <3>7, <1>4 DEF FidInv, CountInv, One, Plain
  <2>. QED  BY <2>1, <2>2
<1>. QED  BY <1>5, <1>6, <1>7, <1>8, <1>9, <1>10, <1>11, <1>12, MidStep

\* The operations that change type or omode of the handler's own fid.
LEMMA OwnOpKeeps ==
    ASSUME FidInv, NEW r \in Reqs, OpFacts(r), rq[r].h.does \in {"open", "create", "xattrcreate"},
           rq' = [rq EXCEPT ![r].pc = "respond"],
           omode' \in [Mem -> Omodes], type' \in [Mem -> SUBSET {"dir", "auth", "xattr"}],
           \A x \in Mem : x # rq[r].f => omode'[x] = omode[x] /\ type'[x] = type[x],
           UNCHANGED <<pool, live, refs, user, granted>>
    PROVE  FidInv'
<1>. USE DEF OpFacts
<1>1. rq[r].h.first = "old" /\ rq[r].h.second = "none" /\ rq[r].n \in Owns(rq[r])
  BY HandlerFacts DEF Owns, Changes, Exclusive
<1>2. /\ rq'[r].pc = "respond" /\ rq'[r].g = rq[r].g /\ rq'[r].f = rq[r].f /\ rq'[r].rf = rq[r].rf
      /\ rq'[r].zero = None /\ rq'[r].ok = FALSE
      /\ rq'[r].h = rq[r].h /\ rq'[r].n = rq[r].n /\ rq'[r].m = rq[r].m
      /\ \A s \in Reqs \ {r} : rq'[s] = rq[s]
  BY DEF Request
<1>3. TypeOK'
  <2>1. rq' \in [Reqs -> Request]
    BY DEF Request, Pcs
  <2>. QED  BY <2>1 DEF FidInv, TypeOK
<1>4. \A k \in Nums : k # rq[r].n => Same(k)
  BY DEF Same, FidInv, TypeOK, PoolInv, Pointers
<1>5. Mid(r)
  BY <1>1, <1>2, <1>4 DEF Mid, Alone
<1>6. FirstInv(rq[r])' /\ SecondInv(rq[r])' /\ AnswerInv(rq[r])'
  BY <1>1, <1>2 DEF FirstInv, SecondInv, AnswerInv
<1>7. PoolHas(rq[r])'
  BY <1>1, <1>2 DEF PoolHas, Takes
<1>8. ToldInv(rq[r])' /\ CheckedInv(rq[r])' /\ UserInv(rq[r])'
  BY <1>2 DEF ToldInv, CheckedInv, UserInv, Gives
<1>9. PoolInv' /\ GrantedInv'
  BY <1>2, <1>3, <1>5, PoolStays
<1>10. CountInv'
  <2>1. \A j \in {1, 2} : Claim(rq'[r], j) = Claim(rq[r], j)
    BY <1>1, <1>2 DEF Claim
  <2>. QED  BY <2>1, <1>2, <1>5, CountSame
<1>. QED  BY <1>3, <1>5, <1>6, <1>7, <1>8, <1>9, <1>10, MidStep

\* srv->open and srv->lopen.
LEMMA OpOpenKeeps ==
    ASSUME FidInv, NEW r \in Reqs, OpOpen(r)
    PROVE  FidInv'
<1>1. OpFacts(r) /\ rq[r].h.does = "open"
  BY OpKnown DEF OpOpen
<1>2. PICK mode \in {"read", "write"} :
        omode' = [omode EXCEPT ![rq[r].f] = mode] /\ rq' = [rq EXCEPT ![r].pc = "respond"]
  BY DEF OpOpen
<1>3. UNCHANGED <<pool, live, refs, type, user, granted>>
  BY DEF OpOpen
<1>4. /\ omode' \in [Mem -> Omodes] /\ type' \in [Mem -> SUBSET {"dir", "auth", "xattr"}]
      /\ \A x \in Mem : x # rq[r].f => omode'[x] = omode[x] /\ type'[x] = type[x]
  BY <1>2, <1>3 DEF FidInv, TypeOK, Omodes
<1>. QED  BY <1>1, <1>2, <1>3, <1>4, OwnOpKeeps

\* srv->create and srv->lcreate.
LEMMA OpCreateKeeps ==
    ASSUME FidInv, NEW r \in Reqs, OpCreate(r)
    PROVE  FidInv'
<1>1. OpFacts(r) /\ rq[r].h.does = "create"
  BY OpKnown DEF OpCreate
<1>2. PICK mode \in {"read", "write"}, t \in {{"dir"}, {}} :
        omode' = [omode EXCEPT ![rq[r].f] = mode] /\ type' = [type EXCEPT ![rq[r].f] = t]
  BY DEF OpCreate
<1>3. UNCHANGED <<pool, live, refs, user, granted>> /\ rq' = [rq EXCEPT ![r].pc = "respond"]
  BY DEF OpCreate
<1>4. /\ omode' \in [Mem -> Omodes] /\ type' \in [Mem -> SUBSET {"dir", "auth", "xattr"}]
      /\ \A x \in Mem : x # rq[r].f => omode'[x] = omode[x] /\ type'[x] = type[x]
  BY <1>2 DEF FidInv, TypeOK, Omodes
<1>. QED  BY <1>1, <1>3, <1>4, OwnOpKeeps

\* srv->xattrcreate.
LEMMA OpXattrcreateKeeps ==
    ASSUME FidInv, NEW r \in Reqs, OpXattrcreate(r)
    PROVE  FidInv'
<1>1. OpFacts(r) /\ rq[r].h.does = "xattrcreate"
  BY OpKnown DEF OpXattrcreate
<1>2. /\ type' = [type EXCEPT ![rq[r].f] = @ \cup {"xattr"}]
      /\ UNCHANGED <<pool, live, refs, omode, user, granted>> /\ rq' = [rq EXCEPT ![r].pc = "respond"]
  BY DEF OpXattrcreate
<1>3. /\ omode' \in [Mem -> Omodes] /\ type' \in [Mem -> SUBSET {"dir", "auth", "xattr"}]
      /\ \A x \in Mem : x # rq[r].f => omode'[x] = omode[x] /\ type'[x] = type[x]
  BY <1>2 DEF FidInv, TypeOK
<1>. QED  BY <1>1, <1>2, <1>3, OwnOpKeeps

\* np_clunk and np_remove give up the pool's reference, and keep the request's.
LEMMA OpClunkKeeps ==
    ASSUME FidInv, NEW r \in Reqs, OpClunk(r)
    PROVE  FidInv'
<1>. USE DEF OpFacts
<1>1. OpFacts(r) /\ rq[r].h.does \in {"clunk", "remove"}
  BY OpKnown DEF OpClunk
<1>2. /\ rq[r].h.first = "old" /\ rq[r].h.second = "none" /\ rq[r].n \in Owns(rq[r])
      /\ "auth" \notin type[rq[r].f] /\ rq[r].n \in granted
  BY <1>1, HandlerFacts DEF Owns, Changes, Exclusive, ToldInv, NumInv
<1>3. /\ refs' = [refs EXCEPT ![rq[r].f] = @ - 1]
      /\ rq' = [rq EXCEPT ![r].ok = TRUE, ![r].pc = "respond", ![r].zero = Zero(rq[r].f)]
      /\ Plain
  BY <1>1, <1>2 DEF OpClunk, np_fid_decref, Plain
<1>4. Kept(rq[r].n)
  <2>1. Takes(rq[r]) = {}
    BY <1>1 DEF Takes
  <2>. QED  BY <2>1, <1>1, <1>2, GrantedIsKept
<1>5. refs[rq[r].f] \in Nat \ {0} /\ Zero(rq[r].f) = None
  <2>1. Claim(rq[r], 1) = pool[rq[r].n]
    BY <1>1 DEF Claim
  <2>2. refs[pool[rq[r].n]] \in Nat \ {0} /\ refs[pool[rq[r].n]] # 1
    BY <1>1, <1>4, <2>1, RefCounted
  <2>. QED  BY <1>1, <2>2 DEF Zero
<1>6. /\ rq'[r].pc = "respond" /\ rq'[r].g = rq[r].g /\ rq'[r].f = rq[r].f /\ rq'[r].rf = rq[r].rf
      /\ rq'[r].zero = None /\ rq'[r].ok = TRUE
      /\ rq'[r].h = rq[r].h /\ rq'[r].n = rq[r].n /\ rq'[r].m = rq[r].m
      /\ \A s \in Reqs \ {r} : rq'[s] = rq[s]
  BY <1>1, <1>3, <1>5 DEF Request
<1>7. TypeOK'
  <2>1. rq' \in [Reqs -> Request]
    BY <1>1, <1>3, <1>5 DEF Request, Pcs, Pointers
  <2>2. refs' \in [Mem -> Nat]
    BY <1>1, <1>3, <1>5 DEF FidInv, TypeOK
  <2>. QED  BY <2>1, <2>2, <1>3 DEF FidInv, TypeOK, Plain
<1>8. Mid(r)
  BY <1>1, <1>3, <1>6 DEF Mid, Alone, Same, Plain
<1>9. FirstInv(rq[r])' /\ SecondInv(rq[r])' /\ AnswerInv(rq[r])'
  BY <1>1, <1>2, <1>3, <1>6 DEF Plain, FirstInv, SecondInv, AnswerInv
<1>10. PoolHas(rq[r])'
  BY <1>1, <1>2, <1>3, <1>6 DEF Plain, PoolHas, Takes
<1>11. ToldInv(rq[r])' /\ CheckedInv(rq[r])' /\ UserInv(rq[r])'
  BY <1>1, <1>2, <1>6, HandlerFacts DEF ToldInv, CheckedInv, UserInv, Gives
<1>12. PoolInv' /\ GrantedInv'
  BY <1>3, <1>6, <1>7, <1>8, PoolStays DEF Plain
<1>13. CountInv'
  <2>1. \A j \in {1, 2} : Claim(rq'[r], j) = Claim(rq[r], j)
    BY <1>1, <1>2, <1>6 DEF Claim
  <2>2. Gives(rq'[r]) = {} /\ Takes(rq'[r]) = {rq[r].n}
    BY <1>1, <1>2, <1>6 DEF Gives, Takes
  <2>. QED  BY <2>1, <2>2, <1>1, <1>2, <1>3, <1>4, <1>6, <1>8, PoolGives DEF Plain
<1>. QED  BY <1>7, <1>8, <1>9, <1>10, <1>11, <1>12, <1>13, MidStep

\* A handler that has made a fid has it constructed, and the pool's reference
\* is taken.
GrantStep(r, c) ==
    /\ OpFacts(r) /\ rq[r].h.does \in {"walk", "xattrwalk", "attach"}
    /\ c \in Nums /\ c \in Makes(rq[r])
    /\ c = IF rq[r].h.does = "attach" THEN rq[r].n ELSE rq[r].m
    /\ rq' = [rq EXCEPT ![r].ok = TRUE, ![r].pc = "done"]
    /\ type' \in [Mem -> SUBSET {"dir", "auth", "xattr"}]
    /\ user' \in [Mem -> BOOLEAN]
    /\ \A y \in Mem : y # pool[c] => type'[y] = type[y] /\ user'[y] = user[y]
    /\ user'[pool[c]]
    /\ refs' = [refs EXCEPT ![pool[c]] = @ + 1]
    /\ UNCHANGED <<pool, live, omode, granted>>
\* Such a step keeps the invariant.
LEMMA GrantKeeps ==
    ASSUME FidInv, NEW r \in Reqs, NEW c, GrantStep(r, c)
    PROVE  FidInv'
<1>. USE DEF OpFacts, GrantStep
<1>1. /\ rq[r].h.does = "attach" <=> rq[r].h.first = "new"
      /\ rq[r].h.first \in {"old", "new"} /\ rq[r].h.second \in {"new", "afid"}
      /\ rq[r].h.does = "attach" <=> rq[r].h.second = "afid"
      /\ rq[r].h.sets # "checked" /\ rq[r].h.does # "auth"
  BY HandlerFacts
<1>2. c \notin granted /\ pool[c] # None /\ pool[c] \in Mem /\ c \in Owns(rq[r])
      /\ (rq[r].h.does # "attach" => rq[r].m # rq[r].n)
  BY <1>1, NpFidAssumption DEF Makes, NumInv, Owns
<1>3. /\ rq'[r].pc = "done" /\ rq'[r].g = rq[r].g /\ rq'[r].f = rq[r].f /\ rq'[r].rf = rq[r].rf
      /\ rq'[r].zero = None /\ rq'[r].ok = TRUE
      /\ rq'[r].h = rq[r].h /\ rq'[r].n = rq[r].n /\ rq'[r].m = rq[r].m
      /\ \A s \in Reqs \ {r} : rq'[s] = rq[s]
  BY DEF Request
<1>4. TypeOK'
  <2>1. rq' \in [Reqs -> Request]
    BY DEF Request, Pcs
  <2>2. refs' \in [Mem -> Nat]
    BY <1>2 DEF FidInv, TypeOK
  <2>. QED  BY <2>1, <2>2 DEF FidInv, TypeOK
<1>5. \A k \in Nums : k # c => Same(k)
  BY <1>2 DEF Same, FidInv, TypeOK, PoolInv, Pointers
<1>6. Mid(r)
  BY <1>2, <1>3, <1>5 DEF Mid, Alone
<1>7. FirstInv(rq[r])' /\ SecondInv(rq[r])' /\ AnswerInv(rq[r])'
  BY <1>1, <1>2, <1>3 DEF FirstInv, SecondInv, AnswerInv
<1>8. PoolHas(rq[r])'
  BY <1>1, <1>2, <1>3 DEF PoolHas, Takes
<1>9. Gives(rq'[r]) = {c} /\ Takes(rq'[r]) = {} /\ Gives(rq[r])' = {c}
  BY <1>1, <1>3 DEF Gives, Takes
<1>10. ToldInv(rq[r])' /\ CheckedInv(rq[r])' /\ UserInv(rq[r])'
  BY <1>1, <1>3, <1>9 DEF ToldInv, CheckedInv, UserInv
<1>11. PoolInv' /\ GrantedInv'
  <2>1. \A n \in granted : pool[n] # None /\ user[pool[n]] => user'[pool[n]]
    BY <1>2, <1>5 DEF Same, FidInv, TypeOK
  <2>. QED  BY <2>1, <1>3, <1>4, <1>6, PoolStays
<1>12. CountInv'
  <2>1. \A j \in {1, 2} : Claim(rq'[r], j) = Claim(rq[r], j)
    BY <1>1, <1>3 DEF Claim
  <2>. QED  BY <2>1, <1>2, <1>3, <1>6, <1>9, PoolTakes
<1>. QED  BY <1>4, <1>6, <1>7, <1>8, <1>10, <1>11, <1>12, MidStep

\* A walk that goes nowhere new, or not all the way.
LEMMA WalkKeeps ==
    ASSUME FidInv, NEW r \in Reqs, OpFacts(r), rq[r].h.does = "walk",
           NEW full \in BOOLEAN, full => rq[r].m = rq[r].n,
           rq' = [rq EXCEPT ![r].ok = full, ![r].pc = "done"],
           type' \in [Mem -> SUBSET {"dir", "auth", "xattr"}],
           \A y \in Mem : y # rq[r].g => type'[y] = type[y],
           UNCHANGED <<pool, live, refs, omode, user, granted>>
    PROVE  FidInv'
<1>. USE DEF OpFacts
<1>1. /\ rq[r].h.first = "old" /\ rq[r].h.second = "new" /\ rq[r].h.sets = "found"
      /\ rq[r].m \in Nums /\ rq[r].m # None /\ rq[r].n \in granted /\ rq[r].m \in Owns(rq[r])
  BY HandlerFacts, NpFidAssumption DEF NumInv, Owns, Makes, Changes
<1>2. /\ rq'[r].pc = "done" /\ rq'[r].g = rq[r].g /\ rq'[r].f = rq[r].f /\ rq'[r].rf = rq[r].rf
      /\ rq'[r].zero = None /\ rq'[r].ok = full
      /\ rq'[r].h = rq[r].h /\ rq'[r].n = rq[r].n /\ rq'[r].m = rq[r].m
      /\ \A s \in Reqs \ {r} : rq'[s] = rq[s]
  BY DEF Request
<1>3. TypeOK'
  <2>1. rq' \in [Reqs -> Request]
    BY DEF Request, Pcs
  <2>. QED  BY <2>1 DEF FidInv, TypeOK
<1>4. \A k \in Nums : k # rq[r].m => Same(k)
  BY <1>1 DEF Same, FidInv, TypeOK, PoolInv, Pointers
<1>5. Mid(r)
  BY <1>1, <1>2, <1>4 DEF Mid, Alone
<1>6. FirstInv(rq[r])' /\ SecondInv(rq[r])' /\ AnswerInv(rq[r])'
  BY <1>1, <1>2 DEF FirstInv, SecondInv, AnswerInv
<1>7. PoolHas(rq[r])'
  BY <1>1, <1>2 DEF PoolHas, Takes
<1>8. Gives(rq'[r]) \subseteq {rq[r].n} /\ Takes(rq'[r]) = {} /\ Gives(rq[r])' = Gives(rq'[r])
  BY <1>1, <1>2 DEF Gives, Takes
<1>9. user[pool[rq[r].n]]
  BY <1>1 DEF FidInv, GrantedInv
<1>10. ToldInv(rq[r])' /\ CheckedInv(rq[r])' /\ UserInv(rq[r])'
  BY <1>1, <1>2, <1>8, <1>9 DEF ToldInv, CheckedInv, UserInv
<1>11. PoolInv' /\ GrantedInv'
  BY <1>2, <1>3, <1>5, PoolStays
<1>12. CountInv'
  <2>1. \A j \in {1, 2} : Claim(rq'[r], j) = Claim(rq[r], j)
    BY <1>1, <1>2 DEF Claim
  <2>2. \A y : Held(y)' = Held(y)
    BY <2>1, <1>5, HeldSame DEF Mid
  <2>3. Takes(rq[r]) = {}
    BY DEF Takes
  <2>4. Kept(rq[r].n)
    BY <1>1, <2>3, GrantedIsKept
  <2>5. \A n \in Nums : Kept(n)' <=> Kept(n)
    <3>. SUFFICES ASSUME NEW n \in Nums PROVE Kept(n)' <=> Kept(n)
      OBVIOUS
    <3>1. CASE n \in Gives(rq'[r])
      BY <3>1, <1>5, <1>8, <2>4, KeptTurns
    <3>2. CASE n \notin Gives(rq'[r])
      BY <3>2, <1>5, <1>8, KeptTurns
    <3>. QED  BY <3>1, <3>2
  <2>. QED  BY <2>2, <2>5 DEF FidInv, CountInv, One
<1>. QED  BY <1>3, <1>5, <1>6, <1>7, <1>10, <1>11, <1>12, MidStep

\* The walk, full or short.
LEMMA OpWalkKeeps ==
    ASSUME FidInv, NEW r \in Reqs, OpWalk(r)
    PROVE  FidInv'
<1>1. OpFacts(r) /\ rq[r].h.does = "walk"
  BY OpKnown DEF OpWalk, WalkWith
<1>2. rq[r].h.second = "new" /\ rq[r].m \in Nums /\ rq[r].g = pool[rq[r].m] /\ rq[r].g \in Mem
  BY <1>1, HandlerFacts DEF OpFacts
<1>3. UNCHANGED <<pool, live, omode, user, granted>>
  BY DEF OpWalk, WalkWith
<1>4. PICK full \in BOOLEAN, t \in {type[rq[r].g], {"dir"}, {}} :
        /\ type' = [x \in Mem |-> IF x \in {rq[r].g} THEN t ELSE type[x]]
        /\ IF full /\ rq[r].m # rq[r].n THEN np_fid_incref(rq[r].g) ELSE UNCHANGED refs
        /\ rq' = [rq EXCEPT ![r].ok = full, ![r].pc = "done"]
  BY DEF OpWalk, WalkWith
<1>5. /\ type' \in [Mem -> SUBSET {"dir", "auth", "xattr"}]
      /\ \A y \in Mem : y # rq[r].g => type'[y] = type[y]
  BY <1>2, <1>4 DEF FidInv, TypeOK
<1>6. CASE full /\ rq[r].m # rq[r].n
  <2>1. rq[r].m \in Makes(rq[r]) /\ user[rq[r].g]
    BY <1>1, <1>2, <1>6 DEF Makes, UserInv, OpFacts
  <2>2. refs' = [refs EXCEPT ![pool[rq[r].m]] = @ + 1]
    BY <1>2, <1>4, <1>6 DEF np_fid_incref
  <2>3. user' \in [Mem -> BOOLEAN]
    BY <1>3 DEF FidInv, TypeOK
  <2>4. GrantStep(r, rq[r].m)
    BY <1>1, <1>2, <1>3, <1>4, <1>5, <1>6, <2>1, <2>2, <2>3 DEF GrantStep
  <2>. QED  BY <2>4, GrantKeeps
<1>7. CASE ~(full /\ rq[r].m # rq[r].n)
  BY <1>1, <1>3, <1>4, <1>5, <1>7, WalkKeeps
<1>. QED  BY <1>6, <1>7

\* srv->xattrwalk.
LEMMA OpXattrwalkKeeps ==
    ASSUME FidInv, NEW r \in Reqs, OpXattrwalk(r)
    PROVE  FidInv'
<1>1. OpFacts(r) /\ rq[r].h.does = "xattrwalk"
  BY OpKnown DEF OpXattrwalk
<1>2. /\ rq[r].h.second = "new" /\ rq[r].m \in Nums /\ rq[r].g = pool[rq[r].m] /\ rq[r].g \in Mem
      /\ rq[r].m \in Makes(rq[r]) /\ user[rq[r].g]
  BY <1>1, HandlerFacts DEF OpFacts, Makes, UserInv
<1>3. /\ refs' = [refs EXCEPT ![pool[rq[r].m]] = @ + 1]
      /\ type' = [type EXCEPT ![rq[r].g] = {"xattr"}]
      /\ rq' = [rq EXCEPT ![r].ok = TRUE, ![r].pc = "done"]
      /\ UNCHANGED <<pool, live, omode, user, granted>>
  BY <1>2 DEF OpXattrwalk, np_fid_incref
<1>4. /\ type' \in [Mem -> SUBSET {"dir", "auth", "xattr"}] /\ user' \in [Mem -> BOOLEAN]
      /\ \A y \in Mem : y # rq[r].g => type'[y] = type[y] /\ user'[y] = user[y]
  BY <1>3 DEF FidInv, TypeOK
<1>5. GrantStep(r, rq[r].m)
  BY <1>1, <1>2, <1>3, <1>4 DEF GrantStep
<1>. QED  BY <1>5, GrantKeeps

\* srv->attach.
LEMMA OpAttachKeeps ==
    ASSUME FidInv, NEW r \in Reqs, OpAttach(r)
    PROVE  FidInv'
<1>1. OpFacts(r) /\ rq[r].h.does = "attach"
  BY OpKnown DEF OpAttach
<1>2. /\ rq[r].h.first = "new" /\ rq[r].n \in Nums /\ rq[r].f = pool[rq[r].n] /\ rq[r].f \in Mem
      /\ rq[r].n \in Makes(rq[r])
  BY <1>1, HandlerFacts DEF OpFacts, Makes
<1>3. /\ refs' = [refs EXCEPT ![pool[rq[r].n]] = @ + 1]
      /\ user' = [user EXCEPT ![rq[r].f] = TRUE]
      /\ type' = [type EXCEPT ![rq[r].f] = {"dir"}]
      /\ rq' = [rq EXCEPT ![r].ok = TRUE, ![r].pc = "done"]
      /\ UNCHANGED <<pool, live, omode, granted>>
  BY <1>2 DEF OpAttach, np_fid_incref
<1>4. /\ type' \in [Mem -> SUBSET {"dir", "auth", "xattr"}] /\ user' \in [Mem -> BOOLEAN]
      /\ \A y \in Mem : y # rq[r].f => type'[y] = type[y] /\ user'[y] = user[y]
      /\ user'[rq[r].f]
  BY <1>2, <1>3 DEF FidInv, TypeOK
<1>5. GrantStep(r, rq[r].n)
  BY <1>1, <1>2, <1>3, <1>4 DEF GrantStep
<1>. QED  BY <1>5, GrantKeeps

\* np_auth leaves its reference to the pool.
LEMMA OpAuthKeeps ==
    ASSUME FidInv, NEW r \in Reqs, OpAuth(r)
    PROVE  FidInv'
<1>. USE DEF OpFacts
<1>1. OpFacts(r) /\ rq[r].h.does = "auth"
  BY OpKnown DEF OpAuth
<1>2. /\ rq[r].h.first = "new" /\ rq[r].h.second = "none" /\ rq[r].h.sets = "never"
      /\ rq[r].n \notin granted /\ rq[r].n \in Makes(rq[r]) /\ rq[r].n \in Owns(rq[r])
  BY <1>1, HandlerFacts DEF NumInv, Makes, Owns
<1>3. /\ user' = [user EXCEPT ![rq[r].f] = TRUE]
      /\ type' = [type EXCEPT ![rq[r].f] = {"auth"}]
      /\ rq' = [rq EXCEPT ![r].ok = TRUE, ![r].pc = "respond"]
      /\ UNCHANGED <<pool, live, refs, omode, granted>>
  BY DEF OpAuth
<1>4. /\ rq'[r].pc = "respond" /\ rq'[r].g = rq[r].g /\ rq'[r].f = rq[r].f /\ rq'[r].rf = rq[r].rf
      /\ rq'[r].zero = None /\ rq'[r].ok = TRUE
      /\ rq'[r].h = rq[r].h /\ rq'[r].n = rq[r].n /\ rq'[r].m = rq[r].m
      /\ \A s \in Reqs \ {r} : rq'[s] = rq[s]
  BY <1>1, <1>3 DEF Request
<1>5. TypeOK'
  <2>1. rq' \in [Reqs -> Request]
    BY <1>1, <1>3 DEF Request, Pcs
  <2>. QED  BY <2>1, <1>1, <1>3 DEF FidInv, TypeOK
<1>6. \A k \in Nums : k # rq[r].n => Same(k)
  BY <1>1, <1>3 DEF Same, FidInv, TypeOK, PoolInv, Pointers
<1>7. Mid(r)
  BY <1>1, <1>2, <1>3, <1>4, <1>6 DEF Mid, Alone
<1>8. FirstInv(rq[r])' /\ SecondInv(rq[r])' /\ AnswerInv(rq[r])'
  BY <1>1, <1>2, <1>3, <1>4 DEF FirstInv, SecondInv, AnswerInv
<1>9. PoolHas(rq[r])'
  BY <1>1, <1>2, <1>3, <1>4 DEF PoolHas, Takes
<1>10. Gives(rq'[r]) = {rq[r].n} /\ Takes(rq'[r]) = {} /\ Gives(rq[r])' = {rq[r].n}
  BY <1>1, <1>2, <1>4 DEF Gives, Takes
<1>11. ToldInv(rq[r])' /\ CheckedInv(rq[r])' /\ UserInv(rq[r])'
  BY <1>1, <1>2, <1>3, <1>4, <1>10 DEF ToldInv, CheckedInv, UserInv, FidInv, TypeOK
<1>12. PoolInv' /\ GrantedInv'
  <2>1. \A n \in granted : pool[n] # None /\ user[pool[n]] => user'[pool[n]]
    BY <1>2, <1>6 DEF Same, FidInv, TypeOK
  <2>. QED  BY <2>1, <1>3, <1>4, <1>5, <1>7, PoolStays
<1>13. CountInv'
  <2>. PICK x \in Mem : x = rq[r].f
    BY <1>1
  <2>1. Claim(rq[r], 1) = x /\ Claim(rq'[r], 1) = None /\ Claim(rq'[r], 2) = Claim(rq[r], 2)
    BY <1>1, <1>2, <1>4 DEF Claim
  <2>2. /\ Cardinality(Held(x)) = Cardinality(Held(x)') + 1
        /\ Cardinality(Held(x)') \in Nat
        /\ \A y \in Mem \ {x} : Held(y)' = Held(y)
    BY <1>7, <2>1, HeldDrop
  <2>3. (\A n \in Nums : n # rq[r].n => (Kept(n)' <=> Kept(n))) /\ Kept(rq[r].n)'
    BY <1>1, <1>4, <1>7, <1>10, KeptTurns
  <2>4. ~Kept(rq[r].n)
    BY <1>1, <1>2, NotKept
  <2>5. \A n \in Nums : n # rq[r].n /\ pool[n] # None => pool[n] \in Mem \ {x}
    BY <1>1 DEF FidInv, PoolInv, TypeOK, Pointers
  <2>6. \A n \in Nums : n # rq[r].n /\ pool[n] # None =>
          refs[pool[n]] = One(Kept(n)') + Cardinality(Held(pool[n])')
    <3>1. \A n \in Nums : n # rq[r].n /\ pool[n] # None => Held(pool[n])' = Held(pool[n])
      BY <2>2, <2>5, <1>3
    <3>. QED  BY <3>1, <2>3 DEF FidInv, CountInv, One
  <2>7. refs[x] = One(Kept(rq[r].n)) + Cardinality(Held(x))
    BY <1>1 DEF FidInv, CountInv
  <2>8. refs[x] = 1 + Cardinality(Held(x)')
    BY <2>2, <2>4, <2>7 DEF One
  <2>9. \A n \in Nums : n = rq[r].n => Kept(n)' /\ pool[n] = x
    BY <2>3, <1>1, <1>4 DEF Kept
  <2>10. \A n \in Nums : pool[n] # None =>
          refs[pool[n]] = One(Kept(n)') + Cardinality(Held(pool[n])')
    <3>1. \A n \in Nums : n = rq[r].n => Held(pool[n])' = Held(x)'
      BY <2>9, <1>3 DEF Held
    <3>. QED  BY <2>6, <2>8, <2>9, <3>1 DEF One
  <2>. QED  BY <2>10, <1>3 DEF CountInv
<1>. QED  BY <1>5, <1>7, <1>8, <1>9, <1>11, <1>12, <1>13, MidStep

----------------------------------------------------------------------------
(* The answer *)

\* The handler gives up the second fid, and a fid it made for nothing goes.
LEMMA DoneKeeps ==
    ASSUME FidInv, NEW r \in Reqs, Done(r)
    PROVE  FidInv'
<1>1. rq[r].pc = "done" /\ rq[r].zero = None /\ rq[r].pc # "idle"
  BY DEF Done, At
<1>2. /\ NumInv(rq[r]) /\ FirstInv(rq[r]) /\ SecondInv(rq[r]) /\ AnswerInv(rq[r]) /\ PoolHas(rq[r])
      /\ UserInv(rq[r]) /\ rq[r].h \in Handlers /\ rq[r] \in Request
      /\ rq[r].n \in Nums /\ rq[r].m \in Nums \cup {None} /\ rq[r].g \in Pointers
  BY <1>1, Known
<1>3. /\ rq[r].f = pool[rq[r].n] /\ rq[r].f # None
      /\ rq[r].rf = IF rq[r].h.does = "auth" THEN None ELSE rq[r].f
  BY <1>1, <1>2 DEF FirstInv
<1>4. /\ rq[r].h.first \in {"old", "new"} /\ rq[r].h.second \in {"none", "old", "new", "afid"}
      /\ rq[r].h.first = "new" <=> rq[r].h.does \in {"attach", "auth"}
      /\ rq[r].h.second = "none" <=> rq[r].h.does = "auth"
      /\ rq[r].h.second = "afid" <=> rq[r].h.does = "attach"
      /\ rq[r].h.second = "new" <=> rq[r].h.does \in {"walk", "xattrwalk"}
      /\ rq[r].h.does \notin {"clunk", "remove"}
      /\ rq[r].h.second = "none" => rq[r].m = None
  BY <1>1, <1>2, HandlerFacts DEF SecondInv, NumInv
\* The number of the second fid; np_auth has its own in its place.
<1>. DEFINE c == IF rq[r].h.does = "auth" THEN rq[r].n ELSE rq[r].m
<1>5. /\ c # None => c \in Nums /\ rq[r].g = pool[c] /\ rq[r].g # None /\ rq[r].g \in Mem
      /\ c = None => rq[r].g = None
      /\ c \in {rq[r].n, rq[r].m}
  BY <1>1, <1>2, <1>3, <1>4, NpFidAssumption DEF SecondInv, NumInv, Pointers
\* Whether it is to go.
<1>. DEFINE goes == ~rq[r].ok /\ (rq[r].h.does = "auth" \/ (rq[r].h.second = "new" /\ rq[r].m # rq[r].n))
<1>6. c # None => refs[rq[r].g] \in Nat \ {0} /\ (refs[rq[r].g] = 1 <=> goes)
  <2>. SUFFICES ASSUME c # None PROVE refs[pool[c]] \in Nat \ {0} /\ (refs[pool[c]] = 1 <=> goes)
    BY <1>5
  <2>1. Claim(rq[r], 2) = pool[c] /\ Claim(rq[r], 3 - 2) = rq[r].rf
    BY <1>1, <1>5 DEF Claim
  <2>2. refs[pool[c]] \in Nat \ {0}
    BY <2>1, <1>5, RefCounted
  <2>3. ASSUME goes PROVE refs[pool[c]] = 1
    <3>1. c \in Makes(rq[r]) /\ c \notin granted /\ c \in Owns(rq[r])
      BY <2>3, <1>2, <1>4 DEF Makes, Owns, NumInv
    <3>2. ~Kept(c)
      BY <3>1, <2>3, <1>1, NotKept
    <3>3. rq[r].rf # pool[c]
      BY <2>3, <1>2, <1>3, <1>4, <1>5 DEF FidInv, PoolInv
    <3>. QED  BY <1>1, <1>5, <2>1, <3>1, <3>2, <3>3, RefCounted
  <2>4. ASSUME ~goes PROVE refs[pool[c]] # 1
    <3>1. CASE rq[r].h.second = "new" /\ rq[r].m = rq[r].n
      <4>1. Claim(rq[r], 3 - 2) = pool[c]
        BY <3>1, <2>1, <1>3, <1>4
      <4>. QED  BY <4>1, <2>1, <1>5, RefCounted
    <3>2. CASE ~(rq[r].h.second = "new" /\ rq[r].m = rq[r].n)
      <4>1. Kept(c)
        <5>1. CASE rq[r].ok
          <6>1. c \in Gives(rq[r]) \/ (rq[r].h.does = "attach" /\ c = rq[r].m)
            BY <3>2, <5>1, <1>1, <1>2, <1>4 DEF AnswerInv, Gives
          <6>2. Takes(rq[r]) = {} /\ (rq[r].h.does = "attach" => c \in granted)
            BY <1>2, <1>4 DEF Takes, NumInv
          <6>. QED  BY <6>1, <6>2, <1>1, <1>5, GrantedIsKept DEF Kept
        <5>2. CASE ~rq[r].ok
          <6>1. Takes(rq[r]) = {} /\ c \in granted
            BY <2>4, <3>2, <5>2, <1>2, <1>4 DEF Takes, NumInv
          <6>. QED  BY <6>1, <1>1, <1>5, GrantedIsKept
        <5>. QED  BY <5>1, <5>2
      <4>. QED  BY <4>1, <2>1, <1>5, RefCounted
    <3>. QED  BY <3>1, <3>2
  <2>. QED  BY <2>2, <2>3, <2>4
<1>7. Zero(rq[r].g) = IF goes THEN rq[r].g ELSE None
  <2>1. goes => c # None
    BY <1>2, <1>4, NpFidAssumption DEF NumInv
  <2>. QED  BY <2>1, <1>5, <1>6 DEF Zero
<1>8. /\ rq'[r].pc = "respond" /\ rq'[r].zero = (IF goes THEN rq[r].g ELSE None)
      /\ rq'[r].g = rq[r].g /\ rq'[r].f = rq[r].f /\ rq'[r].rf = rq[r].rf /\ rq'[r].ok = rq[r].ok
      /\ rq'[r].h = rq[r].h /\ rq'[r].n = rq[r].n /\ rq'[r].m = rq[r].m
      /\ \A s \in Reqs \ {r} : rq'[s] = rq[s]
  BY <1>2, <1>7 DEF Done, FidInv, TypeOK, Request
<1>9. /\ Plain /\ (c = None => refs' = refs)
      /\ c # None => refs' = [refs EXCEPT ![pool[c]] = @ - 1]
  BY <1>5 DEF Done, Plain, np_fid_decref
<1>10. TypeOK'
  <2>1. rq' \in [Reqs -> Request]
    <3>1. Zero(rq[r].g) \in Pointers
      BY <1>2, <1>7 DEF Pointers
    <3>. QED  BY <1>2, <3>1 DEF Done, FidInv, TypeOK, Request, Pcs
  <2>2. refs' \in [Mem -> Nat]
    BY <1>5, <1>6, <1>9 DEF FidInv, TypeOK
  <2>. QED  BY <2>1, <2>2, <1>9 DEF FidInv, TypeOK, Plain
<1>11. Mid(r)
  BY <1>1, <1>8, <1>9 DEF Mid, Alone, Same, Plain
<1>12. FirstInv(rq[r])' /\ SecondInv(rq[r])'
  BY <1>3, <1>8, <1>9 DEF Plain, FirstInv, SecondInv
<1>13. AnswerInv(rq[r])'
  BY <1>1, <1>2, <1>4, <1>5, <1>8, <1>9, NpFidAssumption DEF Plain, AnswerInv
<1>14. PoolHas(rq[r])'
  <2>1. goes => rq'[r].zero # None
    BY <1>2, <1>4, <1>5, <1>8, NpFidAssumption DEF NumInv
  <2>2. pool' = pool
    BY <1>9 DEF Plain
  <2>3. rq[r].h.second = "new" /\ rq[r].m # rq[r].n => pool[rq[r].m] # None
    BY <1>1, <1>2, <1>5 DEF PoolHas
  <2>4. rq[r].h.second \in {"old", "afid"} /\ rq[r].m # None => pool[rq[r].m] # None
    BY <1>2 DEF PoolHas
  <2>. HIDE DEF c
  <2>. QED  BY <1>3, <1>4, <1>8, <2>1, <2>2, <2>3, <2>4 DEF PoolHas
<1>15. ToldInv(rq[r])' /\ CheckedInv(rq[r])' /\ UserInv(rq[r])'
  BY <1>2, <1>4, <1>8, <1>9 DEF Plain, ToldInv, CheckedInv, UserInv, Gives
<1>16. PoolInv' /\ GrantedInv'
  BY <1>8, <1>9, <1>10, <1>11, PoolStays DEF Plain
<1>17. CountInv'
  <2>1. Claim(rq'[r], 1) = Claim(rq[r], 1) /\ Claim(rq'[r], 2) = None /\ Claim(rq[r], 2) = rq[r].g
    BY <1>1, <1>8 DEF Claim
  <2>2. CASE c = None
    <3>1. \A j \in {1, 2} : Claim(rq'[r], j) = Claim(rq[r], j)
      BY <2>1, <2>2, <1>5
    <3>. QED  BY <3>1, <2>2, <1>8, <1>9, <1>11, CountSame DEF Plain
  <2>3. CASE c # None
    <3>1. \A j \in {1, 2} \ {2} : Claim(rq'[r], j) = Claim(rq[r], j)
      BY <2>1
    <3>. QED  BY <3>1, <2>1, <2>3, <1>5, <1>8, <1>9, <1>11, RefGiven DEF Plain
  <2>. QED  BY <2>2, <2>3
<1>. QED  BY <1>10, <1>11, <1>12, <1>13, <1>14, <1>15, <1>16, <1>17, MidStep

\* np_fid_destroy: the fid that had its last reference given up.
LEMMA DestroyKeeps ==
    ASSUME FidInv, NEW r \in Reqs, np_fid_destroy(r)
    PROVE  FidInv'
<1>1. rq[r].zero # None /\ rq[r].pc # "idle"
  BY DEF np_fid_destroy, FidInv, IdleInv, Idle
<1>2. /\ NumInv(rq[r]) /\ FirstInv(rq[r]) /\ SecondInv(rq[r]) /\ AnswerInv(rq[r]) /\ PoolHas(rq[r])
      /\ UserInv(rq[r]) /\ rq[r].h \in Handlers /\ rq[r] \in Request
      /\ rq[r].n \in Nums /\ rq[r].m \in Nums \cup {None} /\ rq[r].zero \in Pointers
  BY <1>1, Known
<1>3. /\ rq[r].h.first \in {"old", "new"} /\ rq[r].h.second \in {"none", "old", "new", "afid"}
      /\ rq[r].h.first = "new" <=> rq[r].h.does \in {"attach", "auth"}
      /\ rq[r].h.second = "afid" <=> rq[r].h.does = "attach"
      /\ rq[r].h.second = "new" <=> rq[r].h.does \in {"walk", "xattrwalk"}
      /\ rq[r].h.second = "old" => rq[r].h.does = "nothing"
  BY <1>2, HandlerFacts
<1>. DEFINE c == IF rq[r].h.second = "new" THEN rq[r].m ELSE rq[r].n
<1>4. /\ c \in Nums /\ rq[r].zero = pool[c] /\ rq[r].zero \in Mem /\ c \in Owns(rq[r])
      /\ rq[r].pc \in {"respond", "reply"}
      /\ rq[r].h.second = "new" => rq[r].pc = "respond" /\ rq[r].m # rq[r].n /\ ~rq[r].ok
      /\ rq[r].pc = "respond" => ~rq[r].ok /\ (rq[r].h.does = "auth" \/ rq[r].h.second = "new")
      /\ rq[r].pc = "reply" => (rq[r].h.does = "attach" /\ ~rq[r].ok)
                               \/ (rq[r].h.does \in {"clunk", "remove"} /\ rq[r].ok)
  BY <1>1, <1>2, <1>3 DEF AnswerInv, NumInv, Owns, Makes, Changes, Exclusive, Pointers
<1>5. c \in granted => c \in Takes(rq[r])
  BY <1>2, <1>3, <1>4 DEF NumInv, Takes
<1>. HIDE DEF c
<1>. PICK x \in Mem : x = rq[r].zero
  BY <1>4
<1>6. /\ pool' = [n \in Nums |-> IF pool[n] = x THEN None ELSE pool[n]]
      /\ live' = live \ {x}
      /\ refs' = [refs EXCEPT ![x] = 0] /\ type' = [type EXCEPT ![x] = {}]
      /\ omode' = [omode EXCEPT ![x] = "closed"] /\ user' = [user EXCEPT ![x] = FALSE]
      /\ rq' = [rq EXCEPT ![r].zero = None] /\ granted' = granted
  BY DEF np_fid_destroy
<1>7. /\ pool'[c] = None
      /\ \A k \in Nums : k # c => pool'[k] = pool[k] /\ pool[k] # x
  BY <1>1, <1>4, <1>6 DEF FidInv, PoolInv
<1>8. /\ rq'[r].pc = rq[r].pc /\ rq'[r].zero = None /\ rq'[r].ok = rq[r].ok
      /\ rq'[r].g = rq[r].g /\ rq'[r].f = rq[r].f /\ rq'[r].rf = rq[r].rf
      /\ rq'[r].h = rq[r].h /\ rq'[r].n = rq[r].n /\ rq'[r].m = rq[r].m
      /\ \A s \in Reqs \ {r} : rq'[s] = rq[s]
  BY <1>2, <1>6 DEF FidInv, TypeOK, Request
<1>9. TypeOK'
  <2>1. rq' \in [Reqs -> Request]
    BY <1>2, <1>6 DEF FidInv, TypeOK, Request, Pointers
  <2>. QED  BY <2>1, <1>6 DEF FidInv, TypeOK, Pointers, Omodes
<1>10. \A k \in Nums : k # c => Same(k)
  BY <1>6, <1>7 DEF Same, FidInv, TypeOK, Pointers
<1>11. Mid(r)
  BY <1>1, <1>4, <1>6, <1>8, <1>10 DEF Mid, Alone
<1>12. /\ rq[r].h.second = "new" => pool'[rq[r].n] = pool[rq[r].n] /\ pool'[rq[r].m] = None
       /\ rq[r].h.second # "new" => pool'[rq[r].n] = None
       /\ rq[r].h.second \in {"old", "afid"} /\ rq[r].m # None => pool'[rq[r].m] = pool[rq[r].m]
  BY <1>2, <1>3, <1>4, <1>7 DEF c, NumInv
<1>13. FirstInv(rq[r])' /\ SecondInv(rq[r])' /\ AnswerInv(rq[r])'
  BY <1>2, <1>3, <1>4, <1>8, <1>12 DEF FirstInv, SecondInv, AnswerInv
<1>14. PoolHas(rq[r])'
  BY <1>1, <1>2, <1>3, <1>4, <1>8, <1>12 DEF PoolHas, Takes
<1>15. ToldInv(rq[r])' /\ CheckedInv(rq[r])' /\ UserInv(rq[r])'
  BY <1>3, <1>4, <1>8 DEF ToldInv, CheckedInv, UserInv, Gives
<1>16. PoolInv'
  <2>1. Busy' = Busy /\ \A s \in Reqs : Makes(rq[s])' = Makes(rq[s])
    BY <1>9, <1>11, MidKeeps
  <2>2. \A n, k \in Nums : pool'[n] # None /\ pool'[n] = pool'[k] => n = k
    BY <1>7 DEF FidInv, PoolInv
  <2>3. live' = {pool'[n] : n \in Nums} \ {None}
    BY <1>4, <1>6, <1>7 DEF FidInv, PoolInv
  <2>4. \A n \in Nums : pool'[n] # None => n \in granted' \/ \E s \in Busy' : n \in Makes(rq[s])'
    BY <1>6, <1>7, <2>1 DEF FidInv, PoolInv, Busy
  <2>. QED  BY <2>2, <2>3, <2>4 DEF PoolInv
<1>17. GrantedInv'
  <2>1. Busy' = Busy /\ \A s \in Reqs : Takes(rq[s])' = Takes(rq[s])
    BY <1>8, <1>9, <1>11, MidKeeps DEF Takes
  <2>2. r \in Busy
    BY <1>1 DEF Busy
  <2>3. \A k \in granted : k \in Nums /\ (k # c /\ pool[k] # None => user'[pool[k]] = user[pool[k]])
    BY <1>10 DEF FidInv, TypeOK, Same
  <2>4. \A k \in granted : pool'[k] = None => \E s \in Busy : k \in Takes(rq[s])
    BY <1>5, <1>7, <2>2, <2>3 DEF FidInv, GrantedInv
  <2>5. \A k \in granted : pool'[k] # None => user'[pool'[k]]
    BY <1>7, <2>3 DEF FidInv, GrantedInv
  <2>6. \A s \in Busy : s \in Reqs
    BY DEF Busy
  <2>. QED  BY <1>6, <2>1, <2>4, <2>5, <2>6 DEF GrantedInv
<1>18. CountInv'
  <2>1. \A j \in {1, 2} : Claim(rq'[r], j) = Claim(rq[r], j)
    BY <1>8 DEF Claim
  <2>2. \A y : Held(y)' = Held(y)
    BY <2>1, <1>11, HeldSame DEF Mid
  <2>3. \A n \in Nums : Kept(n)' <=> Kept(n)
    BY <1>8, <1>11, KeptSame
  <2>4. \A k \in Nums : k # c /\ pool[k] # None => refs'[pool[k]] = refs[pool[k]]
    BY <1>6, <1>7 DEF FidInv, TypeOK, Pointers
  <2>. QED  BY <1>7, <2>2, <2>3, <2>4 DEF FidInv, CountInv, One
<1>. QED  BY <1>9, <1>11, <1>13, <1>14, <1>15, <1>16, <1>17, <1>18, MidStep

\* np_respond gives up req->fid, and a fid that was made for nothing or is
\* clunked goes.
LEMMA RespondKeeps ==
    ASSUME FidInv, NEW r \in Reqs, Respond(r)
    PROVE  FidInv'
<1>1. rq[r].pc = "respond" /\ rq[r].zero = None /\ rq[r].pc # "idle"
  BY DEF Respond, At
<1>2. /\ NumInv(rq[r]) /\ FirstInv(rq[r]) /\ SecondInv(rq[r]) /\ AnswerInv(rq[r]) /\ PoolHas(rq[r])
      /\ UserInv(rq[r]) /\ rq[r].h \in Handlers /\ rq[r] \in Request
      /\ rq[r].n \in Nums /\ rq[r].m \in Nums \cup {None} /\ rq[r].rf \in Pointers
  BY <1>1, Known
<1>3. /\ rq[r].h.first \in {"old", "new"} /\ rq[r].h.second \in {"none", "old", "new", "afid"}
      /\ rq[r].h.first = "new" <=> rq[r].h.does \in {"attach", "auth"}
      /\ rq[r].h.second = "afid" <=> rq[r].h.does = "attach"
      /\ rq[r].h.second = "new" <=> rq[r].h.does \in {"walk", "xattrwalk"}
      /\ rq[r].h.second = "old" => rq[r].h.does = "nothing"
  BY <1>2, HandlerFacts
<1>4. /\ rq[r].h.does = "auth" => rq[r].rf = None
      /\ rq[r].h.does # "auth" => rq[r].rf = pool[rq[r].n] /\ rq[r].rf # None /\ rq[r].rf \in Mem
  BY <1>1, <1>2, <1>3 DEF FirstInv, PoolHas, Pointers
<1>. DEFINE goes == \/ rq[r].h.does = "attach" /\ ~rq[r].ok
                    \/ rq[r].h.does \in {"clunk", "remove"} /\ rq[r].ok
<1>5. rq[r].h.does # "auth" => refs[rq[r].rf] \in Nat \ {0} /\ (refs[rq[r].rf] = 1 <=> goes)
  <2>. SUFFICES ASSUME rq[r].h.does # "auth"
                PROVE  refs[pool[rq[r].n]] \in Nat \ {0} /\ (refs[pool[rq[r].n]] = 1 <=> goes)
    BY <1>4
  <2>1. Claim(rq[r], 1) = pool[rq[r].n] /\ Claim(rq[r], 3 - 1) = None /\ pool[rq[r].n] # None
    BY <1>1, <1>4 DEF Claim
  <2>2. refs[pool[rq[r].n]] \in Nat \ {0}
    BY <2>1, <1>2, RefCounted
  <2>3. ASSUME goes PROVE refs[pool[rq[r].n]] = 1
    <3>1. /\ rq[r].n \in Owns(rq[r]) /\ rq[r].n \notin Gives(rq[r])
          /\ rq[r].n \notin granted \/ rq[r].n \in Takes(rq[r])
      BY <2>3, <1>2, <1>3 DEF Owns, Makes, Changes, Exclusive, Gives, Takes, NumInv
    <3>2. ~Kept(rq[r].n)
      BY <3>1, <1>1, OwnNotKept
    <3>. QED  BY <1>1, <1>2, <2>1, <3>1, <3>2, RefCounted
  <2>4. ASSUME ~goes PROVE refs[pool[rq[r].n]] # 1
    <3>1. Kept(rq[r].n)
      <4>1. CASE rq[r].h.does = "attach"
        <5>1. rq[r].n \in Gives(rq[r])
          BY <4>1, <2>4, <1>3 DEF Gives
        <5>. QED  BY <5>1 DEF Kept
      <4>2. CASE rq[r].h.does # "attach"
        <5>1. rq[r].n \in granted /\ rq[r].n \notin Takes(rq[r])
          BY <4>2, <2>4, <1>2, <1>3 DEF NumInv, Takes
        <5>. QED  BY <5>1, <1>1, GrantedIsKept
      <4>. QED  BY <4>1, <4>2
    <3>. QED  BY <3>1, <2>1, <1>2, RefCounted
  <2>. QED  BY <2>2, <2>3, <2>4
<1>6. Zero(rq[r].rf) = IF goes THEN rq[r].rf ELSE None
  BY <1>4, <1>5 DEF Zero
<1>7. /\ rq'[r].pc = "reply" /\ rq'[r].zero = (IF goes THEN rq[r].rf ELSE None)
      /\ rq'[r].g = None /\ rq'[r].f = None /\ rq'[r].rf = None /\ rq'[r].ok = rq[r].ok
      /\ rq'[r].h = rq[r].h /\ rq'[r].n = rq[r].n /\ rq'[r].m = rq[r].m
      /\ \A s \in Reqs \ {r} : rq'[s] = rq[s]
  BY <1>2, <1>6 DEF Respond, FidInv, TypeOK, Request
<1>8. /\ Plain /\ (rq[r].h.does = "auth" => refs' = refs)
      /\ rq[r].h.does # "auth" => refs' = [refs EXCEPT ![pool[rq[r].n]] = @ - 1]
  BY <1>4 DEF Respond, Plain, np_fid_decref
<1>9. TypeOK'
  <2>1. rq' \in [Reqs -> Request]
    <3>1. Zero(rq[r].rf) \in Pointers /\ None \in Pointers
      BY <1>2, <1>6 DEF Pointers
    <3>. QED  BY <1>2, <3>1 DEF Respond, FidInv, TypeOK, Request, Pcs
  <2>2. refs' \in [Mem -> Nat]
    BY <1>4, <1>5, <1>8 DEF FidInv, TypeOK
  <2>. QED  BY <2>1, <2>2, <1>8 DEF FidInv, TypeOK, Plain
<1>10. Mid(r)
  BY <1>1, <1>7, <1>8 DEF Mid, Alone, Same, Plain
<1>11. FirstInv(rq[r])' /\ SecondInv(rq[r])' /\ AnswerInv(rq[r])'
  BY <1>1, <1>2, <1>3, <1>4, <1>7, <1>8 DEF Plain, FirstInv, SecondInv, AnswerInv
<1>12. PoolHas(rq[r])'
  BY <1>1, <1>2, <1>3, <1>4, <1>7, <1>8 DEF Plain, PoolHas, Takes
<1>13. ToldInv(rq[r])' /\ CheckedInv(rq[r])' /\ UserInv(rq[r])'
  BY <1>2, <1>7, <1>8 DEF Plain, ToldInv, CheckedInv, UserInv, Gives
<1>14. PoolInv' /\ GrantedInv'
  BY <1>7, <1>8, <1>9, <1>10, PoolStays DEF Plain
<1>15. CountInv'
  <2>1. /\ Claim(rq'[r], 2) = None /\ Claim(rq[r], 2) = None
        /\ Claim(rq'[r], 1) = None /\ Claim(rq[r], 1) = rq[r].rf
    BY <1>1, <1>7 DEF Claim
  <2>2. CASE rq[r].h.does = "auth"
    <3>1. \A j \in {1, 2} : Claim(rq'[r], j) = Claim(rq[r], j)
      BY <2>1, <2>2, <1>4
    <3>. QED  BY <3>1, <2>2, <1>7, <1>8, <1>10, CountSame DEF Plain
  <2>3. CASE rq[r].h.does # "auth"
    <3>1. \A j \in {1, 2} \ {1} : Claim(rq'[r], j) = Claim(rq[r], j)
      BY <2>1
    <3>. QED  BY <3>1, <2>1, <2>3, <1>2, <1>4, <1>7, <1>8, <1>10, RefGiven DEF Plain
  <2>. QED  BY <2>2, <2>3
<1>. QED  BY <1>9, <1>10, <1>11, <1>12, <1>13, <1>14, <1>15, MidStep

\* The answer is written: the client learns what was given and taken.
LEMMA ReplyKeeps ==
    ASSUME FidInv, NEW r \in Reqs, Reply(r)
    PROVE  FidInv'
<1>1. rq[r].pc = "reply" /\ rq[r].zero = None /\ rq[r].pc # "idle"
  BY DEF Reply, At
<1>2. /\ NumInv(rq[r]) /\ FirstInv(rq[r]) /\ SecondInv(rq[r]) /\ AnswerInv(rq[r]) /\ PoolHas(rq[r])
      /\ UserInv(rq[r]) /\ rq[r].h \in Handlers /\ rq[r] \in Request
      /\ rq[r].n \in Nums /\ rq[r].m \in Nums \cup {None}
  BY <1>1, Known
<1>3. /\ rq[r].h.first \in {"old", "new"} /\ rq[r].h.second \in {"none", "old", "new", "afid"}
      /\ rq[r].h.first = "new" <=> rq[r].h.does \in {"attach", "auth"}
      /\ rq[r].h.second = "afid" <=> rq[r].h.does = "attach"
      /\ rq[r].h.second = "new" <=> rq[r].h.does \in {"walk", "xattrwalk"}
      /\ rq[r].h.second = "old" => rq[r].h.does = "nothing"
  BY <1>2, HandlerFacts
<1>4. /\ UNCHANGED <<pool, live, refs, type, omode, user>>
      /\ rq' = [rq EXCEPT ![r] = Idle]
      /\ granted' = (granted \cup Gives(rq[r])) \ Takes(rq[r])
  <2>1. GrantedAfter(r) = (granted \cup Gives(rq[r])) \ Takes(rq[r])
    BY <1>2, <1>3 DEF GrantedAfter, Gives, Takes, NumInv
  <2>. QED  BY <2>1 DEF Reply, fidVars
<1>5. rq'[r] = Idle /\ \A s \in Reqs \ {r} : rq'[s] = rq[s]
  BY <1>4 DEF FidInv, TypeOK
<1>6. /\ Gives(rq[r]) \subseteq Owns(rq[r]) \cap Nums /\ Takes(rq[r]) \subseteq Owns(rq[r])
      /\ Gives(rq[r]) \cap Takes(rq[r]) = {}
      /\ \A k \in Gives(rq[r]) \cup Takes(rq[r]) : k \in {rq[r].n, rq[r].m}
  BY <1>2, <1>3 DEF Gives, Takes, Owns, Makes, Changes, Exclusive, NumInv, AnswerInv
<1>7. /\ \A k \in Gives(rq[r]) : pool[k] # None /\ user[pool[k]]
      /\ \A k \in Takes(rq[r]) : pool[k] = None
      /\ \A k \in Makes(rq[r]) : k \in Gives(rq[r]) \/ pool[k] = None
  BY <1>1, <1>2, <1>3 DEF Gives, Takes, Makes, PoolHas, UserInv
<1>8. TypeOK'
  <2>1. Idle \in Request
    <3>1. np_stat \in Handlers
      BY DEF Handlers
    <3>. QED  BY <3>1 DEF Idle, Request, Pcs, Pointers
  <2>. QED  BY <2>1, <1>4, <1>6 DEF FidInv, TypeOK
<1>9. Alone(r)
  BY <1>4, <1>5, <1>6 DEF Alone, Same
<1>10. \A s \in Reqs : ReqInv(rq[s])'
  <2>1. \A s \in Reqs \ {r} : ReqInv(rq[s])'
    BY <1>1, <1>8, <1>9, OthersKeep
  <2>2. ReqInv(rq[r])'
    BY <1>5 DEF ReqInv, Idle
  <2>. QED  BY <2>1, <2>2
<1>11. Busy' = Busy \ {r} /\ r \in Busy /\ Busy \subseteq Reqs
  BY <1>1, <1>5 DEF Busy, Idle
<1>12. OwnInv'
  <2>1. \A s \in Busy' : rq'[s] = rq[s] /\ Owns(rq[s])' = Owns(rq[s])
    BY <1>5, <1>11 DEF Owns, Makes, Changes
  <2>. QED  BY <2>1, <1>11 DEF FidInv, OwnInv
<1>13. IdleInv'
  BY <1>5 DEF FidInv, IdleInv
\* No other answer says anything of these numbers.
<1>14. \A s \in Reqs \ {r} : /\ Gives(rq[s])' = Gives(rq[s]) /\ Takes(rq[s])' = Takes(rq[s])
                             /\ Makes(rq[s])' = Makes(rq[s])
  BY <1>5 DEF Gives, Takes, Makes
<1>15. \A s \in Reqs \ {r}, k \in Owns(rq[r]) : k \notin Gives(rq[s]) /\ k \notin Takes(rq[s])
  <2>. SUFFICES ASSUME NEW s \in Reqs \ {r}, NEW k \in Owns(rq[r]), k \in Gives(rq[s]) \cup Takes(rq[s])
                PROVE  FALSE
    OBVIOUS
  <2>1. rq[s].ok /\ k \in {rq[s].n, rq[s].m}
    BY DEF Gives, Takes
  <2>2. rq[s].pc # "idle"
    BY <2>1 DEF FidInv, IdleInv, Idle
  <2>. QED  BY <2>1, <2>2, <1>1 DEF FidInv, OwnInv, Busy
<1>16. PoolInv'
  <2>1. \A n \in Nums : pool[n] # None => n \in granted' \/ \E s \in Busy' : n \in Makes(rq[s])'
    <3>. SUFFICES ASSUME NEW n \in Nums, pool[n] # None, n \notin granted'
                  PROVE  \E s \in Busy' : n \in Makes(rq[s])'
      OBVIOUS
    <3>1. n \notin granted /\ n \notin Gives(rq[r])
      BY <1>4, <1>6, <1>7
    <3>2. PICK s \in Busy : n \in Makes(rq[s])
      BY <3>1 DEF FidInv, PoolInv
    <3>3. s # r
      BY <3>1, <3>2, <1>7
    <3>. QED  BY <3>2, <3>3, <1>11, <1>14
  <2>. QED  BY <2>1, <1>4 DEF FidInv, PoolInv
<1>17. GrantedInv'
  <2>. SUFFICES ASSUME NEW n \in granted'
                PROVE  /\ pool[n] = None => \E s \in Busy' : n \in Takes(rq[s])'
                       /\ pool[n] # None => user[pool[n]]
    BY <1>4 DEF GrantedInv
  <2>1. CASE n \in Gives(rq[r])
    BY <2>1, <1>7
  <2>2. CASE n \notin Gives(rq[r])
    <3>1. n \in granted /\ n \notin Takes(rq[r])
      BY <2>2, <1>4
    <3>2. pool[n] # None => user[pool[n]]
      BY <3>1 DEF FidInv, GrantedInv
    <3>3. ASSUME pool[n] = None PROVE \E s \in Busy' : n \in Takes(rq[s])'
      <4>1. PICK s \in Busy : n \in Takes(rq[s])
        BY <3>1, <3>3 DEF FidInv, GrantedInv
      <4>2. s # r
        BY <3>1, <4>1
      <4>. QED  BY <4>1, <4>2, <1>11, <1>14
    <3>. QED  BY <3>2, <3>3
  <2>. QED  BY <2>1, <2>2
<1>18. CountInv'
  <2>1. \A j \in {1, 2} : Claim(rq'[r], j) = Claim(rq[r], j)
    BY <1>1, <1>5 DEF Claim, Idle
  <2>2. \A y : Held(y)' = Held(y)
    BY <2>1, <1>9, HeldSame
  <2>3. \A n \in Nums : Kept(n)' <=> Kept(n)
    <3>1. Gives(rq[r])' = {} /\ Takes(rq[r])' = {}
      BY <1>5 DEF Gives, Takes, Idle
    <3>. SUFFICES ASSUME NEW n \in Nums PROVE Kept(n)' <=> Kept(n)
      OBVIOUS
    <3>2. CASE n \in Gives(rq[r])
      <4>1. n \in granted' /\ \A s \in Reqs : n \notin Takes(rq[s])'
        BY <3>1, <3>2, <1>4, <1>6, <1>14, <1>15
      <4>. QED  BY <3>2, <4>1 DEF Kept
    <3>3. CASE n \in Takes(rq[r])
      <4>1. n \notin granted' /\ \A s \in Reqs : n \notin Gives(rq[s])' /\ n \notin Gives(rq[s])
        BY <3>1, <3>3, <1>4, <1>6, <1>14, <1>15
      <4>. QED  BY <3>3, <4>1 DEF Kept
    <3>4. CASE n \notin Gives(rq[r]) \cup Takes(rq[r])
      <4>1. /\ n \in granted' <=> n \in granted
            /\ \A s \in Reqs : /\ n \in Gives(rq[s])' <=> n \in Gives(rq[s])
                               /\ n \in Takes(rq[s])' <=> n \in Takes(rq[s])
        BY <3>1, <3>4, <1>4, <1>14
      <4>. QED  BY <4>1 DEF Kept
    <3>. QED  BY <3>2, <3>3, <3>4
  <2>. QED  BY <2>2, <2>3, <1>4 DEF FidInv, CountInv, One
<1>. QED  BY <1>8, <1>10, <1>12, <1>13, <1>16, <1>17, <1>18 DEF FidInv

----------------------------------------------------------------------------
(* The client *)

\* A message of a client that keeps its fids apart finds its numbers free, or
\* a fid under them, and nobody changing it.
LEMMA SendKeeps ==
    ASSUME FidInv, Careful = Operations, NEW r \in Reqs, NEW h \in Handlers, NEW n \in Nums,
           NEW m \in SecondNums(h), Send(r, h, n, m)
    PROVE  FidInv'
<1>1. rq[r].pc = "idle" /\ rq[r] = Idle
  BY DEF Send, FidInv, IdleInv
<1>2. /\ h.first \in {"old", "new"} /\ h.second \in {"none", "old", "new", "afid"}
      /\ h.first = "new" <=> h.does \in {"attach", "auth"}
      /\ h.second = "afid" <=> h.does = "attach"
      /\ h.second = "new" <=> h.does \in {"walk", "xattrwalk"}
      /\ h.second = "old" => h.does = "nothing"
      /\ h.sets = "checked" => h = np_unlinkat /\ h.does = "nothing"
      /\ h.does \in Operations
  BY HandlerFacts
<1>3. /\ (h.first = "old") <=> (n \in granted)
      /\ h.second = "old" => m \in granted
      /\ h.second = "new" /\ m # n => m \notin granted
      /\ \A s \in Busy : /\ Changes(rq[s].h, rq[s].n, rq[s].m) => rq[s].n \notin {n, m}
                         /\ Changes(h, n, m) => n \notin {rq[s].n, rq[s].m}
                         /\ h.first = "new" => n \notin {rq[s].n, rq[s].m}
                         /\ h.second = "new" => m = n \/ m \notin {rq[s].n, rq[s].m}
      /\ h.second = "afid" => m = None \/ (m \in granted /\ Is(m, "auth"))
      /\ h.does \in {"clunk", "remove"} => ~Is(n, "auth")
      /\ h = np_unlinkat => Is(n, "dir") /\ omode[pool[n]] = "closed"
  BY <1>2 DEF Send, MaySend, Names
<1>4. /\ h.second = "none" => m = None
      /\ h.second \in {"old", "new"} => m \in Nums
      /\ m \in Nums \cup {None}
  BY <1>2 DEF SecondNums
<1>5. Plain /\ refs' = refs
  BY DEF Send, Plain, fidVars
<1>6. /\ rq'[r].pc = "find" /\ rq'[r].h = h /\ rq'[r].n = n /\ rq'[r].m = m
      /\ rq'[r].f = None /\ rq'[r].g = None /\ rq'[r].rf = None /\ rq'[r].zero = None
      /\ rq'[r].ok = FALSE
      /\ \A s \in Reqs \ {r} : rq'[s] = rq[s]
  BY DEF Send, Idle, FidInv, TypeOK
<1>7. TypeOK'
  <2>1. rq' \in [Reqs -> Request]
    BY <1>4 DEF Send, Idle, FidInv, TypeOK, Request, Pcs, Pointers
  <2>. QED  BY <2>1, <1>5 DEF FidInv, TypeOK, Plain
<1>8. \A s \in Reqs \ {r} : ReqInv(rq[s])'
  <2>1. \A k \in Nums : Same(k)
    BY <1>5 DEF Same, Plain
  <2>. QED  BY <2>1, <1>6, <1>7, ReqStays
\* The numbers it creates are free, and those the client holds have their fids.
<1>9. \A k \in Nums : k \notin granted /\ (\A s \in Busy : k \notin {rq[s].n, rq[s].m}) => pool[k] = None
  BY DEF FidInv, PoolInv, Makes
<1>10. \A k \in granted : k \in {n, m} => pool[k] # None
  <2>1. \A s \in Busy : \A k \in Takes(rq[s]) : k = rq[s].n /\ Changes(rq[s].h, rq[s].n, rq[s].m)
    BY DEF Takes, Changes, Exclusive
  <2>. QED  BY <2>1, <1>3 DEF FidInv, GrantedInv
<1>11. NumInv(rq[r])'
  BY <1>2, <1>3, <1>4, <1>5, <1>6 DEF NumInv, Plain
<1>12. FirstInv(rq[r])' /\ SecondInv(rq[r])' /\ AnswerInv(rq[r])'
  BY <1>6 DEF FirstInv, SecondInv, AnswerInv
<1>13. PoolHas(rq[r])'
  BY <1>2, <1>3, <1>4, <1>5, <1>6, <1>9, <1>10 DEF PoolHas, Plain
<1>14. ToldInv(rq[r])'
  BY <1>2, <1>3, <1>5, <1>6, <1>10 DEF ToldInv, Plain, Is
<1>15. CheckedInv(rq[r])' /\ UserInv(rq[r])'
  BY <1>6 DEF CheckedInv, UserInv, Gives
<1>16. \A s \in Reqs : ReqInv(rq[s])'
  <2>1. ReqInv(rq[r])'
    BY <1>11, <1>12, <1>13, <1>14, <1>15 DEF ReqInv, ShapeInv, SeenInv
  <2>. QED  BY <2>1, <1>8
<1>17. IdleInv'
  BY <1>6 DEF FidInv, IdleInv
<1>18. Busy' = Busy \cup {r} /\ r \notin Busy /\ Busy \subseteq Reqs
  BY <1>1, <1>6 DEF Busy
<1>19. OwnInv'
  <2>1. \A s \in Busy : s # r /\ rq'[s] = rq[s] /\ Owns(rq[s])' = Owns(rq[s])
    BY <1>6, <1>18 DEF Owns, Makes, Changes
  <2>2. \A s \in Busy : Owns(rq[r])' \cap {rq[s].n, rq[s].m} = {}
    BY <1>3, <1>6 DEF Owns, Makes
  <2>3. \A s \in Busy : Owns(rq[s]) \cap {n, m} = {}
    <3>. SUFFICES ASSUME NEW s \in Busy, NEW k \in Owns(rq[s]), k \in {n, m} PROVE FALSE
      OBVIOUS
    <3>1. s \in Reqs /\ rq[s].pc # "idle"
      BY DEF Busy
    <3>2. NumInv(rq[s]) /\ rq[s].h \in Handlers
      BY <3>1, Known
    <3>3. rq[s].h.second = "new" => rq[s].m \in Nums
      BY <3>2 DEF NumInv
    <3>4. rq[s].n \in Nums /\ (rq[s].h.first = "new" => rq[s].n \notin granted)
          /\ (rq[s].h.second = "new" /\ rq[s].m # rq[s].n => rq[s].m \notin granted)
      BY <3>2 DEF NumInv
    <3>5. k \in Makes(rq[s])
      BY <1>3 DEF Owns
    <3>6. k \notin granted /\ k \in Nums /\ k \in {rq[s].n, rq[s].m}
      BY <3>3, <3>4, <3>5 DEF Makes
    <3>. QED  BY <3>6, <1>2, <1>3, <1>4, NpFidAssumption
  <2>. QED  BY <2>1, <2>2, <2>3, <1>6, <1>18 DEF FidInv, OwnInv
<1>20. \A s \in Reqs : /\ Gives(rq[s])' = Gives(rq[s]) /\ Takes(rq[s])' = Takes(rq[s])
                       /\ s # r => Makes(rq[s])' = Makes(rq[s])
  BY <1>1, <1>6 DEF Gives, Takes, Makes, Idle
<1>21. PoolInv'
  BY <1>5, <1>18, <1>20 DEF FidInv, PoolInv, Plain
<1>22. GrantedInv'
  BY <1>5, <1>18, <1>20 DEF FidInv, GrantedInv, Plain
<1>23. CountInv'
  <2>1. \A y : Held(y)' = Held(y)
    BY <1>1, <1>6 DEF Held, Claim, Idle
  <2>2. \A k \in Nums : Kept(k)' <=> Kept(k)
    BY <1>5, <1>20 DEF Kept, Plain
  <2>. QED  BY <2>1, <2>2, <1>5 DEF FidInv, CountInv, One, Plain
<1>. QED  BY <1>7, <1>16, <1>17, <1>19, <1>21, <1>22, <1>23 DEF FidInv

----------------------------------------------------------------------------
(* The theorems *)

\* A connection begins with an empty pool and nothing in progress.
LEMMA FidInvInit == Init => FidInv
<1>. SUFFICES ASSUME Init PROVE FidInv
  OBVIOUS
<1>. USE DEF Init
<1>1. Idle \in Request /\ Idle.pc = "idle"
  <2>1. np_stat \in Handlers
    BY DEF Handlers
  <2>. QED  BY <2>1 DEF Idle, Request, Pcs, Pointers
<1>2. TypeOK
  BY <1>1 DEF TypeOK, Pointers, Omodes
<1>3. Busy = {} /\ IdleInv /\ OwnInv /\ GrantedInv
  BY <1>1 DEF Busy, IdleInv, OwnInv, GrantedInv
<1>4. PoolInv /\ CountInv
  BY DEF PoolInv, CountInv
<1>5. \A r \in Reqs : ReqInv(rq[r])
  BY <1>1 DEF ReqInv
<1>. QED  BY <1>2, <1>3, <1>4, <1>5 DEF FidInv

\* Every step keeps the invariant, which therefore always holds.
LEMMA FidInvNext ==
    ASSUME Careful = Operations, CloneFails = {FALSE}
    PROVE  FidInv /\ [Next]_vars => FidInv'
<1>. SUFFICES ASSUME FidInv, [Next]_vars PROVE FidInv'
  OBVIOUS
<1>1. CASE Next
  <2>1. PICK r \in Reqs : \/ \E h \in Handlers, n \in Nums : \E m \in SecondNums(h) : Send(r, h, n, m)
                          \/ Serve(r)
    BY <1>1 DEF Next
  <2>2. CASE \E h \in Handlers, n \in Nums : \E m \in SecondNums(h) : Send(r, h, n, m)
    BY <2>2, SendKeeps
  <2>3. CASE Serve(r)
    BY <2>3, FindKeeps, CreateKeeps, HoldKeeps, Find2Keeps, Create2Keeps, CloneKeeps, Hold2Keeps,
       OpPlainKeeps, OpOpenKeeps, OpCreateKeeps, OpXattrcreateKeeps, OpClunkKeeps, OpWalkKeeps,
       OpXattrwalkKeeps, OpAttachKeeps, OpAuthKeeps, DoneKeeps, DestroyKeeps, RespondKeeps, ReplyKeeps
       DEF Serve, Op
  <2>. QED  BY <2>1, <2>2, <2>3
<1>2. CASE UNCHANGED vars
  <2>1. Plain /\ refs' = refs /\ rq' = rq
    BY <1>2 DEF vars, fidVars, Plain
  <2>2. TypeOK' /\ IdleInv' /\ OwnInv' /\ PoolInv' /\ GrantedInv' /\ CountInv'
    <3>1. TypeOK' /\ IdleInv'
      BY <2>1 DEF Plain, FidInv, TypeOK, IdleInv
    <3>2. OwnInv'
      BY <2>1 DEF FidInv, OwnInv, Busy, Owns, Makes, Changes
    <3>3. PoolInv'
      BY <2>1 DEF Plain, FidInv, PoolInv, Busy, Makes
    <3>4. GrantedInv'
      BY <2>1 DEF Plain, FidInv, GrantedInv, Busy, Takes
    <3>5. CountInv'
      <4>1. \A y : Held(y)' = Held(y)
        BY <2>1 DEF Held
      <4>2. \A n \in Nums : Kept(n)' <=> Kept(n)
        BY <2>1 DEF Plain, Kept, Gives, Takes
      <4>. QED  BY <2>1, <4>1, <4>2 DEF Plain, FidInv, CountInv, One
    <3>. QED  BY <3>1, <3>2, <3>3, <3>4, <3>5
  <2>3. \A s \in Reqs : ReqInv(rq[s])'
    <3>1. \A k \in Nums : Same(k)
      BY <2>1 DEF Same, Plain
    <3>. QED  BY <3>1, <2>1, <2>2, ReqStays
  <2>. QED  BY <2>2, <2>3 DEF FidInv
<1>. QED  BY <1>1, <1>2

\* FidInv always holds.
LEMMA FidInvAlways ==
    ASSUME Careful = Operations, CloneFails = {FALSE}
    PROVE  Spec => []FidInv
BY FidInvInit, FidInvNext, PTL DEF Spec

(***************************************************************************)
(* Fids and handlers keep their C types, and np_fid_decref never starts    *)
(* from zero, if the client keeps its fids apart and srv->clone does not   *)
(* fail.                                                                   *)
(***************************************************************************)
THEOREM TypeCorrect ==
    ASSUME Careful = Operations, CloneFails = {FALSE}
    PROVE  Spec => []TypeOK
<1>1. FidInv => TypeOK
  BY DEF FidInv
<1>. QED  BY <1>1, FidInvAlways, PTL

(***************************************************************************)
(* The pointers np_fid_find and np_fid_create return without a reference,  *)
(* and those kept in req->fid, are never to a freed fid, for any number of *)
(* requests in progress.                                                   *)
(***************************************************************************)
THEOREM NoDanglingAlways ==
    ASSUME Careful = Operations, CloneFails = {FALSE}
    PROVE  Spec => []NoDangling
<1>1. FidInv => NoDangling
  <2>. SUFFICES ASSUME FidInv, NEW r \in Busy, NEW x \in Uses(r), x # None PROVE x \in live
    BY DEF NoDangling
  <2>1. r \in Reqs /\ rq[r].pc # "idle"
    BY DEF Busy
  <2>2. /\ NumInv(rq[r]) /\ FirstInv(rq[r]) /\ SecondInv(rq[r]) /\ AnswerInv(rq[r])
        /\ rq[r].n \in Nums /\ rq[r].m \in Nums \cup {None} /\ rq[r].h \in Handlers
        /\ rq[r] \in Request
    BY <2>1, Known
  <2>3. rq[r].h.second \in {"none", "old", "new", "afid"}
    BY <2>2, HandlerFacts
  <2>4. \E k \in Nums : x = pool[k]
    <3>1. x = rq[r].rf => \E k \in Nums : x = pool[k]
      BY <2>1, <2>2 DEF FirstInv, Request, Pcs
    <3>2. x = rq[r].zero => \E k \in Nums : x = pool[k]
      BY <2>2 DEF AnswerInv, NumInv
    <3>3. x = rq[r].f /\ rq[r].pc \in {"hold", "find2", "create2", "clone", "hold2", "op"} =>
            \E k \in Nums : x = pool[k]
      BY <2>2 DEF FirstInv
    <3>4. x = rq[r].g /\ rq[r].pc \in {"clone", "hold2", "op", "done"} => \E k \in Nums : x = pool[k]
      BY <2>2, <2>3, NpFidAssumption DEF FirstInv, SecondInv, NumInv
    <3>. QED  BY <3>1, <3>2, <3>3, <3>4 DEF Uses
  <2>. QED  BY <2>4 DEF FidInv, PoolInv
<1>. QED  BY <1>1, FidInvAlways, PTL

(***************************************************************************)
(* A fid the client was given stays in the pool with its user and the      *)
(* pool's reference until a Tclunk or Tremove for it is in progress.       *)
(***************************************************************************)
THEOREM GrantedKeptAlways ==
    ASSUME Careful = Operations, CloneFails = {FALSE}
    PROVE  Spec => []GrantedKept
<1>1. FidInv => GrantedKept
  <2>. SUFFICES ASSUME FidInv, NEW n \in granted,
                       ~\E r \in Busy : rq[r].n = n /\ rq[r].h.does \in {"clunk", "remove"}
                PROVE  pool[n] # None /\ refs[pool[n]] > 0 /\ user[pool[n]]
    BY DEF GrantedKept
  <2>1. \A r \in Reqs : n \notin Takes(rq[r])
    <3>1. \A r \in Reqs : rq[r].pc = "idle" => ~rq[r].ok
      BY DEF FidInv, IdleInv, Idle
    <3>. QED  BY <3>1 DEF Takes, Busy
  <2>2. pool[n] # None /\ user[pool[n]]
    BY <2>1 DEF FidInv, GrantedInv, Busy
  <2>3. n \in Nums /\ Kept(n)
    BY <2>1 DEF Kept, FidInv, TypeOK
  <2>4. refs[pool[n]] = 1 + Cardinality(Held(pool[n])) /\ Cardinality(Held(pool[n])) \in Nat
    BY <2>2, <2>3, HeldFinite DEF FidInv, CountInv, One
  <2>. QED  BY <2>2, <2>4
<1>. QED  BY <1>1, FidInvAlways, PTL

(***************************************************************************)
(* When nothing is in progress the pool has the fids the client holds and  *)
(* no others, each with one reference: every path of a handler, np_respond *)
(* included, gives back what it took.                                      *)
(***************************************************************************)
THEOREM NoCorpseAlways ==
    ASSUME Careful = Operations, CloneFails = {FALSE}
    PROVE  Spec => []NoCorpse
<1>1. FidInv => NoCorpse
  <2>. SUFFICES ASSUME FidInv, Busy = {}, NEW n \in Nums
                PROVE  /\ pool[n] # None <=> n \in granted
                       /\ pool[n] # None => refs[pool[n]] = 1
    BY DEF NoCorpse
  <2>1. \A r \in Reqs : rq[r] = Idle
    BY DEF Busy, FidInv, IdleInv
  <2>2. pool[n] # None <=> n \in granted
    BY DEF FidInv, PoolInv, GrantedInv
  <2>3. ASSUME pool[n] # None PROVE refs[pool[n]] = 1
    <3>1. Kept(n)
      BY <2>1, <2>2, <2>3 DEF Kept, Takes, Idle
    <3>2. Held(pool[n]) = {}
      BY <2>1, <2>3 DEF Held, Claim, Idle
    <3>3. Cardinality(Held(pool[n])) = 0
      BY <3>2, FS_EmptySet
    <3>. QED  BY <2>3, <3>1, <3>3 DEF FidInv, CountInv, One
  <2>. QED  BY <2>2, <2>3
<1>. QED  BY <1>1, FidInvAlways, PTL

(***************************************************************************)
(* What a handler has checked of its fids (omode, type) is still so when   *)
(* the file server's operation runs, though no lock is held in between.    *)
(***************************************************************************)
THEOREM ChecksHoldAlways ==
    ASSUME Careful = Operations, CloneFails = {FALSE}
    PROVE  Spec => []ChecksHold
<1>1. FidInv => ChecksHold
  <2>. SUFFICES ASSUME FidInv, NEW r \in Reqs, At(r, "op")
                PROVE  /\ \A c \in rq[r].h.check : Passes(c, rq[r].f)
                       /\ \A c \in rq[r].h.check2 : Passes(c, rq[r].g)
    BY DEF ChecksHold
  <2>1. OpFacts(r)
    BY OpKnown
  <2>2. rq[r].h.check2 = {} \/ rq[r].m # None
    BY <2>1, HandlerFacts DEF OpFacts
  <2>. QED  BY <2>1, <2>2 DEF OpFacts, CheckedInv
<1>. QED  BY <1>1, FidInvAlways, PTL
============================================================================
