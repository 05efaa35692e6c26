---------------------------- MODULE NpReqProofs ----------------------------
(***************************************************************************)
(* NpReq keeps IInv, for every set of requests, threads and tags, provided *)
(* that memory is not handed out in the window ReuseInWindow names.  The   *)
(* reference counts, the types, the assertion in np_req_unref and the lock *)
(* order follow.  Given IInv it keeps ClientInv too, and from that follows *)
(* what an Rflush tells the client.                                        *)
(*                                                                         *)
(* Each action has a lemma.  Most show first what the action does to       *)
(* Chained and Reached, from that what it does to Owned, and then each     *)
(* part of the invariant.                                                  *)
(***************************************************************************)
EXTENDS NpReqInv, TLAPS, FiniteSetTheorems, SequenceTheorems

\* The threads that hold a request are finitely many, and none when the
\* count is zero.
LEMMA HeldCount ==
    ASSUME NEW o \in Obj
    PROVE  /\ Cardinality(HeldBy(o)) \in Nat
           /\ IsFiniteSet(HeldBy(o))
           /\ Cardinality(HeldBy(o)) = 0 <=> \A th \in Threads : held[th] # o
<1>1. IsFiniteSet(HeldBy(o))
  <2>1. HeldBy(o) \subseteq Threads
    BY DEF HeldBy
  <2>2. IsFiniteSet(Threads)
    BY NpReqAssumption
  <2>. QED  BY <2>1, <2>2, FS_Subset
<1>2. Cardinality(HeldBy(o)) \in Nat
  BY <1>1, FS_CardinalityType
<1>3. Cardinality(HeldBy(o)) = 0 <=> HeldBy(o) = {}
  BY <1>1, FS_EmptySet
<1>4. HeldBy(o) = {} <=> \A th \in Threads : held[th] # o
  BY DEF HeldBy
<1>. QED  BY <1>1, <1>2, <1>3, <1>4

\* Whatever is on workreqs has an owner.
LEMMA WorkOwned ==
    ASSUME TypeOK, WorkInv, NEW o \in workreqs
    PROVE  o \in Obj /\ Owned(o)
<1>1. o \in Obj
  BY DEF TypeOK
<1>2. CASE o \in deferred
  BY <1>1, <1>2 DEF Owned
<1>3. CASE \E th \in Threads : req[th] = o
  BY <1>1, <1>3 DEF Owned
<1>4. CASE \E t \in workreqs : flushreq[t] = o
  <2>1. PICK t \in workreqs : flushreq[t] = o
    BY <1>4
  <2>2. t \in Obj /\ Chained(t, o)
    BY <2>1 DEF TypeOK, Chained
  <2>. QED  BY <1>1, <2>2 DEF Owned
<1>. QED  BY <1>2, <1>3, <1>4 DEF WorkInv

\* What an exact count says of a single request.
LEMMA Counts ==
    ASSUME RefExact, TypeOK, NEW o \in Obj
    PROVE  /\ refcount[o] \in Nat
           /\ refcount[o] = 0 => ~Owned(o) /\ \A th \in Threads : held[th] # o
           /\ Owned(o) => refcount[o] > 0
           /\ Owned(o) /\ (\A th \in Threads : held[th] # o) => refcount[o] = 1
           /\ \A th \in Threads : held[th] = o => refcount[o] > 0
           /\ \A th \in Threads : held[th] = o /\ Owned(o) => refcount[o] > 1
<1>1. refcount[o] \in Nat
  BY DEF TypeOK
<1>2. refcount[o] = (IF Owned(o) THEN 1 ELSE 0) + Cardinality(HeldBy(o))
  BY DEF RefExact
<1>3. Cardinality(HeldBy(o)) \in Nat
  BY HeldCount
<1>4. Cardinality(HeldBy(o)) = 0 <=> \A th \in Threads : held[th] # o
  BY HeldCount
<1>. QED  BY <1>1, <1>2, <1>3, <1>4

\* A step that changes no count, no holder and no owner keeps the counts
\* exact.
LEMMA KeepRefs ==
    ASSUME RefExact, UNCHANGED <<refcount, held>>,
           \A o \in Obj : Owned(o)' <=> Owned(o)
    PROVE  RefExact'
  BY DEF RefExact, HeldBy

\* The same for a step that changes the count and the owner of x alone.
LEMMA KeepOther ==
    ASSUME RefExact, UNCHANGED held, NEW x \in Obj,
           \A o \in Obj \ {x} : (Owned(o)' <=> Owned(o)) /\ refcount'[o] = refcount[o],
           refcount'[x] = (IF Owned(x)' THEN 1 ELSE 0) + Cardinality(HeldBy(x))
    PROVE  RefExact'
  BY DEF RefExact, HeldBy

\* RemoveAt takes one element out and moves the rest up.
LEMMA RemoveAtIs ==
    ASSUME NEW S, NEW s \in Seq(S), NEW i \in DOMAIN s
    PROVE  /\ RemoveAt(s, i) \in Seq(S)
           /\ Len(RemoveAt(s, i)) = Len(s) - 1
           /\ \A j \in 1 .. Len(s) - 1 :
                RemoveAt(s, i)[j] = IF j < i THEN s[j] ELSE s[j + 1]
<1>1. i \in 1 .. Len(s) /\ Len(s) \in Nat
  OBVIOUS
<1>2. SubSeq(s, 1, i - 1) \in Seq(S) /\ Len(SubSeq(s, 1, i - 1)) = i - 1
      /\ \A j \in 1 .. i - 1 : SubSeq(s, 1, i - 1)[j] = s[j]
  BY <1>1
<1>3. SubSeq(s, i + 1, Len(s)) \in Seq(S)
      /\ Len(SubSeq(s, i + 1, Len(s))) = Len(s) - i
      /\ \A j \in 1 .. Len(s) - i : SubSeq(s, i + 1, Len(s))[j] = s[i + j]
  BY <1>1
<1>. DEFINE a == SubSeq(s, 1, i - 1)
            b == SubSeq(s, i + 1, Len(s))
<1>4. a \in Seq(S) /\ b \in Seq(S) /\ Len(a) = i - 1 /\ Len(b) = Len(s) - i
  BY <1>2, <1>3
<1>5. /\ \A j \in 1 .. i - 1 : a[j] = s[j]
      /\ \A j \in 1 .. Len(s) - i : b[j] = s[i + j]
  BY <1>2, <1>3
<1>6. RemoveAt(s, i) = a \o b
  BY DEF RemoveAt
<1>. HIDE DEF a, b
<1>7. /\ a \o b \in Seq(S)
      /\ Len(a \o b) = Len(s) - 1
      /\ \A j \in 1 .. Len(s) - 1 :
           (a \o b)[j] = IF j <= i - 1 THEN a[j] ELSE b[j - (i - 1)]
  <2>1. /\ a \o b \in Seq(S)
        /\ Len(a \o b) = Len(a) + Len(b)
        /\ \A j \in 1 .. Len(a) + Len(b) :
             (a \o b)[j] = IF j <= Len(a) THEN a[j] ELSE b[j - Len(a)]
    BY <1>4, ConcatProperties, Zenon
  <2>2. Len(a) + Len(b) = Len(s) - 1
    BY <1>1, <1>4
  <2>. QED  BY <1>4, <2>1, <2>2, Zenon
<1>8. ASSUME NEW j \in 1 .. Len(s) - 1
      PROVE  (a \o b)[j] = IF j < i THEN s[j] ELSE s[j + 1]
  <2>1. CASE j < i
    <3>1. j \in 1 .. i - 1 /\ j <= i - 1
      BY <1>1, <2>1
    <3>. QED  BY <1>5, <1>7, <2>1, <3>1
  <2>2. CASE ~(j < i)
    <3>1. j - (i - 1) \in 1 .. Len(s) - i /\ i + (j - (i - 1)) = j + 1
      BY <1>1, <2>2
    <3>2. (a \o b)[j] = b[j - (i - 1)]
      BY <1>1, <1>7, <2>2
    <3>. QED  BY <1>5, <2>2, <3>1, <3>2
  <2>. QED  BY <2>1, <2>2
<1>. QED  BY <1>6, <1>7, <1>8

\* Of a sequence without repetition it leaves exactly the other elements.
LEMMA RemoveAtRange ==
    ASSUME NEW S, NEW s \in Seq(S), NEW i \in DOMAIN s,
           \A k, l \in DOMAIN s : s[k] = s[l] => k = l
    PROVE  LET r == RemoveAt(s, i) IN
           /\ r \in Seq(S)
           /\ \A j, k \in DOMAIN r : r[j] = r[k] => j = k
           /\ \A j \in DOMAIN r : \E k \in DOMAIN s : k # i /\ r[j] = s[k]
           /\ \A k \in DOMAIN s : k # i => \E j \in DOMAIN r : r[j] = s[k]
<1>. DEFINE r == RemoveAt(s, i)
<1>1. r \in Seq(S) /\ DOMAIN r = 1 .. Len(s) - 1 /\ Len(s) \in Nat
      /\ DOMAIN s = 1 .. Len(s)
  BY RemoveAtIs
<1>2. \A j \in 1 .. Len(s) - 1 : r[j] = IF j < i THEN s[j] ELSE s[j + 1]
  BY RemoveAtIs
<1>. HIDE DEF r
<1>. DEFINE at(j) == IF j < i THEN j ELSE j + 1
<1>a. i \in Nat
  BY <1>1
<1>b. \A j \in DOMAIN r : at(j) \in DOMAIN s /\ at(j) # i /\ r[j] = s[at(j)]
  BY <1>1, <1>2, <1>a
<1>c. \A j, k \in DOMAIN r : at(j) = at(k) => j = k
  BY <1>1, <1>a
<1>. HIDE DEF at
<1>3. \A j, k \in DOMAIN r : r[j] = r[k] => j = k
  BY <1>b, <1>c
<1>4. \A j \in DOMAIN r : \E k \in DOMAIN s : k # i /\ r[j] = s[k]
  BY <1>b
<1>5. ASSUME NEW k \in DOMAIN s, k # i
      PROVE  \E j \in DOMAIN r : r[j] = s[k]
  <2>1. CASE k < i
    BY <1>1, <1>2, <2>1
  <2>2. CASE k > i
    <3>1. k - 1 \in DOMAIN r /\ r[k - 1] = s[k]
      BY <1>1, <1>2, <2>2
    <3>. QED  BY <3>1
  <2>. QED  BY <1>1, <1>5, <2>1, <2>2
<1>. QED  BY <1>1, <1>3, <1>4, <1>5 DEF r

\* ChainOf(x) holds flushreq[x] and is closed under flushreq ...
LEMMA ChainOfClosed ==
    ASSUME TypeOK, NEW x \in Obj
    PROVE  /\ ChainOf(x) \subseteq Obj
           /\ \A q \in ChainOf(x) \cup {x} : flushreq[q] \in ChainOf(x) \cup {NoObj}
<1>1. ChainOf(x) \subseteq Obj
  BY DEF ChainOf
<1>2. ASSUME NEW q \in ChainOf(x) \cup {x}, flushreq[q] # NoObj
      PROVE  flushreq[q] \in ChainOf(x)
  <2>1. q \in Obj /\ flushreq[q] \in Obj
    BY <1>1, <1>2 DEF TypeOK, ObjOrNull
  <2>2. ASSUME NEW S \in SUBSET Obj,
               \A p \in S \cup {x} : flushreq[p] \in S \cup {NoObj}
        PROVE  flushreq[q] \in S
    <3>1. q \in S \cup {x}
      BY <2>2, <1>2 DEF ChainOf
    <3>. QED  BY <2>2, <3>1, <1>2
  <2>. QED  BY <2>1, <2>2 DEF ChainOf
<1>. QED  BY <1>1, <1>2

\* ... it is the least such set ...
LEMMA ChainOfLeast ==
    ASSUME TypeOK, NEW x \in Obj, NEW S \in SUBSET Obj,
           \A q \in S \cup {x} : flushreq[q] \in S \cup {NoObj}
    PROVE  ChainOf(x) \subseteq S
  BY DEF ChainOf

\* ... and so everything in it is linked to by something in it, or by x.
LEMMA ChainOfPred ==
    ASSUME TypeOK, NEW x \in Obj, NEW p \in ChainOf(x)
    PROVE  \E q \in ChainOf(x) \cup {x} : flushreq[q] = p
<1>. SUFFICES ASSUME \A q \in ChainOf(x) \cup {x} : flushreq[q] # p
             PROVE  FALSE
  OBVIOUS
<1>1. \A q \in (ChainOf(x) \ {p}) \cup {x} :
         flushreq[q] \in (ChainOf(x) \ {p}) \cup {NoObj}
  BY ChainOfClosed
<1>2. ChainOf(x) \ {p} \in SUBSET Obj
  BY ChainOfClosed
<1>3. ChainOf(x) \subseteq ChainOf(x) \ {p}
  BY <1>1, <1>2, ChainOfLeast
<1>. QED  BY <1>3

\* What np_conn_respond leaves of the client's view is well typed.
LEMMA RespondTypes ==
    ASSUME TypeOK, NEW x \in Obj, np_conn_respond(x)
    PROVE  /\ csent' \in [Tags -> ObjOrNull \cup {Flushed}]
           /\ cold' \in [FlushTags -> OpTags \cup {NoTag}]
           /\ cnamed' \in [FlushTags -> ObjOrNull]
<1>1. msg[x].tag \in Tags
  BY DEF TypeOK
<1>2. CASE IsFlush(x)
  <2>1. msg[x].tag \in FlushTags
    BY <1>2 DEF IsFlush
  <2>2. RflushToClient(msg[x].tag)
    BY <1>2 DEF np_conn_respond
  <2>3. csent' \in [Tags -> ObjOrNull \cup {Flushed}]
    BY <2>1, <2>2 DEF TypeOK, RflushToClient, ObjOrNull
  <2>4. cold' \in [FlushTags -> OpTags \cup {NoTag}]
    BY <2>1, <2>2 DEF TypeOK, RflushToClient
  <2>5. cnamed' \in [FlushTags -> ObjOrNull]
    BY <2>1, <2>2 DEF TypeOK, RflushToClient, ObjOrNull
  <2>. QED  BY <2>3, <2>4, <2>5
<1>3. CASE ~IsFlush(x)
  BY <1>1, <1>3 DEF TypeOK, np_conn_respond, ReplyToClient, ObjOrNull
<1>. QED  BY <1>2, <1>3

\* np_req_alloc hands out memory nobody owns or holds, and the queue owns it.
LEMMA AllocStep ==
    ASSUME IInv, ReuseInWindow = FALSE,
           NEW x \in Free, NEW m \in [tag : Tags, old : OpTags \cup {NoTag}],
           np_req_alloc(x, m), np_srv_add_req(x),
           UNCHANGED <<workreqs, deferred, pc, req, held, cur>>
    PROVE  QueueInv' /\ DeferInv' /\ ThreadInv' /\ ChainInv' /\ ReachedInv'
           /\ WorkInv' /\ RefExact'
<1>1. /\ x \in Obj
      /\ refcount[x] = 0
      /\ \A th \in Threads : pc[th] = "next" => cur[th] # x
  BY DEF Free
<1>2. ~Owned(x) /\ \A th \in Threads : held[th] # x
  BY <1>1, Counts DEF IInv
<1>3. x \notin workreqs
  BY <1>2, WorkOwned DEF IInv
<1>4. /\ x \notin deferred
      /\ \A th \in Threads : req[th] # x
      /\ \A i \in DOMAIN reqs : reqs[i] # x
      /\ \A t \in Obj : ~Chained(t, x)
      /\ \A th \in Threads : ~Reached(th, x)
  BY <1>2 DEF Owned
<1>5. /\ DOMAIN reqs' = DOMAIN reqs \cup {Len(reqs) + 1}
      /\ Len(reqs) + 1 \notin DOMAIN reqs
      /\ \A i \in DOMAIN reqs : reqs'[i] = reqs[i]
      /\ reqs'[Len(reqs) + 1] = x
  BY <1>1 DEF np_srv_add_req, IInv, TypeOK
<1>6. \A o \in Obj \ {x} : /\ refcount'[o] = refcount[o]
                           /\ msg'[o] = msg[o]
                           /\ responded'[o] = responded[o]
                           /\ flushreq'[o] = flushreq[o]
                           /\ IsFlush(o)' <=> IsFlush(o)
  BY <1>1 DEF np_req_alloc, IsFlush, IInv, TypeOK
<1>7. refcount'[x] = 1 /\ ~responded'[x] /\ flushreq'[x] = NoObj
  BY <1>1 DEF np_req_alloc, IInv, TypeOK
<1>8. ASSUME NEW t \in Obj, NEW o \in Obj
      PROVE  Chained(t, o)' <=> Chained(t, o)
  <2>1. CASE t = x
    BY <1>1, <1>3, <1>4, <1>7, <2>1, NpReqAssumption DEF Chained
  <2>2. CASE t # x
    BY <1>6, <2>2 DEF Chained
  <2>. QED  BY <2>1, <2>2
<1>9. ASSUME NEW th \in Threads, NEW o \in Obj
      PROVE  Reached(th, o)' <=> Reached(th, o)
  <2>1. pc[th] = "next" => cur[th] \in Obj \ {x}
    BY <1>1 DEF IInv, ThreadInv
  <2>. QED  BY <1>6, <2>1 DEF Reached
<1>10. ASSUME NEW o \in Obj \ {x}
       PROVE  Owned(o)' <=> Owned(o)
  BY <1>5, <1>8, <1>9 DEF Owned
<1>11. Owned(x)'
  BY <1>5 DEF Owned
<1>12. QueueInv'
  BY <1>2, <1>3, <1>4, <1>5, <1>6, <1>7 DEF QueueInv, IInv, TypeOK
<1>13. DeferInv'
  BY <1>4, <1>6 DEF DeferInv, IInv, TypeOK
<1>14. ThreadInv'
  BY <1>1, <1>2, <1>4, <1>6 DEF ThreadInv, IInv, TypeOK, ObjOrNull
<1>15. ChainInv'
  BY <1>4, <1>5, <1>6, <1>8, <1>9 DEF ChainInv, IInv
<1>16. ReachedInv'
  BY <1>4, <1>5, <1>6, <1>9 DEF ReachedInv, IInv
<1>17. WorkInv'
  <2>1. \A t \in workreqs : flushreq'[t] = flushreq[t]
    BY <1>3, <1>6 DEF IInv, TypeOK
  <2>. QED  BY <2>1 DEF WorkInv, IInv
<1>18. RefExact'
  <2>1. Cardinality(HeldBy(x)) = 0
    BY <1>1, <1>2, HeldCount
  <2>. QED  BY <1>1, <1>6, <1>7, <1>10, <1>11, <2>1, KeepOther DEF IInv
<1>. QED  BY <1>12, <1>13, <1>14, <1>15, <1>16, <1>17, <1>18

\* A thread moves on and nothing else the invariant speaks of changes.
LEMMA MoveStep ==
    ASSUME IInv, NEW w \in Threads, NEW l,
           \/ pc[w] = "process" /\ l = "mark"
           \/ pc[w] = "flushcb" /\ l = "flushunref"
           \/ pc[w] = l,
           pc' = [pc EXCEPT ![w] = l],
           UNCHANGED <<objVars, srvVars, req, held, cur, cliVars>>,
           asleep' \in SUBSET Workers
    PROVE  IInv'
<1>1. /\ \A th \in Threads : pc'[th] = IF th = w THEN l ELSE pc[th]
      /\ UNCHANGED <<refcount, msg, responded, flushreq, reqs, workreqs, deferred,
                     req, held, cur>>
  BY DEF IInv, TypeOK, objVars, srvVars
<1>2. TypeOK'
  BY DEF IInv, TypeOK, objVars, srvVars, cliVars, Locations
<1>3. \A o \in Obj : IsFlush(o)' <=> IsFlush(o)
  BY <1>1 DEF IsFlush
<1>4. \A t, o \in Obj : Chained(t, o)' <=> Chained(t, o)
  BY <1>1, <1>3 DEF Chained
<1>5. \A th \in Threads, o \in Obj : Reached(th, o)' <=> Reached(th, o)
  BY <1>1 DEF Reached
<1>6. \A o \in Obj : Owned(o)' <=> Owned(o)
  BY <1>1, <1>4, <1>5 DEF Owned
<1>7. QueueInv'
  BY <1>1 DEF IInv, QueueInv
<1>8. DeferInv'
  BY <1>1, <1>3 DEF IInv, TypeOK, DeferInv
<1>9. ThreadInv'
  BY <1>1, <1>3 DEF IInv, TypeOK, ThreadInv, ObjOrNull
<1>10. ChainInv'
  BY <1>1, <1>3, <1>4, <1>5 DEF IInv, ChainInv
<1>11. ReachedInv'
  BY <1>1, <1>3, <1>5 DEF IInv, ReachedInv
<1>12. WorkInv'
  BY <1>1 DEF IInv, WorkInv
<1>13. RefExact'
  BY <1>1, <1>6, KeepRefs DEF IInv
<1>. QED  BY <1>2, <1>7, <1>8, <1>9, <1>10, <1>11, <1>12, <1>13 DEF IInv

\* The handler leaves its request to be answered later: the deferred set owns
\* it instead of the worker.
LEMMA ProcessDeferStep ==
    ASSUME IInv, NEW w \in Threads, ProcessDefer(w)
    PROVE  IInv'
<1>1. PICK x \in Obj : /\ x = req[w] /\ pc[w] = "process" /\ ~IsFlush(x)
                       /\ x \in workreqs /\ ~responded[x]
  BY DEF ProcessDefer, IInv, TypeOK, ThreadInv, ObjOrNull
<1>2. /\ \A th \in Threads : pc'[th] = IF th = w THEN "idle" ELSE pc[th]
      /\ \A th \in Threads : req'[th] = IF th = w THEN NoObj ELSE req[th]
      /\ deferred' = deferred \cup {x}
      /\ UNCHANGED <<refcount, msg, responded, flushreq, reqs, workreqs, held, cur>>
  BY <1>1 DEF IInv, TypeOK, ProcessDefer, objVars
<1>3. TypeOK'
  BY <1>1 DEF IInv, TypeOK, ProcessDefer, objVars, cliVars, Locations, ObjOrNull
<1>4. \A o \in Obj : IsFlush(o)' <=> IsFlush(o)
  BY <1>2 DEF IsFlush
<1>5. \A t, o \in Obj : Chained(t, o)' <=> Chained(t, o)
  BY <1>1, <1>2, <1>4, NpReqAssumption DEF Chained
<1>6. \A th \in Threads, o \in Obj : Reached(th, o)' <=> Reached(th, o)
  BY <1>1, <1>2 DEF Reached
<1>7. \A o \in Obj : Owned(o)' <=> Owned(o)
  BY <1>1, <1>2, <1>5, <1>6, NpReqAssumption DEF Owned
<1>8. QueueInv'
  BY <1>1, <1>2, NpReqAssumption DEF IInv, TypeOK, QueueInv
<1>9. DeferInv'
  BY <1>1, <1>2, <1>4, NpReqAssumption DEF IInv, TypeOK, DeferInv, ThreadInv
<1>10. ThreadInv'
  BY <1>1, <1>2, <1>4, NpReqAssumption DEF IInv, TypeOK, ThreadInv, ObjOrNull
<1>11. ChainInv'
  BY <1>1, <1>2, <1>4, <1>5, <1>6, NpReqAssumption DEF IInv, ChainInv
<1>12. ReachedInv'
  BY <1>1, <1>2, <1>4, <1>6, NpReqAssumption DEF IInv, ReachedInv
<1>13. WorkInv'
  BY <1>1, <1>2 DEF IInv, WorkInv
<1>14. RefExact'
  BY <1>2, <1>7, KeepRefs DEF IInv
<1>. QED  BY <1>3, <1>8, <1>9, <1>10, <1>11, <1>12, <1>13, <1>14 DEF IInv

\* A thread comes to answer the deferred request x (Complete, FlushCancel).
LEMMA UndeferStep ==
    ASSUME IInv, NEW w \in Threads, NEW x \in deferred,
           pc[w] \in {"idle", "flushcb"},
           deferred' = deferred \ {x},
           req' = [req EXCEPT ![w] = x],
           pc' = [pc EXCEPT ![w] = "mark"],
           UNCHANGED <<objVars, reqs, workreqs, held, cur, asleep, cliVars>>
    PROVE  IInv'
<1>1. /\ x \in Obj /\ x \in workreqs /\ ~IsFlush(x) /\ ~responded[x]
      /\ req[w] = NoObj
      /\ \A th \in Threads : req[th] # x
  BY DEF IInv, TypeOK, DeferInv, ThreadInv
<1>2. /\ \A th \in Threads : pc'[th] = IF th = w THEN "mark" ELSE pc[th]
      /\ \A th \in Threads : req'[th] = IF th = w THEN x ELSE req[th]
      /\ deferred' = deferred \ {x}
      /\ UNCHANGED <<refcount, msg, responded, flushreq, reqs, workreqs, held, cur>>
  BY <1>1 DEF IInv, TypeOK, objVars
<1>3. TypeOK'
  BY <1>1 DEF IInv, TypeOK, objVars, cliVars, Locations, ObjOrNull
<1>4. \A o \in Obj : IsFlush(o)' <=> IsFlush(o)
  BY <1>2 DEF IsFlush
<1>5. \A t, o \in Obj : Chained(t, o)' <=> Chained(t, o)
  BY <1>1, <1>2, <1>4, NpReqAssumption DEF Chained
<1>6. \A th \in Threads, o \in Obj : Reached(th, o)' <=> Reached(th, o)
  BY <1>1, <1>2 DEF Reached
<1>7. \A o \in Obj : Owned(o)' <=> Owned(o)
  BY <1>1, <1>2, <1>5, <1>6, NpReqAssumption DEF Owned
<1>8. QueueInv'
  BY <1>1, <1>2, NpReqAssumption DEF IInv, TypeOK, QueueInv
<1>9. DeferInv'
  BY <1>1, <1>2, <1>4, NpReqAssumption DEF IInv, TypeOK, DeferInv
<1>10. ThreadInv'
  BY <1>1, <1>2, <1>4, NpReqAssumption DEF IInv, TypeOK, ThreadInv, ObjOrNull
<1>11. ChainInv'
  BY <1>1, <1>2, <1>4, <1>5, <1>6, NpReqAssumption DEF IInv, ChainInv
<1>12. ReachedInv'
  BY <1>1, <1>2, <1>4, <1>6, NpReqAssumption DEF IInv, ReachedInv
<1>13. WorkInv'
  BY <1>1, <1>2, NpReqAssumption DEF IInv, TypeOK, WorkInv
<1>14. RefExact'
  BY <1>2, <1>7, KeepRefs DEF IInv
<1>. QED  BY <1>3, <1>8, <1>9, <1>10, <1>11, <1>12, <1>13, <1>14 DEF IInv

\* A request is marked as answered; the invariant excludes that it already is.
LEMMA RespondMarkStep ==
    ASSUME IInv, NEW w \in Threads, RespondMark(w)
    PROVE  IInv'
<1>1. PICK x \in Obj : /\ x = req[w] /\ pc[w] = "mark"
                       /\ x \in workreqs /\ ~responded[x]
  BY DEF RespondMark, IInv, TypeOK, ThreadInv, ObjOrNull
<1>2. /\ \A th \in Threads : pc'[th] = IF th = w THEN "unlink" ELSE pc[th]
      /\ \A o \in Obj \ {x} : responded'[o] = responded[o]
      /\ UNCHANGED <<refcount, msg, flushreq, reqs, workreqs, deferred, req, held, cur>>
  BY <1>1 DEF IInv, TypeOK, RespondMark, srvVars
<1>3. TypeOK'
  BY <1>1 DEF IInv, TypeOK, RespondMark, srvVars, cliVars, Locations
<1>4. \A o \in Obj : IsFlush(o)' <=> IsFlush(o)
  BY <1>2 DEF IsFlush
<1>5. \A t, o \in Obj : Chained(t, o)' <=> Chained(t, o)
  BY <1>1, <1>2, <1>4 DEF Chained
<1>6. \A th \in Threads, o \in Obj : Reached(th, o)' <=> Reached(th, o)
  BY <1>1, <1>2 DEF Reached
<1>7. \A o \in Obj : Owned(o)' <=> Owned(o)
  BY <1>2, <1>5, <1>6 DEF Owned
<1>8. QueueInv'
  BY <1>1, <1>2 DEF IInv, TypeOK, QueueInv
<1>9. DeferInv'
  BY <1>1, <1>2, <1>4 DEF IInv, TypeOK, DeferInv
<1>10. ThreadInv'
  BY <1>1, <1>2, <1>4, NpReqAssumption DEF IInv, TypeOK, ThreadInv, ObjOrNull
<1>11. ChainInv'
  BY <1>2, <1>4, <1>5, <1>6 DEF IInv, ChainInv
<1>12. ReachedInv'
  BY <1>2, <1>4, <1>6 DEF IInv, ReachedInv
<1>13. WorkInv'
  BY <1>1, <1>2 DEF IInv, WorkInv
<1>14. RefExact'
  BY <1>2, <1>7, KeepRefs DEF IInv
<1>. QED  BY <1>3, <1>8, <1>9, <1>10, <1>11, <1>12, <1>13, <1>14 DEF IInv

\* np_respond reads flushreq of the Tflush it gave up: it has come to the same
\* Tflush before and after.
LEMMA RespondNextStep ==
    ASSUME IInv, NEW w \in Threads, RespondNext(w)
    PROVE  IInv'
<1>1. pc[w] = "next" /\ cur[w] \in Obj
  BY DEF RespondNext, IInv, ThreadInv
<1>2. /\ \A th \in Threads : pc'[th] = IF th = w THEN "chain" ELSE pc[th]
      /\ \A th \in Threads : cur'[th] = IF th = w THEN flushreq[cur[w]] ELSE cur[th]
      /\ UNCHANGED <<refcount, msg, responded, flushreq, reqs, workreqs, deferred,
                     req, held>>
  BY <1>1 DEF IInv, TypeOK, RespondNext, objVars, srvVars
<1>3. TypeOK'
  BY <1>1 DEF IInv, TypeOK, RespondNext, objVars, srvVars, cliVars, Locations
<1>4. \A o \in Obj : IsFlush(o)' <=> IsFlush(o)
  BY <1>2 DEF IsFlush
<1>5. \A t, o \in Obj : Chained(t, o)' <=> Chained(t, o)
  BY <1>1, <1>2, <1>4 DEF Chained
<1>6. \A th \in Threads, o \in Obj : Reached(th, o)' <=> Reached(th, o)
  BY <1>1, <1>2 DEF Reached
<1>7. \A o \in Obj : Owned(o)' <=> Owned(o)
  BY <1>2, <1>5, <1>6 DEF Owned
<1>8. QueueInv'
  BY <1>2 DEF IInv, TypeOK, QueueInv
<1>9. DeferInv'
  BY <1>2, <1>4 DEF IInv, TypeOK, DeferInv
<1>10. ThreadInv'
  BY <1>1, <1>2, <1>4 DEF IInv, TypeOK, ThreadInv, ObjOrNull
<1>11. ChainInv'
  BY <1>2, <1>4, <1>5, <1>6 DEF IInv, ChainInv
<1>12. ReachedInv'
  BY <1>2, <1>4, <1>6 DEF IInv, ReachedInv
<1>13. WorkInv'
  BY <1>1, <1>2 DEF IInv, WorkInv
<1>14. RefExact'
  BY <1>2, <1>7, KeepRefs DEF IInv
<1>. QED  BY <1>3, <1>8, <1>9, <1>10, <1>11, <1>12, <1>13, <1>14 DEF IInv

\* The request x and its chain leave workreqs together: the chain is closed
\* under flushreq, and whatever is linked to a member of it is x or a member.
LEMMA RespondUnlinkStep ==
    ASSUME IInv, NEW w \in Threads, RespondUnlink(w)
    PROVE  IInv'
<1>1. PICK x \in Obj : x = req[w] /\ pc[w] = "unlink" /\ x \in workreqs
  BY DEF RespondUnlink, IInv, TypeOK, ThreadInv, ObjOrNull
<1>2. PICK D \in SUBSET Obj : D = {x} \cup ChainOf(x)
  BY ChainOfClosed DEF IInv
<1>3. \A q \in D : flushreq[q] \in D \cup {NoObj}
  BY <1>2, ChainOfClosed DEF IInv
<1>4. D \subseteq workreqs
  <2>1. workreqs \in SUBSET Obj
    BY DEF IInv, TypeOK
  <2>2. \A q \in workreqs \cup {x} : flushreq[q] \in workreqs \cup {NoObj}
    <3>. SUFFICES ASSUME NEW q \in workreqs, flushreq[q] # NoObj
                  PROVE  flushreq[q] \in workreqs
      BY <1>1
    <3>1. q \in Obj /\ flushreq[q] \in Obj
      BY DEF IInv, TypeOK, ObjOrNull
    <3>2. Chained(q, flushreq[q])
      BY DEF Chained
    <3>. QED  BY <3>1, <3>2 DEF IInv, ChainInv
  <2>. QED  BY <1>1, <1>2, <2>1, <2>2, ChainOfLeast DEF IInv
<1>5. \A p \in D \ {x} : \E q \in D : Chained(q, p)
  <2>. SUFFICES ASSUME NEW p \in D \ {x} PROVE \E q \in D : Chained(q, p)
    OBVIOUS
  <2>1. p \in ChainOf(x)
    BY <1>2
  <2>2. PICK q \in ChainOf(x) \cup {x} : flushreq[q] = p
    BY <2>1, ChainOfPred DEF IInv
  <2>3. q \in D /\ q \in workreqs
    BY <1>2, <1>4, <2>2
  <2>. QED  BY <2>2, <2>3 DEF Chained
<1>6. /\ \A th \in Threads : pc'[th] = IF th = w THEN "send" ELSE pc[th]
      /\ workreqs' = workreqs \ D
      /\ UNCHANGED <<refcount, msg, responded, flushreq, reqs, deferred, req, held, cur>>
  BY <1>1, <1>2 DEF IInv, TypeOK, RespondUnlink, objVars
<1>7. \A o \in Obj : IsFlush(o)' <=> IsFlush(o)
  BY <1>6 DEF IsFlush
<1>8. \A p \in D \ {x} : IsFlush(p) /\ refcount[p] > 0
  <2>. SUFFICES ASSUME NEW p \in D \ {x} PROVE IsFlush(p) /\ refcount[p] > 0
    OBVIOUS
  <2>1. PICK q \in D : Chained(q, p)
    BY <1>5
  <2>2. p \in Obj /\ q \in Obj
    BY <1>2
  <2>3. Owned(p)
    BY <2>1, <2>2 DEF Owned
  <2>. QED  BY <2>1, <2>2, <2>3, Counts DEF IInv, ChainInv
<1>9. \A t, o \in Obj : Chained(t, o)' <=> Chained(t, o)
  <2>. SUFFICES ASSUME NEW t \in Obj, NEW o \in Obj
                PROVE  Chained(t, o)' <=> Chained(t, o)
    OBVIOUS
  <2>1. CASE t = x
    BY <1>1, <1>6, <2>1 DEF Chained
  <2>2. CASE t \in D \ {x}
    BY <1>4, <1>6, <1>7, <1>8, <2>2 DEF Chained
  <2>3. CASE t \notin D
    <3>1. t # x
      BY <1>2, <2>3
    <3>. QED  BY <1>1, <1>6, <1>7, <2>3, <3>1 DEF Chained
  <2>. QED  BY <2>1, <2>2, <2>3
<1>10. \A th \in Threads, o \in Obj : Reached(th, o)' <=> Reached(th, o)
  BY <1>1, <1>6 DEF Reached
<1>11. \A o \in Obj : Owned(o)' <=> Owned(o)
  BY <1>6, <1>9, <1>10 DEF Owned
<1>12. \A th \in Threads : th # w => req[th] \notin D
  <2>. SUFFICES ASSUME NEW th \in Threads, th # w, req[th] \in D PROVE FALSE
    OBVIOUS
  <2>1. req[th] # x
    BY <1>1, NpReqAssumption DEF IInv, ThreadInv
  <2>2. PICK q \in D : Chained(q, req[th])
    BY <1>5, <2>1
  <2>. QED  BY <1>2, <2>2 DEF IInv, ChainInv
<1>13. TypeOK'
  BY <1>1 DEF IInv, TypeOK, RespondUnlink, objVars, cliVars, Locations
<1>14. QueueInv'
  BY <1>6 DEF IInv, QueueInv
<1>15. DeferInv'
  <2>1. \A o \in deferred : o \notin D
    BY <1>1, <1>8 DEF IInv, DeferInv
  <2>. QED  BY <1>6, <1>7, <2>1 DEF IInv, TypeOK, DeferInv
<1>16. ThreadInv'
  <2>1. x \in D
    BY <1>2
  <2>. QED  BY <1>1, <1>6, <1>7, <1>12, <2>1 DEF IInv, TypeOK, ThreadInv, ObjOrNull
<1>17. ChainInv'
  <2>. SUFFICES ASSUME NEW t \in Obj, NEW o \in Obj, Chained(t, o)
                PROVE  t \in workreqs' <=> o \in workreqs'
    BY <1>6, <1>7, <1>9, <1>10 DEF IInv, ChainInv
  <2>1. t \in workreqs <=> o \in workreqs
    BY DEF IInv, ChainInv
  <2>2. t \in D => o \in D
    BY <1>3, NpReqAssumption DEF Chained
  <2>3. o \in D => t \in D
    <3>1. o # x
      BY <1>1 DEF IInv, ChainInv
    <3>. SUFFICES ASSUME o \in D PROVE t \in D
      OBVIOUS
    <3>2. PICK q \in D : Chained(q, o)
      BY <1>5, <3>1
    <3>. QED  BY <1>2, <3>2 DEF IInv, ChainInv
  <2>. QED  BY <1>6, <2>1, <2>2, <2>3
<1>18. ReachedInv'
  BY <1>6, <1>7, <1>10 DEF IInv, ReachedInv
<1>19. WorkInv'
  <2>. SUFFICES ASSUME NEW o \in workreqs, o \notin D
                PROVE  \/ o \in deferred
                       \/ \E th \in Threads :
                            req[th] = o /\ pc'[th] \in {"process", "mark", "unlink"}
                       \/ \E t \in workreqs \ D : flushreq[t] = o
    BY <1>6 DEF WorkInv
  <2>1. ASSUME NEW th \in Threads, req[th] = o,
               pc[th] \in {"process", "mark", "unlink"}
        PROVE  pc'[th] \in {"process", "mark", "unlink"}
    BY <1>1, <1>2, <1>6, <2>1
  <2>2. ASSUME NEW t \in workreqs, flushreq[t] = o
        PROVE  t \notin D
    BY <1>3, <2>2, NpReqAssumption DEF IInv, TypeOK
  <2>. QED  BY <2>1, <2>2 DEF IInv, WorkInv
<1>20. RefExact'
  BY <1>6, <1>11, KeepRefs DEF IInv
<1>. QED  BY <1>13, <1>14, <1>15, <1>16, <1>17, <1>18, <1>19, <1>20 DEF IInv

\* A worker moves the head of the queue to workreqs and owns it.
LEMMA WorkerTakeStep ==
    ASSUME IInv, NEW w \in Threads, WorkerTake(w)
    PROVE  IInv'
<1>1. PICK x \in Obj : /\ x = Head(reqs) /\ x = reqs[1]
                       /\ pc[w] = "idle" /\ 1 \in DOMAIN reqs
  BY DEF WorkerTake, IInv, TypeOK
<1>2. /\ reqs' \in Seq(Obj)
      /\ \A i \in DOMAIN reqs' : i + 1 \in DOMAIN reqs /\ reqs'[i] = reqs[i + 1]
      /\ \A i \in DOMAIN reqs : i # 1 => i - 1 \in DOMAIN reqs' /\ reqs'[i - 1] = reqs[i]
      /\ \A i \in DOMAIN reqs' : i \in Nat /\ i > 0
  BY DEF WorkerTake, IInv, TypeOK
<1>3. /\ x \notin workreqs /\ x \notin deferred
      /\ flushreq[x] = NoObj /\ ~responded[x]
      /\ \A th \in Threads : req[th] # x /\ held[th] # x
      /\ \A i \in DOMAIN reqs : reqs[i] = x => i = 1
  BY <1>1 DEF IInv, QueueInv
<1>4. /\ \A i \in DOMAIN reqs' : reqs'[i] # x
      /\ \A i, j \in DOMAIN reqs' : reqs'[i] = reqs'[j] => i = j
  BY <1>2, <1>3 DEF IInv, QueueInv
<1>5. \A o \in Obj \ {x} : (\E i \in DOMAIN reqs' : reqs'[i] = o)
                           <=> (\E i \in DOMAIN reqs : reqs[i] = o)
  BY <1>1, <1>2
<1>6. \A i \in DOMAIN reqs' : \E j \in DOMAIN reqs : reqs'[i] = reqs[j]
  BY <1>2
<1>7. /\ \A th \in Threads : pc'[th] = IF th = w THEN "process" ELSE pc[th]
      /\ \A th \in Threads : req'[th] = IF th = w THEN x ELSE req[th]
      /\ workreqs' = workreqs \cup {x}
      /\ UNCHANGED <<refcount, msg, responded, flushreq, deferred, held, cur>>
  BY <1>1 DEF IInv, TypeOK, WorkerTake, objVars
<1>8. \A o \in Obj : IsFlush(o)' <=> IsFlush(o)
  BY <1>7 DEF IsFlush
<1>9. req[w] = NoObj /\ held[w] = NoObj
  BY <1>1 DEF IInv, ThreadInv
<1>10. /\ \A t \in Obj : ~Chained(t, x)
       /\ \A th \in Threads : ~Reached(th, x)
  BY <1>1 DEF IInv, ChainInv, ReachedInv
<1>11. \A t, o \in Obj : Chained(t, o)' <=> Chained(t, o)
  <2>1. \A o \in Obj : ~Chained(x, o) /\ ~Chained(x, o)'
    BY <1>3, <1>7, NpReqAssumption DEF Chained
  <2>2. \A t \in Obj \ {x}, o \in Obj : Chained(t, o)' <=> Chained(t, o)
    BY <1>1, <1>7, <1>8, <1>9, NpReqAssumption DEF Chained
  <2>. QED  BY <2>1, <2>2
<1>12. \A th \in Threads, o \in Obj : Reached(th, o)' <=> Reached(th, o)
  BY <1>1, <1>7 DEF Reached
<1>13. \A o \in Obj : Owned(o)' <=> Owned(o)
  <2>1. Owned(x) /\ Owned(x)'
    BY <1>1, <1>7 DEF Owned
  <2>2. \A o \in Obj \ {x} : Owned(o)' <=> Owned(o)
    BY <1>5, <1>7, <1>9, <1>11, <1>12, NpReqAssumption DEF Owned
  <2>. QED  BY <2>1, <2>2
<1>14. TypeOK'
  BY <1>1, <1>2 DEF IInv, TypeOK, WorkerTake, objVars, cliVars, Locations, ObjOrNull
<1>15. QueueInv'
  BY <1>4, <1>6, <1>7 DEF IInv, QueueInv
<1>16. DeferInv'
  BY <1>3, <1>7, <1>8 DEF IInv, TypeOK, DeferInv
<1>17. ThreadInv'
  BY <1>1, <1>3, <1>7, <1>8, <1>9, NpReqAssumption
  DEF IInv, TypeOK, ThreadInv, ObjOrNull
<1>18. ChainInv'
  <2>1. \A t, o \in Obj : Chained(t, o) => t # x /\ o # x
    BY <1>3, <1>10, NpReqAssumption DEF Chained
  <2>. QED  BY <1>6, <1>7, <1>8, <1>11, <1>12, <2>1 DEF IInv, ChainInv
<1>19. ReachedInv'
  BY <1>6, <1>7, <1>8, <1>10, <1>12 DEF IInv, ReachedInv
<1>20. WorkInv'
  BY <1>1, <1>7, <1>9, NpReqAssumption DEF IInv, TypeOK, WorkInv
<1>21. RefExact'
  BY <1>7, <1>13, KeepRefs DEF IInv
<1>. QED  BY <1>14, <1>15, <1>16, <1>17, <1>18, <1>19, <1>20, <1>21 DEF IInv

\* np_flush drops a queued request: the queue held its only reference.
LEMMA FlushPendingStep ==
    ASSUME IInv, NEW w \in Threads, FlushPending(w)
    PROVE  IInv'
<1>1. PICK i \in DOMAIN reqs :
        /\ msg[reqs[i]].tag = msg[req[w]].old
        /\ reqs' = RemoveAt(reqs, i)
        /\ np_req_unref(reqs[i])
        /\ csent' = [csent EXCEPT ![msg[reqs[i]].tag] =
                       IF @ = reqs[i] THEN Flushed ELSE @]
        /\ cnamed' = [f \in FlushTags |->
                       IF cnamed[f] = reqs[i] THEN NoObj ELSE cnamed[f]]
  BY DEF FlushPending
<1>2. PICK x \in Obj : x = reqs[i]
  BY DEF IInv, TypeOK
<1>3. pc[w] = "process" /\ req[w] \in Obj
  BY DEF FlushPending, IInv, ThreadInv, TypeOK, ObjOrNull
<1>4. /\ ~IsFlush(x)
      /\ x \notin workreqs /\ x \notin deferred
      /\ flushreq[x] = NoObj
      /\ \A th \in Threads : req[th] # x /\ held[th] # x
  <2>1. msg[x].tag \in Tags /\ msg[req[w]].old \in OpTags \cup {NoTag}
    BY <1>3 DEF IInv, TypeOK
  <2>2. msg[x].tag \in OpTags
    BY <1>1, <1>2, <2>1, NpReqAssumption
  <2>3. ~IsFlush(x)
    BY <2>2, NpReqAssumption DEF IsFlush
  <2>. QED  BY <1>2, <2>3 DEF IInv, QueueInv
<1>5. Owned(x) /\ refcount[x] = 1
  <2>1. Owned(x)
    BY <1>2 DEF Owned
  <2>. QED  BY <1>4, <2>1, Counts DEF IInv
<1>6. /\ reqs' \in Seq(Obj)
      /\ \A j, k \in DOMAIN reqs' : reqs'[j] = reqs'[k] => j = k
      /\ \A j \in DOMAIN reqs' : \E k \in DOMAIN reqs : k # i /\ reqs'[j] = reqs[k]
      /\ \A k \in DOMAIN reqs : k # i => \E j \in DOMAIN reqs' : reqs'[j] = reqs[k]
  <2>1. reqs \in Seq(Obj) /\ \A k, l \in DOMAIN reqs : reqs[k] = reqs[l] => k = l
    BY DEF IInv, TypeOK, QueueInv
  <2>. QED  BY <1>1, <2>1, RemoveAtRange
<1>7. /\ \A j \in DOMAIN reqs' : reqs'[j] # x
      /\ \A o \in Obj \ {x} : (\E j \in DOMAIN reqs' : reqs'[j] = o)
                              <=> (\E k \in DOMAIN reqs : reqs[k] = o)
  BY <1>2, <1>6 DEF IInv, QueueInv
<1>8. /\ \A o \in Obj \ {x} : refcount'[o] = refcount[o] /\ msg'[o] = msg[o]
      /\ refcount'[x] = 0
      /\ msg'[x] = NoMsg
  BY <1>1, <1>2, <1>5 DEF IInv, TypeOK, np_req_unref
<1>9. \A o \in Obj : IsFlush(o)' <=> IsFlush(o)
  BY <1>4, <1>8, NpReqAssumption DEF IsFlush, NoMsg
<1>10. /\ \A th \in Threads : pc'[th] = IF th = w THEN "mark" ELSE pc[th]
       /\ UNCHANGED <<responded, flushreq, workreqs, deferred, req, held, cur>>
  BY DEF IInv, TypeOK, FlushPending
<1>11. TypeOK'
  <2>1. refcount' \in [Obj -> Nat] /\ msg' \in [Obj -> [tag : Tags, old : OpTags \cup {NoTag}]]
    BY <1>1, <1>2, <1>5, NpReqAssumption DEF IInv, TypeOK, np_req_unref, NoMsg, Tags
  <2>2. csent' \in [Tags -> ObjOrNull \cup {Flushed}] /\ cnamed' \in [FlushTags -> ObjOrNull]
    BY <1>1 DEF IInv, TypeOK, ObjOrNull
  <2>. QED  BY <1>6, <2>1, <2>2 DEF IInv, TypeOK, FlushPending, Locations
<1>12. \A t, o \in Obj : Chained(t, o)' <=> Chained(t, o)
  BY <1>3, <1>4, <1>8, <1>9, <1>10 DEF Chained
<1>13. \A th \in Threads, o \in Obj : Reached(th, o)' <=> Reached(th, o)
  BY <1>3, <1>10 DEF Reached
<1>14. \A o \in Obj \ {x} : Owned(o)' <=> Owned(o)
  BY <1>7, <1>10, <1>12, <1>13 DEF Owned
<1>15. ~Owned(x)'
  <2>1. /\ \A t \in Obj : ~Chained(t, x)
        /\ \A th \in Threads : ~Reached(th, x)
    BY <1>4 DEF IInv, ChainInv, ReachedInv
  <2>. QED  BY <1>4, <1>7, <1>10, <1>12, <1>13, <2>1 DEF Owned
<1>16. QueueInv'
  BY <1>6, <1>10 DEF IInv, QueueInv
<1>17. DeferInv'
  BY <1>9, <1>10 DEF IInv, TypeOK, DeferInv
<1>18. ThreadInv'
  BY <1>3, <1>4, <1>8, <1>9, <1>10 DEF IInv, TypeOK, ThreadInv, ObjOrNull
<1>19. ChainInv'
  BY <1>6, <1>9, <1>10, <1>12, <1>13 DEF IInv, ChainInv
<1>20. ReachedInv'
  BY <1>6, <1>9, <1>10, <1>13 DEF IInv, ReachedInv
<1>21. WorkInv'
  BY <1>3, <1>10 DEF IInv, WorkInv
<1>22. RefExact'
  <2>1. Cardinality(HeldBy(x)) = 0
    BY <1>4, HeldCount
  <2>2. refcount'[x] = (IF Owned(x)' THEN 1 ELSE 0) + Cardinality(HeldBy(x))
    BY <1>8, <1>15, <2>1
  <2>. QED  BY <1>8, <1>10, <1>14, <2>2, KeepOther DEF IInv
<1>. QED  BY <1>11, <1>16, <1>17, <1>18, <1>19, <1>20, <1>21, <1>22 DEF IInv

\* np_flush links its Tflush y between the request x it names and the Tflush
\* x had been linked to, and takes a reference on x.
LEMMA FlushWorkingStep ==
    ASSUME IInv, NEW w \in Threads, FlushWorking(w)
    PROVE  IInv'
<1>1. PICK x \in workreqs :
        /\ msg[x].tag = msg[req[w]].old
        /\ refcount' = [refcount EXCEPT ![x] = @ + 1]
        /\ flushreq' = [flushreq EXCEPT ![req[w]] = flushreq[x], ![x] = req[w]]
        /\ held' = [held EXCEPT ![w] = x]
  BY DEF FlushWorking
<1>2. PICK y \in Obj : y = req[w] /\ pc[w] = "process" /\ IsFlush(y)
  BY DEF FlushWorking, IInv, ThreadInv, TypeOK, ObjOrNull
<1>3. x \in Obj /\ ~IsFlush(x) /\ x # y
  <2>1. x \in Obj
    BY DEF IInv, TypeOK
  <2>2. msg[x].tag \in Tags /\ msg[y].old \in OpTags \cup {NoTag}
    BY <2>1 DEF IInv, TypeOK
  <2>3. msg[x].tag \in OpTags
    BY <1>1, <1>2, <2>2, NpReqAssumption
  <2>4. ~IsFlush(x)
    BY <2>3, NpReqAssumption DEF IsFlush
  <2>. QED  BY <1>2, <2>1, <2>4
<1>4. /\ y \in workreqs /\ flushreq[y] = NoObj /\ held[w] = NoObj
      /\ \A i \in DOMAIN reqs : reqs[i] # y /\ reqs[i] # x
      /\ \A th \in Threads : th # w => req[th] # y
      /\ \A th \in Threads : ~Reached(th, y)
      /\ \A t \in Obj : ~Chained(t, y)
  BY <1>2, <1>3, NpReqAssumption DEF IInv, ThreadInv, QueueInv, ReachedInv, ChainInv
<1>5. refcount[x] \in Nat /\ refcount[x] > 0 /\ refcount[y] \in Nat /\ refcount[y] > 0
  <2>1. Owned(x) /\ Owned(y)
    BY <1>1, <1>4, WorkOwned DEF IInv
  <2>. QED  BY <1>2, <1>3, <2>1, Counts DEF IInv
<1>6. PICK g \in ObjOrNull : g = flushreq[x]
  BY <1>3 DEF IInv, TypeOK
<1>7. /\ \A o \in Obj \ {x, y} : flushreq'[o] = flushreq[o]
      /\ flushreq'[x] = y /\ flushreq'[y] = g
  BY <1>1, <1>2, <1>3, <1>6 DEF IInv, TypeOK
<1>8. /\ \A o \in Obj \ {x} : refcount'[o] = refcount[o]
      /\ refcount'[x] = refcount[x] + 1
  BY <1>1, <1>3 DEF IInv, TypeOK
<1>9. /\ \A th \in Threads : pc'[th] = IF th = w THEN "flushcb" ELSE pc[th]
      /\ \A th \in Threads : req'[th] = IF th = w THEN NoObj ELSE req[th]
      /\ \A th \in Threads : held'[th] = IF th = w THEN x ELSE held[th]
      /\ UNCHANGED <<msg, responded, reqs, workreqs, deferred, cur>>
  BY <1>1 DEF IInv, TypeOK, FlushWorking, srvVars
<1>10. \A o \in Obj : IsFlush(o)' <=> IsFlush(o)
  BY <1>9 DEF IsFlush
<1>11. TypeOK'
  <2>1. refcount' \in [Obj -> Nat] /\ held' \in [Threads -> ObjOrNull]
    BY <1>1, <1>3 DEF IInv, TypeOK, ObjOrNull
  <2>3. flushreq' \in [Obj -> ObjOrNull]
    <3>1. flushreq[x] \in ObjOrNull /\ req[w] \in ObjOrNull
      BY <1>2, <1>3 DEF IInv, TypeOK
    <3>. QED  BY <1>1, <3>1 DEF IInv, TypeOK
  <2>2. pc' \in [Threads -> Locations] /\ req' \in [Threads -> ObjOrNull]
    BY DEF IInv, TypeOK, FlushWorking, Locations, ObjOrNull
  <2>. QED  BY <2>1, <2>2, <2>3 DEF IInv, TypeOK, FlushWorking, srvVars, cliVars
<1>12. \A o \in Obj : Chained(x, o) <=> g = o
  BY <1>1, <1>3, <1>6 DEF Chained
<1>13. \A o \in Obj : /\ Chained(x, o)' <=> o = y
                      /\ Chained(y, o)' <=> o = g
                      /\ ~Chained(y, o)
  <2>1. \A o \in Obj : (Chained(x, o)' <=> o = y) /\ (Chained(y, o)' <=> o = g)
    BY <1>1, <1>4, <1>7, <1>9 DEF Chained
  <2>2. \A o \in Obj : ~Chained(y, o)
    BY <1>4, NpReqAssumption DEF Chained
  <2>. QED  BY <2>1, <2>2
<1>14. \A t \in Obj \ {x, y}, o \in Obj : Chained(t, o)' <=> Chained(t, o)
  BY <1>2, <1>7, <1>8, <1>9, <1>10, NpReqAssumption DEF Chained
<1>15. \A th \in Threads, o \in Obj : Reached(th, o)' <=> Reached(th, o)
  <2>1. \A th \in Threads : pc[th] = "next" => cur[th] \in Obj \ {x, y}
    BY <1>5 DEF IInv, ThreadInv
  <2>. QED  BY <1>2, <1>7, <1>9, <2>1 DEF Reached
<1>16. g # y
  BY <1>2, <1>3, <1>4, <1>12
<1>17. \A o \in Obj : Owned(o)' <=> Owned(o)
  <2>1. Owned(y) /\ Owned(y)'
    BY <1>2, <1>3, <1>9, <1>13 DEF Owned
  <2>2. ASSUME NEW o \in Obj \ {y}
        PROVE  /\ (\E t \in Obj : Chained(t, o)') <=> (\E t \in Obj : Chained(t, o))
               /\ (\E th \in Threads : req'[th] = o) <=> (\E th \in Threads : req[th] = o)
    BY <1>2, <1>3, <1>9, <1>12, <1>13, <1>14, NpReqAssumption
  <2>3. \A o \in Obj \ {y} : Owned(o)' <=> Owned(o)
    BY <1>9, <1>15, <2>2 DEF Owned
  <2>. QED  BY <2>1, <2>3
<1>18. QueueInv'
  BY <1>4, <1>7, <1>9, NpReqAssumption DEF IInv, TypeOK, QueueInv
<1>19. DeferInv'
  BY <1>9, <1>10, NpReqAssumption DEF IInv, TypeOK, DeferInv
<1>20. ThreadInv'
  BY <1>2, <1>3, <1>4, <1>5, <1>7, <1>8, <1>9, <1>10, NpReqAssumption
  DEF IInv, TypeOK, ThreadInv, ObjOrNull
<1>21. ChainInv'
  <2>. SUFFICES ASSUME NEW t \in Obj, NEW o \in Obj, Chained(t, o)'
                PROVE  /\ IsFlush(o)'
                       /\ \A i \in DOMAIN reqs' : reqs'[i] # o
                       /\ \A th \in Threads : req'[th] # o /\ ~Reached(th, o)'
                       /\ \A u \in Obj : Chained(u, o)' => u = t
                       /\ t \in workreqs' <=> o \in workreqs'
    BY DEF ChainInv
  <2>1. CASE t = x
    <3>1. o = y
      BY <1>13, <2>1
    <3>2. \A u \in Obj : Chained(u, y)' => u = x
      BY <1>4, <1>13, <1>14, <1>16
    <3>. QED  BY <1>2, <1>4, <1>9, <1>10, <1>15, <2>1, <3>1, <3>2, NpReqAssumption
  <2>2. CASE t = y
    <3>1. o = g /\ Chained(x, o)
      BY <1>12, <1>13, <2>2
    <3>2. /\ IsFlush(o) /\ o \in workreqs
          /\ \A i \in DOMAIN reqs : reqs[i] # o
          /\ \A th \in Threads : req[th] # o /\ ~Reached(th, o)
          /\ \A u \in Obj : Chained(u, o) => u = x
      BY <1>1, <1>3, <3>1 DEF IInv, ChainInv
    <3>3. \A u \in Obj : Chained(u, o)' => u = y
      BY <1>13, <1>14, <1>16, <3>1, <3>2
    <3>. QED  BY <1>4, <1>9, <1>10, <1>15, <2>2, <3>2, <3>3, NpReqAssumption
  <2>3. CASE t # x /\ t # y
    <3>1. Chained(t, o)
      BY <1>14, <2>3
    <3>2. o # y /\ o # g
      BY <1>3, <1>4, <1>12, <2>3, <3>1 DEF IInv, ChainInv
    <3>3. \A u \in Obj : Chained(u, o)' => Chained(u, o)
      BY <1>13, <1>14, <3>2
    <3>. QED  BY <1>9, <1>10, <1>15, <3>1, <3>3, NpReqAssumption DEF IInv, ChainInv
  <2>. QED  BY <2>1, <2>2, <2>3
<1>22. ReachedInv'
  BY <1>9, <1>10, <1>15, NpReqAssumption DEF IInv, ReachedInv
<1>23. WorkInv'
  <2>. SUFFICES ASSUME NEW o \in workreqs
                PROVE  \/ o \in deferred
                       \/ \E th \in Threads :
                            req'[th] = o /\ pc'[th] \in {"process", "mark", "unlink"}
                       \/ \E t \in workreqs : flushreq'[t] = o
    BY <1>9 DEF WorkInv
  <2>1. CASE o = y
    BY <1>7, <2>1
  <2>2. CASE o # y /\ \E th \in Threads :
                        req[th] = o /\ pc[th] \in {"process", "mark", "unlink"}
    BY <1>2, <1>9, <2>2
  <2>3. CASE \E t \in workreqs : flushreq[t] = o
    <3>1. PICK t \in workreqs : flushreq[t] = o
      BY <2>3
    <3>2. t \in Obj /\ o \in Obj
      BY DEF IInv, TypeOK
    <3>3. t # y
      BY <1>4, <3>1, <3>2, NpReqAssumption
    <3>4. CASE t = x
      BY <1>4, <1>6, <1>7, <3>1, <3>4
    <3>5. CASE t # x
      BY <1>7, <3>1, <3>2, <3>3, <3>5
    <3>. QED  BY <3>4, <3>5
  <2>. QED  BY <2>1, <2>2, <2>3 DEF IInv, WorkInv
<1>24. RefExact'
  <2>1. \A o \in Obj \ {x} : HeldBy(o)' = HeldBy(o)
    BY <1>4, <1>9, NpReqAssumption DEF HeldBy
  <2>2. HeldBy(x)' = HeldBy(x) \cup {w} /\ w \notin HeldBy(x)
    BY <1>3, <1>4, <1>9, NpReqAssumption DEF HeldBy
  <2>3. IsFiniteSet(HeldBy(x)) /\ Cardinality(HeldBy(x)) \in Nat
    BY <1>3, HeldCount
  <2>4. Cardinality(HeldBy(x) \cup {w}) = Cardinality(HeldBy(x)) + 1
    BY <2>2, <2>3, FS_AddElement
  <2>5. refcount'[x] = (IF Owned(x)' THEN 1 ELSE 0) + Cardinality(HeldBy(x)')
    <3>1. refcount[x] = (IF Owned(x) THEN 1 ELSE 0) + Cardinality(HeldBy(x))
      BY <1>3 DEF IInv, RefExact
    <3>2. Cardinality(HeldBy(x)') = Cardinality(HeldBy(x)) + 1
      BY <2>2, <2>4
    <3>3. Owned(x)' <=> Owned(x)
      BY <1>3, <1>17
    <3>. QED  BY <1>5, <1>8, <2>3, <3>1, <3>2, <3>3
  <2>6. ASSUME NEW o \in Obj \ {x}
        PROVE  refcount'[o] = (IF Owned(o)' THEN 1 ELSE 0) + Cardinality(HeldBy(o)')
    BY <1>8, <1>17, <2>1 DEF IInv, RefExact
  <2>. QED  BY <2>5, <2>6 DEF RefExact
<1>. QED  BY <1>11, <1>18, <1>19, <1>20, <1>21, <1>22, <1>23, <1>24 DEF IInv

\* np_flush gives its reference back: the request loses one holder and keeps
\* its owner, if it still has one.
LEMMA FlushUnrefStep ==
    ASSUME IInv, NEW w \in Threads, FlushUnref(w)
    PROVE  IInv'
<1>1. PICK x \in Obj : /\ x = held[w]
                       /\ ~IsFlush(x) /\ pc[w] = "flushunref"
  BY NpReqAssumption DEF FlushUnref, IInv, ThreadInv
<1>2. refcount[x] \in Nat /\ refcount[x] > 0
  BY <1>1, Counts DEF IInv
<1>3. TypeOK'
  BY <1>1, <1>2, NpReqAssumption
  DEF IInv, TypeOK, FlushUnref, np_req_unref, srvVars, cliVars, NoMsg, Tags,
      Locations, ObjOrNull
<1>4. /\ \A o \in Obj \ {x} : refcount'[o] = refcount[o] /\ msg'[o] = msg[o]
      /\ refcount'[x] = refcount[x] - 1
      /\ msg'[x] \in {msg[x], NoMsg}
  BY <1>1 DEF IInv, TypeOK, FlushUnref, np_req_unref
<1>5. \A o \in Obj : IsFlush(o)' <=> IsFlush(o)
  BY <1>1, <1>4, NpReqAssumption DEF IsFlush, NoMsg
<1>6. /\ \A th \in Threads : pc'[th] = IF th = w THEN "idle" ELSE pc[th]
      /\ \A th \in Threads : held'[th] = IF th = w THEN NoObj ELSE held[th]
      /\ UNCHANGED <<responded, flushreq, reqs, workreqs, deferred, req, cur>>
  BY DEF IInv, TypeOK, FlushUnref, srvVars
<1>7. \A t, o \in Obj : Chained(t, o)' <=> Chained(t, o)
  BY <1>1, <1>4, <1>5, <1>6 DEF Chained
<1>8. \A th \in Threads, o \in Obj : Reached(th, o)' <=> Reached(th, o)
  BY <1>1, <1>6 DEF Reached
<1>9. \A o \in Obj : Owned(o)' <=> Owned(o)
  BY <1>6, <1>7, <1>8 DEF Owned
<1>10. QueueInv'
  BY <1>6, NpReqAssumption DEF IInv, TypeOK, QueueInv
<1>11. DeferInv'
  BY <1>5, <1>6 DEF IInv, TypeOK, DeferInv
<1>12. ThreadInv'
  BY <1>1, <1>2, <1>4, <1>5, <1>6 DEF IInv, TypeOK, ThreadInv, ObjOrNull
<1>13. ChainInv'
  BY <1>5, <1>6, <1>7, <1>8 DEF IInv, ChainInv
<1>14. ReachedInv'
  BY <1>5, <1>6, <1>8 DEF IInv, ReachedInv
<1>15. WorkInv'
  BY <1>1, <1>6 DEF IInv, WorkInv
<1>16. RefExact'
  <2>1. \A o \in Obj \ {x} : HeldBy(o)' = HeldBy(o)
    BY <1>1, <1>6, NpReqAssumption DEF HeldBy
  <2>2. HeldBy(x)' = HeldBy(x) \ {w} /\ w \in HeldBy(x)
    BY <1>1, <1>6, NpReqAssumption DEF HeldBy
  <2>3. IsFiniteSet(HeldBy(x)) /\ Cardinality(HeldBy(x)) \in Nat
    BY <1>1, HeldCount
  <2>4. Cardinality(HeldBy(x) \ {w}) = Cardinality(HeldBy(x)) - 1
    BY <2>2, <2>3, FS_RemoveElement
  <2>5. refcount'[x] = (IF Owned(x)' THEN 1 ELSE 0) + Cardinality(HeldBy(x)')
    <3>1. refcount[x] = (IF Owned(x) THEN 1 ELSE 0) + Cardinality(HeldBy(x))
      BY <1>1 DEF IInv, RefExact
    <3>2. Cardinality(HeldBy(x)') = Cardinality(HeldBy(x)) - 1
      BY <2>2, <2>4
    <3>3. Owned(x)' <=> Owned(x)
      BY <1>1, <1>9
    <3>. QED  BY <1>2, <1>4, <2>3, <3>1, <3>2, <3>3
  <2>6. ASSUME NEW o \in Obj \ {x}
        PROVE  refcount'[o] = (IF Owned(o)' THEN 1 ELSE 0) + Cardinality(HeldBy(o)')
    BY <1>4, <1>9, <2>1 DEF IInv, RefExact
  <2>. QED  BY <2>5, <2>6 DEF RefExact
<1>. QED  BY <1>3, <1>10, <1>11, <1>12, <1>13, <1>14, <1>15, <1>16 DEF IInv

\* np_respond returns: nobody else answers the request it gives up.
LEMMA RespondDoneStep ==
    ASSUME IInv, NEW w \in Threads, RespondDone(w)
    PROVE  IInv'
<1>1. PICK x \in Obj : /\ x = req[w]
                       /\ pc[w] = "chain" /\ cur[w] = NoObj /\ x \notin workreqs
  BY DEF RespondDone, IInv, TypeOK, ThreadInv, ObjOrNull
<1>2. Owned(x) /\ refcount[x] \in Nat /\ refcount[x] > 0
  BY <1>1, Counts DEF IInv, Owned
<1>3. TypeOK'
  BY <1>1, <1>2, NpReqAssumption
  DEF IInv, TypeOK, RespondDone, np_req_unref, Return, srvVars, cliVars, NoMsg, Tags,
      Locations, ObjOrNull
<1>4. /\ \A o \in Obj \ {x} : refcount'[o] = refcount[o] /\ msg'[o] = msg[o]
      /\ refcount'[x] = refcount[x] - 1
      /\ msg'[x] \in {msg[x], NoMsg}
  BY <1>1 DEF IInv, TypeOK, RespondDone, np_req_unref
<1>5. /\ \A o \in Obj \ {x} : IsFlush(o)' <=> IsFlush(o)
      /\ IsFlush(x)' => IsFlush(x)
  BY <1>1, <1>4, NpReqAssumption DEF IsFlush, NoMsg
<1>6. /\ \A th \in Threads : pc'[th] = IF th = w THEN Return(w) ELSE pc[th]
      /\ \A th \in Threads : req'[th] = IF th = w THEN NoObj ELSE req[th]
      /\ UNCHANGED <<responded, flushreq, reqs, workreqs, deferred, held, cur>>
  BY DEF IInv, TypeOK, RespondDone, srvVars
<1>7. \A t, o \in Obj : Chained(t, o)' <=> Chained(t, o)
  <2>1. \A o \in Obj : ~Chained(x, o) /\ ~Chained(x, o)'
    BY <1>1, <1>5, <1>6, NpReqAssumption DEF Chained, IInv, ThreadInv
  <2>2. \A t \in Obj \ {x}, o \in Obj : Chained(t, o)' <=> Chained(t, o)
    BY <1>1, <1>4, <1>5, <1>6, NpReqAssumption DEF Chained, Return
  <2>. QED  BY <2>1, <2>2
<1>8. \A th \in Threads, o \in Obj : Reached(th, o)' <=> Reached(th, o)
  BY <1>1, <1>6, NpReqAssumption DEF Reached, Return
<1>9. \A o \in Obj \ {x} : Owned(o)' <=> Owned(o)
  BY <1>1, <1>6, <1>7, <1>8, NpReqAssumption DEF Owned
<1>10. ~Owned(x)'
  <2>1. /\ \A i \in DOMAIN reqs : reqs[i] # x
        /\ x \notin deferred
        /\ \A th \in Threads : th # w => req[th] # x
        /\ \A t \in Obj : ~Chained(t, x)
        /\ \A th \in Threads : ~Reached(th, x)
    BY <1>1, NpReqAssumption
    DEF IInv, QueueInv, DeferInv, ThreadInv, ChainInv, ReachedInv
  <2>. QED  BY <1>1, <1>6, <1>7, <1>8, <2>1, NpReqAssumption DEF Owned
<1>11. QueueInv'
  BY <1>6, NpReqAssumption DEF IInv, TypeOK, QueueInv
<1>12. DeferInv'
  BY <1>1, <1>5, <1>6, NpReqAssumption DEF IInv, TypeOK, DeferInv
<1>13. ThreadInv'
  BY <1>1, <1>2, <1>4, <1>5, <1>6, NpReqAssumption
  DEF IInv, TypeOK, ThreadInv, ObjOrNull, Return
<1>14. ChainInv'
  BY <1>1, <1>5, <1>6, <1>7, <1>8, NpReqAssumption DEF IInv, ChainInv
<1>15. ReachedInv'
  BY <1>1, <1>5, <1>6, <1>8, NpReqAssumption DEF IInv, ReachedInv
<1>16. WorkInv'
  BY <1>1, <1>6 DEF IInv, WorkInv
<1>17. RefExact'
  <2>1. refcount[x] = 1 + Cardinality(HeldBy(x))
    BY <1>1, <1>2 DEF IInv, RefExact
  <2>2. Cardinality(HeldBy(x)) \in Nat
    BY <1>1, HeldCount
  <2>3. refcount'[x] = (IF Owned(x)' THEN 1 ELSE 0) + Cardinality(HeldBy(x))
    BY <1>4, <1>10, <2>1, <2>2
  <2>. QED  BY <1>1, <1>4, <1>6, <1>9, <2>3, KeepOther DEF IInv
<1>. QED  BY <1>3, <1>11, <1>12, <1>13, <1>14, <1>15, <1>16, <1>17 DEF IInv

\* The reply is written and np_respond enters the chain: the Tflush linked to
\* the request becomes the one np_respond has come to.
LEMMA RespondSendStep ==
    ASSUME IInv, NEW w \in Threads, RespondSend(w)
    PROVE  IInv'
<1>1. PICK x \in Obj : /\ x = req[w]
                       /\ pc[w] = "send" /\ x \notin workreqs
  BY DEF RespondSend, IInv, TypeOK, ThreadInv, ObjOrNull
<1>2. TypeOK'
  <2>1. /\ csent' \in [Tags -> ObjOrNull \cup {Flushed}]
        /\ cold' \in [FlushTags -> OpTags \cup {NoTag}]
        /\ cnamed' \in [FlushTags -> ObjOrNull]
    BY <1>1, RespondTypes DEF IInv, RespondSend
  <2>. QED  BY <1>1, <2>1
       DEF IInv, TypeOK, RespondSend, objVars, srvVars, Locations, ObjOrNull
<1>3. /\ \A th \in Threads : pc'[th] = IF th = w THEN "chain" ELSE pc[th]
      /\ \A th \in Threads : cur'[th] = IF th = w THEN flushreq[x] ELSE cur[th]
      /\ UNCHANGED <<refcount, msg, responded, flushreq, reqs, workreqs,
                     deferred, req, held>>
  BY <1>1 DEF IInv, TypeOK, RespondSend, objVars, srvVars
<1>4. \A o \in Obj : IsFlush(o)' <=> IsFlush(o)
  BY <1>3 DEF IsFlush
<1>5. \A o \in Obj : Chained(x, o) <=> flushreq[x] = o
  BY <1>1 DEF Chained
<1>6. \A o \in Obj : ~Chained(x, o)'
  BY <1>1, <1>3, <1>4, NpReqAssumption DEF Chained, IInv, ThreadInv
<1>7. \A t \in Obj \ {x}, o \in Obj : Chained(t, o)' <=> Chained(t, o)
  BY <1>1, <1>3, <1>4 DEF Chained
<1>8. \A o \in Obj : /\ ~Reached(w, o)
                     /\ Reached(w, o)' <=> flushreq[x] = o
  BY <1>1, <1>3 DEF Reached
<1>9. \A th \in Threads \ {w}, o \in Obj : Reached(th, o)' <=> Reached(th, o)
  BY <1>3 DEF Reached
<1>10. \A o \in Obj : Owned(o)' <=> Owned(o)
  BY <1>1, <1>3, <1>5, <1>6, <1>7, <1>8, <1>9 DEF Owned
<1>11. QueueInv'
  BY <1>3 DEF IInv, QueueInv
<1>12. DeferInv'
  BY <1>3, <1>4 DEF IInv, TypeOK, DeferInv
<1>13. ThreadInv'
  BY <1>1, <1>3, <1>4 DEF IInv, TypeOK, ThreadInv, ObjOrNull
<1>14. ChainInv'
  <2>. SUFFICES ASSUME NEW t \in Obj, NEW o \in Obj, Chained(t, o)'
                PROVE  /\ IsFlush(o)'
                       /\ \A i \in DOMAIN reqs' : reqs'[i] # o
                       /\ \A th \in Threads : req'[th] # o /\ ~Reached(th, o)'
                       /\ \A u \in Obj : Chained(u, o)' => u = t
                       /\ t \in workreqs' <=> o \in workreqs'
    BY DEF ChainInv
  <2>1. t # x /\ Chained(t, o)
    BY <1>6, <1>7
  <2>2. flushreq[x] # o
    BY <1>1, <1>5, <2>1 DEF IInv, ChainInv
  <2>. QED  BY <1>3, <1>4, <1>6, <1>7, <1>8, <1>9, <2>1, <2>2 DEF IInv, ChainInv
<1>15. ReachedInv'
  <2>. SUFFICES ASSUME NEW th \in Threads, NEW o \in Obj, Reached(th, o)'
                PROVE  /\ IsFlush(o)'
                       /\ o \notin workreqs'
                       /\ \A i \in DOMAIN reqs' : reqs'[i] # o
                       /\ \A u \in Threads : req'[u] # o
                       /\ \A u \in Threads : Reached(u, o)' => u = th
    BY DEF ReachedInv
  <2>1. CASE th = w
    <3>1. Chained(x, o)
      BY <1>5, <1>8, <2>1
    <3>2. /\ IsFlush(o) /\ o \notin workreqs
          /\ \A i \in DOMAIN reqs : reqs[i] # o
          /\ \A u \in Threads : req[u] # o /\ ~Reached(u, o)
      BY <1>1, <3>1 DEF IInv, ChainInv
    <3>. QED  BY <1>3, <1>4, <1>9, <2>1, <3>2
  <2>2. CASE th # w
    <3>1. Reached(th, o)
      BY <1>9, <2>2
    <3>2. ~Chained(x, o)
      BY <1>1, <3>1 DEF IInv, ChainInv
    <3>3. ~Reached(w, o)'
      BY <1>5, <1>8, <3>2
    <3>. QED  BY <1>3, <1>4, <1>9, <3>1, <3>3 DEF IInv, ReachedInv
  <2>. QED  BY <2>1, <2>2
<1>16. WorkInv'
  BY <1>1, <1>3 DEF IInv, WorkInv
<1>17. RefExact'
  BY <1>3, <1>10, KeepRefs DEF IInv
<1>. QED  BY <1>2, <1>11, <1>12, <1>13, <1>14, <1>15, <1>16, <1>17 DEF IInv

\* One Tflush is answered: np_respond holds its only reference, so the memory
\* is recycled, and what it is linked to is what np_respond has come to.
LEMMA RespondFlushStep ==
    ASSUME IInv, NEW w \in Threads, RespondFlush(w)
    PROVE  IInv'
<1>1. PICK x \in Obj : /\ x = cur[w]
                       /\ pc[w] = "chain" /\ Reached(w, x)
  BY DEF RespondFlush, IInv, TypeOK, ObjOrNull, Reached
<1>2. /\ IsFlush(x)
      /\ x \notin workreqs /\ x \notin deferred
      /\ \A i \in DOMAIN reqs : reqs[i] # x
      /\ \A u \in Threads : req[u] # x
      /\ \A u \in Threads : Reached(u, x) => u = w
      /\ \A t \in Obj : ~Chained(t, x)
  BY <1>1 DEF IInv, ReachedInv, ChainInv, DeferInv
<1>3. \A th \in Threads : held[th] # x
  BY <1>1, <1>2, NpReqAssumption DEF IInv, ThreadInv
<1>4. Owned(x) /\ refcount[x] = 1
  <2>1. Owned(x)
    BY <1>1 DEF Owned
  <2>. QED  BY <1>1, <1>3, <2>1, Counts DEF IInv
<1>5. TypeOK'
  <2>1. /\ csent' \in [Tags -> ObjOrNull \cup {Flushed}]
        /\ cold' \in [FlushTags -> OpTags \cup {NoTag}]
        /\ cnamed' \in [FlushTags -> ObjOrNull]
    BY <1>1, RespondTypes DEF IInv, RespondFlush
  <2>. QED  BY <1>1, <1>4, <2>1, NpReqAssumption
       DEF IInv, TypeOK, RespondFlush, np_req_unref, srvVars, Locations, ObjOrNull,
           NoMsg, Tags
<1>6. /\ \A o \in Obj \ {x} : refcount'[o] = refcount[o] /\ msg'[o] = msg[o]
      /\ refcount'[x] = 0
      /\ msg'[x] = NoMsg
  BY <1>1, <1>4 DEF IInv, TypeOK, RespondFlush, np_req_unref
<1>7. /\ \A o \in Obj \ {x} : IsFlush(o)' <=> IsFlush(o)
      /\ ~IsFlush(x)'
  BY <1>1, <1>6, NpReqAssumption DEF IsFlush, NoMsg
<1>8. /\ \A th \in Threads : pc'[th] = IF th = w THEN "next" ELSE pc[th]
      /\ UNCHANGED <<responded, flushreq, reqs, workreqs, deferred, req, held, cur>>
  BY DEF IInv, TypeOK, RespondFlush, srvVars
<1>9. \A o \in Obj : Chained(x, o) <=> flushreq[x] = o
  BY <1>1, <1>2, <1>4 DEF Chained
<1>10. \A o \in Obj : ~Chained(x, o)'
  BY <1>2, <1>7, <1>8 DEF Chained
<1>11. \A t \in Obj \ {x}, o \in Obj : Chained(t, o)' <=> Chained(t, o)
  BY <1>1, <1>6, <1>7, <1>8 DEF Chained
<1>12. \A o \in Obj : /\ Reached(w, o) <=> o = x
                      /\ Reached(w, o)' <=> flushreq[x] = o
  BY <1>1, <1>8 DEF Reached
<1>13. \A th \in Threads \ {w}, o \in Obj : Reached(th, o)' <=> Reached(th, o)
  BY <1>8 DEF Reached
<1>14. flushreq[x] # x
  BY <1>1, <1>2, <1>9
<1>15. \A o \in Obj \ {x} : Owned(o)' <=> Owned(o)
  BY <1>1, <1>8, <1>9, <1>10, <1>11, <1>12, <1>13 DEF Owned
<1>16. ~Owned(x)'
  BY <1>1, <1>2, <1>8, <1>10, <1>11, <1>12, <1>13, <1>14 DEF Owned
<1>17. QueueInv'
  BY <1>8 DEF IInv, QueueInv
<1>18. DeferInv'
  BY <1>2, <1>7, <1>8 DEF IInv, TypeOK, DeferInv
<1>19. ThreadInv'
  BY <1>1, <1>2, <1>3, <1>6, <1>7, <1>8 DEF IInv, TypeOK, ThreadInv, ObjOrNull
<1>20. ChainInv'
  <2>. SUFFICES ASSUME NEW t \in Obj, NEW o \in Obj, Chained(t, o)'
                PROVE  /\ IsFlush(o)'
                       /\ \A i \in DOMAIN reqs' : reqs'[i] # o
                       /\ \A th \in Threads : req'[th] # o /\ ~Reached(th, o)'
                       /\ \A u \in Obj : Chained(u, o)' => u = t
                       /\ t \in workreqs' <=> o \in workreqs'
    BY DEF ChainInv
  <2>1. t # x /\ Chained(t, o)
    BY <1>10, <1>11
  <2>2. o # x /\ flushreq[x] # o
    BY <1>1, <1>2, <1>9, <2>1 DEF IInv, ChainInv
  <2>. QED  BY <1>7, <1>8, <1>10, <1>11, <1>12, <1>13, <2>1, <2>2
            DEF IInv, ChainInv
<1>21. ReachedInv'
  <2>. SUFFICES ASSUME NEW th \in Threads, NEW o \in Obj, Reached(th, o)'
                PROVE  /\ IsFlush(o)'
                       /\ o \notin workreqs'
                       /\ \A i \in DOMAIN reqs' : reqs'[i] # o
                       /\ \A u \in Threads : req'[u] # o
                       /\ \A u \in Threads : Reached(u, o)' => u = th
    BY DEF ReachedInv
  <2>1. CASE th = w
    <3>1. Chained(x, o) /\ o # x
      BY <1>9, <1>12, <1>14, <2>1
    <3>2. /\ IsFlush(o) /\ o \notin workreqs
          /\ \A i \in DOMAIN reqs : reqs[i] # o
          /\ \A u \in Threads : req[u] # o /\ ~Reached(u, o)
      BY <1>1, <1>2, <3>1 DEF IInv, ChainInv
    <3>. QED  BY <1>7, <1>8, <1>13, <2>1, <3>1, <3>2
  <2>2. CASE th # w
    <3>1. Reached(th, o) /\ o # x
      BY <1>2, <1>13, <2>2
    <3>2. ~Chained(x, o)
      BY <1>1, <3>1 DEF IInv, ChainInv
    <3>3. ~Reached(w, o)'
      BY <1>9, <1>12, <3>2
    <3>. QED  BY <1>7, <1>8, <1>13, <3>1, <3>3 DEF IInv, ReachedInv
  <2>. QED  BY <2>1, <2>2
<1>22. WorkInv'
  BY <1>1, <1>8 DEF IInv, WorkInv
<1>23. RefExact'
  <2>1. Cardinality(HeldBy(x)) = 0
    BY <1>1, <1>3, HeldCount
  <2>2. refcount'[x] = (IF Owned(x)' THEN 1 ELSE 0) + Cardinality(HeldBy(x))
    BY <1>6, <1>16, <2>1
  <2>. QED  BY <1>1, <1>6, <1>8, <1>15, <2>2, KeepOther DEF IInv
<1>. QED  BY <1>5, <1>17, <1>18, <1>19, <1>20, <1>21, <1>22, <1>23 DEF IInv

\* np_respond as a whole.
LEMMA np_respondStep ==
    ASSUME IInv, NEW w \in Threads, np_respond(w)
    PROVE  IInv'
  BY RespondMarkStep, RespondUnlinkStep, RespondSendStep, RespondFlushStep,
     RespondNextStep, RespondDoneStep DEF np_respond

\* A worker's steps preserve the invariant.
LEMMA WorkerStep ==
    ASSUME IInv, NEW w \in Workers, Worker(w)
    PROVE  IInv'
<1>1. w \in Threads
  BY DEF Threads
<1>2. pc \in [Threads -> Locations] /\ asleep \in SUBSET Workers
  BY DEF IInv, TypeOK
<1>3. CASE WorkerWait(w)
  <2>1. pc' = [pc EXCEPT ![w] = pc[w]]
    BY <1>2, <1>3 DEF WorkerWait
  <2>2. UNCHANGED <<objVars, srvVars, req, held, cur, cliVars>>
        /\ asleep' \in SUBSET Workers
    BY <1>2, <1>3 DEF WorkerWait
  <2>. QED  BY <1>1, <2>1, <2>2, MoveStep
<1>4. CASE ProcessReply(w) \/ FlushNotFound(w)
  <2>1. /\ pc[w] = "process" /\ pc' = [pc EXCEPT ![w] = "mark"]
        /\ UNCHANGED <<objVars, srvVars, req, held, cur, cliVars>>
        /\ asleep' \in SUBSET Workers
    BY <1>2, <1>4 DEF ProcessReply, FlushNotFound
  <2>. QED  BY <1>1, <2>1, MoveStep
<1>5. CASE FlushCallback(w)
  <2>1. /\ pc[w] = "flushcb" /\ pc' = [pc EXCEPT ![w] = "flushunref"]
        /\ UNCHANGED <<objVars, srvVars, req, held, cur, cliVars>>
        /\ asleep' \in SUBSET Workers
    BY <1>2, <1>5 DEF FlushCallback
  <2>. QED  BY <1>1, <2>1, MoveStep
<1>6. CASE FlushCancel(w)
  BY <1>1, <1>6, UndeferStep DEF FlushCancel
<1>7. CASE WorkerTake(w)
  BY <1>1, <1>7, WorkerTakeStep
<1>8. CASE ProcessDefer(w)
  BY <1>1, <1>8, ProcessDeferStep
<1>9. CASE FlushPending(w)
  BY <1>1, <1>9, FlushPendingStep
<1>10. CASE FlushWorking(w)
  BY <1>1, <1>10, FlushWorkingStep
<1>11. CASE FlushUnref(w)
  BY <1>1, <1>11, FlushUnrefStep
<1>12. CASE np_respond(w)
  BY <1>1, <1>12, np_respondStep
<1>. QED  BY <1>3, <1>4, <1>5, <1>6, <1>7, <1>8, <1>9, <1>10, <1>11, <1>12
          DEF Worker

\* The steps of a thread of the file server preserve it.
LEMMA CompleterStep ==
    ASSUME IInv, NEW c \in Completers, Completer(c)
    PROVE  IInv'
<1>1. c \in Threads
  BY DEF Threads
<1>2. CASE np_respond(c)
  BY <1>1, <1>2, np_respondStep
<1>3. ASSUME NEW o \in Obj, Complete(c, o)
      PROVE  IInv'
  BY <1>1, <1>3, UndeferStep DEF Complete
<1>. QED  BY <1>2, <1>3 DEF Completer

\* A message the reader queues preserves it, when memory is not handed out
\* while np_respond still has to read it.
LEMMA ClientStep ==
    ASSUME IInv, ReuseInWindow = FALSE, Client
    PROVE  IInv'
<1>1. PICK x \in Obj, t \in OpTags :
         ReadOp(t, x) \/ \E f \in FlushTags : ReadFlush(f, t, x)
  BY DEF Client
<1>2. CASE ReadOp(t, x)
  <2>1. t \in Tags /\ [tag |-> t, old |-> NoTag] \in [tag : Tags, old : OpTags \cup {NoTag}]
    BY DEF Tags
  <2>2. TypeOK'
    BY <1>2, <2>1
    DEF ReadOp, IInv, TypeOK, np_req_alloc, np_srv_add_req, ObjOrNull
  <2>3. /\ x \in Free /\ np_req_alloc(x, [tag |-> t, old |-> NoTag]) /\ np_srv_add_req(x)
        /\ UNCHANGED <<workreqs, deferred, pc, req, held, cur>>
    BY <1>2 DEF ReadOp
  <2>. QED  BY <2>1, <2>2, <2>3, AllocStep DEF IInv
<1>3. ASSUME NEW f \in FlushTags, ReadFlush(f, t, x)
      PROVE  IInv'
  <2>1. /\ f \in Tags /\ t \in Tags
        /\ [tag |-> f, old |-> t] \in [tag : Tags, old : OpTags \cup {NoTag}]
    BY DEF Tags
  <2>2. TypeOK'
    BY <1>3, <2>1
    DEF ReadFlush, IInv, TypeOK, np_req_alloc, np_srv_add_req, ObjOrNull
  <2>3. /\ x \in Free /\ np_req_alloc(x, [tag |-> f, old |-> t]) /\ np_srv_add_req(x)
        /\ UNCHANGED <<workreqs, deferred, pc, req, held, cur>>
    BY <1>3 DEF ReadFlush
  <2>. QED  BY <2>1, <2>2, <2>3, AllocStep DEF IInv
<1>. QED  BY <1>1, <1>2, <1>3

\* Nothing is queued, held or linked at the start.
LEMMA InitIInv ==
    ASSUME Init
    PROVE  IInv
<1>1. TypeOK
  BY NpReqAssumption DEF Init, TypeOK, NoMsg, Tags, Locations, ObjOrNull
<1>2. \A o \in Obj : /\ \A t \in Obj : ~Chained(t, o)
                     /\ \A th \in Threads : ~Reached(th, o)
  BY NpReqAssumption DEF Init, Chained, Reached
<1>3. \A o \in Obj : ~Owned(o) /\ Cardinality(HeldBy(o)) = 0
  <2>1. \A o \in Obj : ~Owned(o)
    BY <1>2, NpReqAssumption DEF Init, Owned
  <2>2. \A o \in Obj, th \in Threads : held[th] # o
    BY NpReqAssumption DEF Init
  <2>. QED  BY <2>1, <2>2, HeldCount
<1>4. QueueInv /\ DeferInv /\ WorkInv
  BY DEF Init, QueueInv, DeferInv, WorkInv
<1>5. ThreadInv
  BY DEF Init, ThreadInv
<1>6. ChainInv /\ ReachedInv
  BY <1>2 DEF ChainInv, ReachedInv
<1>7. RefExact
  BY <1>3 DEF Init, RefExact
<1>. QED  BY <1>1, <1>4, <1>5, <1>6, <1>7 DEF IInv

\* Every step preserves the invariant.
LEMMA NextIInv ==
    ASSUME IInv, ReuseInWindow = FALSE, [Next]_vars
    PROVE  IInv'
<1>1. CASE Client
  BY <1>1, ClientStep
<1>2. ASSUME NEW w \in Workers, Worker(w)
      PROVE  IInv'
  BY <1>2, WorkerStep
<1>3. ASSUME NEW c \in Completers, Completer(c)
      PROVE  IInv'
  BY <1>3, CompleterStep
<1>4. CASE UNCHANGED vars
  <2>1. PICK w \in Threads : w \in Workers
    BY NpReqAssumption DEF Threads
  <2>2. UNCHANGED <<objVars, srvVars, pc, req, held, cur, asleep, cliVars>>
    BY <1>4 DEF vars, thrVars
  <2>3. pc' = [pc EXCEPT ![w] = pc[w]] /\ asleep' \in SUBSET Workers
    BY <2>2 DEF IInv, TypeOK
  <2>. QED  BY <2>1, <2>2, <2>3, MoveStep
<1>. QED  BY <1>1, <1>2, <1>3, <1>4 DEF Next

\* IInv holds in every reachable state, unless memory is handed out again
\* between np_req_unref(freq) and the read of freq->flushreq in np_respond.
THEOREM Invariance ==
    ASSUME ReuseInWindow = FALSE
    PROVE  Spec => []IInv
  BY InitIInv, NextIInv, PTL DEF Spec

\* The fields keep their types: no reference count goes below zero.
THEOREM TypeCorrect ==
    ASSUME ReuseInWindow = FALSE
    PROVE  Spec => []TypeOK
<1>1. IInv => TypeOK
  BY DEF IInv
<1>. QED  BY <1>1, Invariance, PTL

\* np_req_ref and np_req_unref count exactly, for any number of requests,
\* threads and tags: a request is recycled when and only when nothing is left
\* that will answer it and no np_flush holds it.
THEOREM RefCountsExact ==
    ASSUME ReuseInWindow = FALSE
    PROVE  Spec => []RefExact
<1>1. IInv => RefExact
  BY DEF IInv
<1>. QED  BY <1>1, Invariance, PTL

\* np_respond writes a reply under the request's lock only once the request
\* is on no list of the server, so the order req->lock, srv->lock in
\* np_respond cannot meet the order srv->lock, req->lock in np_flush.
THEOREM LocksOrdered ==
    ASSUME ReuseInWindow = FALSE
    PROVE  Spec => []LockOrder
<1>1. IInv => LockOrder
  <2>. SUFFICES ASSUME IInv, NEW th \in Threads, NEW o \in Obj,
                       \/ pc[th] \in {"send", "chain", "next"} /\ req[th] = o
                       \/ pc[th] = "chain" /\ cur[th] = o
                PROVE  o \notin workreqs /\ \A i \in DOMAIN reqs : reqs[i] # o
    BY DEF LockOrder
  <2>1. CASE pc[th] \in {"send", "chain", "next"} /\ req[th] = o
    BY <2>1 DEF IInv, ThreadInv, QueueInv
  <2>2. CASE pc[th] = "chain" /\ cur[th] = o
    <3>1. Reached(th, o)
      BY <2>2 DEF Reached
    <3>. QED  BY <3>1 DEF IInv, ReachedInv
  <2>. QED  BY <2>1, <2>2
<1>. QED  BY <1>1, Invariance, PTL

\* A request that is not answered is owned.
LEMMA PendingLive ==
    ASSUME IInv, NEW o \in Obj, Pending(o)
    PROVE  Owned(o) /\ refcount[o] > 0
<1>1. CASE o \in workreqs
  BY <1>1, WorkOwned, Counts DEF IInv
<1>2. CASE Queued(o)
  <2>1. Owned(o)
    BY <1>2 DEF Queued, Owned
  <2>. QED  BY <2>1, Counts DEF IInv
<1>3. CASE \E th \in Threads : req[th] = o
  <2>1. Owned(o)
    BY <1>3 DEF Owned
  <2>. QED  BY <2>1, Counts DEF IInv
<1>. QED  BY <1>1, <1>2, <1>3 DEF Pending, Listed

\* What the types and the assumption on tags say of a message.
LEMMA MsgTags ==
    ASSUME TypeOK, NEW o \in Obj
    PROVE  /\ msg[o].tag \in Tags /\ msg[o].old \in OpTags \cup {NoTag}
           /\ IsFlush(o) <=> msg[o].tag \in FlushTags
           /\ ~IsFlush(o) <=> msg[o].tag \in OpTags
           /\ msg[o].tag # NoTag
BY NpReqAssumption DEF TypeOK, IsFlush, Tags

\* A reply to a message that is no Tflush.
LEMMA SentOp ==
    ASSUME TypeOK, NEW x \in Obj, np_conn_respond(x), ~IsFlush(x)
    PROVE  /\ \A t \in Tags : csent'[t] = IF t = msg[x].tag THEN NoObj ELSE csent[t]
           /\ \A f \in FlushTags : cnamed'[f] = IF cold[f] = msg[x].tag THEN NoObj ELSE cnamed[f]
           /\ \A f \in FlushTags : csent'[f] = csent[f]
           /\ cold' = cold
<1>1. ReplyToClient(msg[x].tag) /\ msg[x].tag \in OpTags /\ msg[x].tag \in Tags
  BY MsgTags DEF np_conn_respond
<1>2. /\ \A t \in Tags : csent'[t] = IF t = msg[x].tag THEN NoObj ELSE csent[t]
      /\ \A f \in FlushTags : cnamed'[f] = IF cold[f] = msg[x].tag THEN NoObj ELSE cnamed[f]
      /\ cold' = cold
  BY <1>1 DEF ReplyToClient, TypeOK
<1>3. \A f \in FlushTags : f \in Tags /\ f # msg[x].tag
  BY <1>1, NpReqAssumption DEF Tags
<1>. QED  BY <1>2, <1>3

\* An Rflush.
LEMMA SentFlush ==
    ASSUME TypeOK, NEW x \in Obj, np_conn_respond(x), IsFlush(x), NEW g, g = msg[x].tag
    PROVE  /\ g \in FlushTags /\ csent'[g] = NoObj /\ cnamed'[g] = NoObj
           /\ \A f \in FlushTags : f # g => /\ csent'[f] = csent[f] /\ cold'[f] = cold[f]
                                            /\ cnamed'[f] = cnamed[f]
           /\ \A t \in OpTags : \/ csent'[t] = csent[t]
                                \/ csent'[t] = NoObj /\ t = cold[g] /\ csent[t] \in {cnamed[g], Flushed}
<1>1. g \in FlushTags /\ RflushToClient(g)
  BY DEF np_conn_respond, IsFlush
<1>2. \A f \in FlushTags : f \in Tags /\ f # cold[g]
  BY <1>1, NpReqAssumption DEF Tags, TypeOK
<1>3. \A t \in Tags :
         csent'[t] = IF t = g \/ (t = cold[g] /\ csent[t] \in {cnamed[g], Flushed}) THEN NoObj ELSE csent[t]
  BY <1>1 DEF RflushToClient
<1>4. \A f \in FlushTags : /\ cold'[f] = IF f = g THEN NoTag ELSE cold[f]
                           /\ cnamed'[f] = IF f = g THEN NoObj ELSE cnamed[f]
  BY <1>1 DEF RflushToClient, TypeOK
<1>5. \A t \in OpTags : t \in Tags /\ t # g
  BY <1>1, NpReqAssumption DEF Tags
<1>. QED  BY <1>1, <1>2, <1>3, <1>4, <1>5

\* Steps of one thread that change no list, no message and no link: what w
\* comes to is not a reply, nor the start of its work.
LEMMA QuietStep ==
    ASSUME IInv, IInv', ClientInv, NEW w \in Threads,
           UNCHANGED <<refcount, msg, flushreq, reqs, workreqs, cur, csent, cold, cnamed>>,
           \A th \in Threads : th # w => pc'[th] = pc[th] /\ req'[th] = req[th],
           pc[w] \in {"idle", "process", "mark", "flushcb"},
           pc'[w] \in {"idle", "process", "mark", "unlink", "flushcb", "flushunref"},
           req'[w] \in {req[w], NoObj} \cup deferred,
           pc'[w] = "process" => pc[w] = "process" /\ req'[w] = req[w],
           pc'[w] \in {"mark", "unlink"} /\ IsFlush(req'[w]) => ~Open(msg[req'[w]].tag)
    PROVE  ClientInv'
<1>. USE NpReqAssumption
<1>1. /\ \A o \in Obj : IsFlush(o)' <=> IsFlush(o)
      /\ \A o : Queued(o)' <=> Queued(o)
      /\ \A o : Listed(o)' <=> Listed(o)
      /\ \A f \in FlushTags : Open(f)' <=> Open(f)
  BY DEF IsFlush, Queued, Listed, Open
<1>2. \A o : Pending(o)' <=> Pending(o)
  BY <1>1 DEF Pending
<1>3. /\ \A th \in Threads : req[th] \in ObjOrNull /\ req'[th] \in ObjOrNull
      /\ \A th \in Threads : pc[th] \in {"idle", "flushcb", "flushunref"} <=> req[th] = NoObj
      /\ \A o \in deferred : o \in Obj /\ ~IsFlush(o)
      /\ \A i \in DOMAIN reqs : reqs[i] \in Obj
  BY DEF IInv, TypeOK, ThreadInv, DeferInv
<1>4. AskInv'
  <2>. SUFFICES ASSUME NEW o \in Obj, IsFlush(o), refcount[o] > 0,
                       \A th \in Threads : req'[th] = o => pc'[th] \in Answering
                PROVE  csent[msg[o].tag] = o /\ cold[msg[o].tag] = msg[o].old
    BY <1>1 DEF AskInv
  <2>1. \A th \in Threads : req[th] = o => pc[th] \in Answering
    BY <1>3 DEF Answering
  <2>. QED  BY <2>1 DEF ClientInv, AskInv
<1>5. OpInv' /\ NamedInv'
  BY <1>1, <1>2 DEF ClientInv, OpInv, NamedInv
<1>6. BeforeInv'
  BY <1>1, <1>3, MsgTags DEF ClientInv, BeforeInv, IInv, IsFlush, ObjOrNull
<1>7. ClosedInv'
  BY <1>1, <1>3 DEF ClientInv, ClosedInv, IInv, IsFlush, ObjOrNull
<1>8. LinkInv'
  BY <1>1 DEF ClientInv, LinkInv, IInv, TypeOK
<1>9. TailInv'
  <2>. SUFFICES ASSUME NEW th \in Threads, pc'[th] \in {"send", "chain", "next"}
                PROVE  \E S \in SUBSET Obj : Rest(th, S)'
    BY DEF TailInv
  <2>1. th # w /\ pc[th] \in {"send", "chain", "next"} /\ pc'[th] = pc[th] /\ req'[th] = req[th]
    OBVIOUS
  <2>2. PICK S \in SUBSET Obj : Rest(th, S)
    BY <2>1 DEF ClientInv, TailInv
  <2>3. \A s \in S : Linked(s) => Linked(s)'
    BY <1>1, <1>3 DEF Linked
  <2>4. Link(th)' = Link(th)
    BY <2>1 DEF Link
  <2>. QED  BY <2>1, <2>2, <2>3, <2>4 DEF Rest
<1>. QED  BY <1>4, <1>5, <1>6, <1>7, <1>8, <1>9 DEF ClientInv

\* The client waits for the Tflush a thread has in its hands.
LEMMA Asked ==
    ASSUME IInv, AskInv, NEW th \in Threads, NEW y \in Obj,
           req[th] = y, IsFlush(y), pc[th] \in Answering
    PROVE  csent[msg[y].tag] = y /\ cold[msg[y].tag] = msg[y].old
<1>1. Owned(y)
  BY DEF Owned
<1>2. refcount[y] > 0
  BY <1>1, Counts DEF IInv
<1>3. \A u \in Threads : req[u] = y => u = th
  BY NpReqAssumption DEF IInv, ThreadInv
<1>. QED  BY <1>2, <1>3 DEF AskInv

\* When np_flush finds nothing, what the Tflush named is on no list.
LEMMA NotFoundClosed ==
    ASSUME IInv, ClientInv, NEW w \in Threads, FlushNotFound(w)
    PROVE  ~Open(msg[req[w]].tag)
<1>1. PICK y \in Obj : y = req[w] /\ pc[w] = "process" /\ IsFlush(y)
  BY DEF FlushNotFound, IInv, ThreadInv, TypeOK, ObjOrNull
<1>2. PICK g \in FlushTags : g = msg[y].tag
  BY <1>1 DEF IsFlush
<1>3. cold[g] = msg[y].old
  BY <1>1, <1>2, Asked DEF ClientInv, Answering
<1>4. /\ \A i \in DOMAIN reqs : msg[reqs[i]].tag # cold[g]
      /\ \A o \in workreqs : msg[o].tag # cold[g]
  BY <1>1, <1>3 DEF FlushNotFound, PendingHas
<1>5. \A o : Listed(o) => msg[o].tag # cold[g]
  BY <1>4 DEF Listed, Queued
<1>6. cnamed[g] # NoObj => msg[cnamed[g]].tag = cold[g]
  BY DEF ClientInv, NamedInv
<1>. QED  BY <1>1, <1>2, <1>5, <1>6 DEF Open

\* The steps that change no list keep the client's invariant.
LEMMA QuietSteps ==
    ASSUME IInv, IInv', ClientInv, NEW w \in Threads,
           \/ WorkerWait(w)
           \/ ProcessReply(w)
           \/ ProcessDefer(w)
           \/ FlushNotFound(w)
           \/ FlushCallback(w)
           \/ FlushCancel(w)
           \/ RespondMark(w)
           \/ \E o \in Obj : Complete(w, o)
    PROVE  ClientInv'
<1>. USE DEF objVars, srvVars, cliVars
<1>1. pc \in [Threads -> Locations] /\ req \in [Threads -> ObjOrNull]
  BY DEF IInv, TypeOK
<1>2. /\ pc[w] \in {"idle", "flushcb", "flushunref"} <=> req[w] = NoObj
      /\ pc[w] \in {"process", "mark"} => ~responded[req[w]]
      /\ pc[w] = "mark" /\ IsFlush(req[w]) => ~Open(msg[req[w]].tag)
      /\ \A o \in deferred : ~IsFlush(o)
  BY NpReqAssumption DEF IInv, ThreadInv, DeferInv, ClientInv, ClosedInv
<1>3. CASE WorkerWait(w)
  BY <1>1, <1>3, QuietStep DEF WorkerWait
<1>4. CASE ProcessReply(w)
  BY <1>1, <1>4, QuietStep DEF ProcessReply
<1>5. CASE ProcessDefer(w)
  BY <1>1, <1>5, QuietStep DEF ProcessDefer
<1>6. CASE FlushNotFound(w)
  BY <1>1, <1>6, NotFoundClosed, QuietStep DEF FlushNotFound
<1>7. CASE FlushCallback(w)
  BY <1>1, <1>7, QuietStep DEF FlushCallback
<1>8. CASE FlushCancel(w)
  BY <1>1, <1>2, <1>8, QuietStep DEF FlushCancel
<1>9. CASE RespondMark(w)
  BY <1>1, <1>2, <1>9, QuietStep DEF RespondMark
<1>10. ASSUME NEW o \in Obj, Complete(w, o) PROVE ClientInv'
  BY <1>1, <1>2, <1>10, QuietStep DEF Complete
<1>. QED  BY <1>3, <1>4, <1>5, <1>6, <1>7, <1>8, <1>9, <1>10

\* What keeps the part of a chain that is still to be answered.
LEMMA RestKept ==
    ASSUME NEW th, NEW S \in SUBSET Obj, Rest(th, S),
           pc'[th] = "send" <=> pc[th] = "send",
           Link(th)' = Link(th),
           pc[th] = "send" => msg'[req'[th]].tag = msg[req[th]].tag,
           \A s \in S : /\ Linked(s) => Linked(s)'
                        /\ flushreq'[s] = flushreq[s]
                        /\ msg'[s].tag = msg[s].tag /\ msg'[s].old = msg[s].old
                        /\ pc[th] # "send" /\ cnamed[msg[s].tag] = NoObj => cnamed'[msg[s].tag] = NoObj
    PROVE  Rest(th, S)'
BY DEF Rest

\* np_respond reads the flushreq of the Tflush it has answered.
LEMMA NextKeeps ==
    ASSUME IInv, IInv', ClientInv, NEW w \in Threads, RespondNext(w)
    PROVE  ClientInv'
<1>. USE NpReqAssumption
<1>1. /\ pc[w] = "next"
      /\ \A th \in Threads : pc'[th] = IF th = w THEN "chain" ELSE pc[th]
      /\ \A th \in Threads : cur'[th] = IF th = w THEN flushreq[cur[w]] ELSE cur[th]
      /\ UNCHANGED <<refcount, msg, flushreq, reqs, workreqs, req, csent, cold, cnamed>>
  BY DEF IInv, TypeOK, RespondNext, objVars, srvVars, cliVars
<1>2. /\ \A o : IsFlush(o)' <=> IsFlush(o)
      /\ \A o : Listed(o)' <=> Listed(o)
      /\ \A o : Linked(o)' <=> Linked(o)
      /\ \A f : Open(f)' <=> Open(f)
      /\ \A o : Pending(o)' <=> Pending(o)
  BY <1>1 DEF IsFlush, Queued, Listed, Linked, Open, Pending
<1>3. AskInv'
  BY <1>1, <1>2 DEF ClientInv, AskInv, Answering
<1>4. OpInv' /\ NamedInv'
  BY <1>1, <1>2 DEF ClientInv, OpInv, NamedInv
<1>5. BeforeInv' /\ ClosedInv' /\ LinkInv'
  BY <1>1, <1>2 DEF ClientInv, BeforeInv, ClosedInv, LinkInv
<1>6. TailInv'
  <2>. SUFFICES ASSUME NEW th \in Threads, pc'[th] \in {"send", "chain", "next"}
                PROVE  \E S \in SUBSET Obj : Rest(th, S)'
    BY DEF TailInv
  <2>1. pc[th] \in {"send", "chain", "next"} /\ (pc'[th] = "send" <=> pc[th] = "send")
    BY <1>1
  <2>2. PICK S \in SUBSET Obj : Rest(th, S)
    BY <2>1 DEF ClientInv, TailInv
  <2>3. Link(th)' = Link(th)
    BY <1>1 DEF Link
  <2>4. Rest(th, S)'
    BY <1>1, <1>2, <2>1, <2>2, <2>3, RestKept
  <2>. QED  BY <2>4
<1>. QED  BY <1>3, <1>4, <1>5, <1>6 DEF ClientInv

\* A worker takes the first request of the queue: when that is a Tflush, what
\* it named has been taken before it.
LEMMA TakeKeeps ==
    ASSUME IInv, IInv', ClientInv, NEW w \in Threads, WorkerTake(w)
    PROVE  ClientInv'
<1>. USE NpReqAssumption
<1>1. PICK x \in Obj : /\ x = Head(reqs) /\ x = reqs[1]
                       /\ pc[w] = "idle" /\ 1 \in DOMAIN reqs
  BY DEF WorkerTake, IInv, TypeOK
<1>0. reqs \in Seq(Obj) /\ reqs # <<>> /\ reqs' = Tail(reqs)
  BY DEF WorkerTake, IInv, TypeOK
<1>2. /\ \A i \in DOMAIN reqs' : i + 1 \in DOMAIN reqs /\ reqs'[i] = reqs[i + 1]
      /\ \A i \in DOMAIN reqs : i # 1 => i - 1 \in DOMAIN reqs' /\ reqs'[i - 1] = reqs[i]
      /\ \A i \in DOMAIN reqs' : i \in Nat /\ i > 0
  BY <1>0
<1>3. /\ \A th \in Threads : pc'[th] = IF th = w THEN "process" ELSE pc[th]
      /\ \A th \in Threads : req'[th] = IF th = w THEN x ELSE req[th]
      /\ workreqs' = workreqs \cup {x} /\ req[w] = NoObj
      /\ UNCHANGED <<refcount, msg, flushreq, cur, csent, cold, cnamed>>
  BY <1>1 DEF IInv, TypeOK, ThreadInv, WorkerTake, objVars, cliVars
<1>4. flushreq[x] = NoObj /\ \A i \in DOMAIN reqs : reqs[i] = x => i = 1
  BY <1>1 DEF IInv, QueueInv
<1>5. \A o : Queued(o)' <=> Queued(o) /\ o # x
  BY <1>1, <1>2, <1>4 DEF Queued
<1>6. Queued(x)
  BY <1>1 DEF Queued
<1>7. /\ \A o : IsFlush(o)' <=> IsFlush(o)
      /\ \A o : Listed(o)' <=> Listed(o)
  BY <1>3, <1>5, <1>6 DEF IsFlush, Listed
<1>8. /\ \A f : Open(f)' <=> Open(f)
      /\ \A o : Pending(o)' <=> Pending(o)
  BY <1>1, <1>3, <1>7 DEF Open, Pending
<1>9. AskInv'
  <2>. SUFFICES ASSUME NEW o \in Obj, IsFlush(o), refcount[o] > 0,
                       \A th \in Threads : req'[th] = o => pc'[th] \in Answering
                PROVE  csent[msg[o].tag] = o /\ cold[msg[o].tag] = msg[o].old
    BY <1>3, <1>7 DEF AskInv
  <2>1. \A th \in Threads : req[th] = o => pc[th] \in Answering
    BY <1>3
  <2>. QED  BY <2>1 DEF ClientInv, AskInv
<1>10. OpInv' /\ NamedInv'
  BY <1>3, <1>7, <1>8 DEF ClientInv, OpInv, NamedInv
<1>11. \A i, j \in DOMAIN reqs : /\ IsFlush(reqs[j]) /\ Open(msg[reqs[j]].tag)
                                 /\ msg[reqs[i]].tag = cold[msg[reqs[j]].tag]
                                 => i < j
  BY DEF ClientInv, BeforeInv
<1>12. ASSUME NEW i \in DOMAIN reqs', NEW j \in DOMAIN reqs', IsFlush(reqs[j])', Open(msg[reqs[j]].tag)',
              msg[reqs'[i]].tag = cold[msg[reqs'[j]].tag]
       PROVE  i < j
  <2>1. /\ IsFlush(reqs[j + 1]) /\ Open(msg[reqs[j + 1]].tag)
        /\ msg[reqs[i + 1]].tag = cold[msg[reqs[j + 1]].tag]
        /\ i + 1 \in DOMAIN reqs /\ j + 1 \in DOMAIN reqs
    BY <1>2, <1>3, <1>7, <1>8, <1>12
  <2>2. i + 1 < j + 1
    BY <1>11, <2>1
  <2>. QED  BY <1>2, <2>2
<1>13. ASSUME IsFlush(x), Open(msg[x].tag), NEW i \in DOMAIN reqs'
       PROVE  msg[reqs'[i]].tag # cold[msg[x].tag]
  <2>1. msg[reqs'[i]].tag = cold[msg[x].tag] => i + 1 < 1
    BY <1>1, <1>2, <1>11, <1>13
  <2>. QED  BY <1>2, <2>1
<1>14. ASSUME NEW th \in Threads, th # w, req[th] # NoObj, IsFlush(req[th]), pc[th] = "process",
              Open(msg[req[th]].tag), NEW i \in DOMAIN reqs'
       PROVE  msg[reqs'[i]].tag # cold[msg[req[th]].tag]
  BY <1>2, <1>14 DEF ClientInv, BeforeInv
<1>15. BeforeInv'
  BY <1>3, <1>7, <1>8, <1>12, <1>13, <1>14 DEF BeforeInv
<1>16. ClosedInv'
  BY <1>3, <1>7, <1>8 DEF ClientInv, ClosedInv
<1>17. LinkInv'
  BY <1>3, <1>4, <1>7 DEF ClientInv, LinkInv
<1>18. TailInv'
  <2>. SUFFICES ASSUME NEW th \in Threads, pc'[th] \in {"send", "chain", "next"}
                PROVE  \E S \in SUBSET Obj : Rest(th, S)'
    BY DEF TailInv
  <2>1. th # w /\ pc'[th] = pc[th] /\ pc[th] \in {"send", "chain", "next"} /\ req'[th] = req[th]
    BY <1>3
  <2>2. PICK S \in SUBSET Obj : Rest(th, S)
    BY <2>1 DEF ClientInv, TailInv
  <2>3. Link(th)' = Link(th)
    BY <1>3, <2>1 DEF Link
  <2>4. \A s \in S : Linked(s) => Linked(s)'
    BY <1>3, <1>6, <1>7 DEF Linked, Listed
  <2>5. Rest(th, S)'
    BY <1>3, <2>1, <2>2, <2>3, <2>4, RestKept
  <2>. QED  BY <2>5
<1>. QED  BY <1>9, <1>10, <1>15, <1>16, <1>17, <1>18 DEF ClientInv

\* np_flush links the Tflush to the request it finds being worked on.
LEMMA WorkingKeeps ==
    ASSUME IInv, IInv', ClientInv, NEW w \in Threads, FlushWorking(w)
    PROVE  ClientInv'
<1>. USE NpReqAssumption
<1>1. PICK x \in workreqs :
        /\ msg[x].tag = msg[req[w]].old
        /\ refcount' = [refcount EXCEPT ![x] = @ + 1]
        /\ flushreq' = [flushreq EXCEPT ![req[w]] = flushreq[x], ![x] = req[w]]
  BY DEF FlushWorking
<1>2. PICK y \in Obj : y = req[w] /\ pc[w] = "process" /\ IsFlush(y)
  BY DEF FlushWorking, IInv, ThreadInv, TypeOK, ObjOrNull
<1>3. x \in Obj /\ y \in workreqs
  BY <1>2 DEF IInv, TypeOK, ThreadInv
<1>4. ~IsFlush(x) /\ x # y
  BY <1>1, <1>2, <1>3, MsgTags DEF IInv
<1>5. /\ \A th \in Threads : pc'[th] = IF th = w THEN "flushcb" ELSE pc[th]
      /\ \A th \in Threads : req'[th] = IF th = w THEN NoObj ELSE req[th]
      /\ UNCHANGED <<msg, reqs, workreqs, cur, csent, cold, cnamed>>
  BY DEF IInv, TypeOK, FlushWorking, srvVars, cliVars
<1>6. /\ \A o \in Obj : o # x => refcount'[o] = refcount[o]
      /\ \A o \in Obj : o # x /\ o # y => flushreq'[o] = flushreq[o]
      /\ flushreq'[x] = y /\ flushreq'[y] = flushreq[x]
  BY <1>1, <1>2, <1>3, <1>4 DEF IInv, TypeOK
<1>7. /\ \A o : IsFlush(o)' <=> IsFlush(o)
      /\ \A o : Listed(o)' <=> Listed(o)
      /\ \A f : Open(f)' <=> Open(f)
  BY <1>5 DEF IsFlush, Queued, Listed, Open
<1>8. \A o : Pending(o)' <=> Pending(o)
  BY <1>2, <1>5, <1>7 DEF Pending
<1>9. AskInv'
  <2>. SUFFICES ASSUME NEW o \in Obj, IsFlush(o), refcount'[o] > 0,
                       \A th \in Threads : req'[th] = o => pc'[th] \in Answering
                PROVE  csent[msg[o].tag] = o /\ cold[msg[o].tag] = msg[o].old
    BY <1>5, <1>7 DEF AskInv
  <2>1. \A th \in Threads : req[th] = o => pc[th] \in Answering
    BY <1>2, <1>5 DEF Answering
  <2>2. refcount[o] > 0
    BY <1>4, <1>6
  <2>. QED  BY <2>1, <2>2 DEF ClientInv, AskInv
<1>10. OpInv' /\ NamedInv'
  BY <1>5, <1>7, <1>8 DEF ClientInv, OpInv, NamedInv
<1>11. BeforeInv' /\ ClosedInv'
  BY <1>5, <1>7 DEF ClientInv, BeforeInv, ClosedInv
<1>12. LinkInv'
  <2>. SUFFICES ASSUME NEW q \in workreqs, flushreq'[q] # NoObj
                PROVE  msg[flushreq'[q]].old = IF IsFlush(q) THEN msg[q].old ELSE msg[q].tag
    BY <1>5, <1>7 DEF LinkInv
  <2>1. CASE q = x
    BY <1>1, <1>2, <1>4, <1>6, <2>1
  <2>2. CASE q = y
    <3>1. flushreq[x] # NoObj => msg[flushreq[x]].old = msg[x].tag
      BY <1>4 DEF ClientInv, LinkInv
    <3>. QED  BY <1>1, <1>2, <1>6, <2>2, <3>1
  <2>3. CASE q # x /\ q # y
    BY <1>6, <2>3 DEF ClientInv, LinkInv, IInv, TypeOK
  <2>. QED  BY <2>1, <2>2, <2>3
<1>13. TailInv'
  <2>. SUFFICES ASSUME NEW th \in Threads, pc'[th] \in {"send", "chain", "next"}
                PROVE  \E S \in SUBSET Obj : Rest(th, S)'
    BY DEF TailInv
  <2>1. th # w /\ pc'[th] = pc[th] /\ pc[th] \in {"send", "chain", "next"} /\ req'[th] = req[th]
    BY <1>5
  <2>2. PICK S \in SUBSET Obj : Rest(th, S)
    BY <2>1 DEF ClientInv, TailInv
  <2>3. \A s \in S : s \in Obj /\ Linked(s) /\ s # x /\ s # y
    BY <1>3, <2>2 DEF Rest, Linked, Listed
  <2>4. \A s \in S : Linked(s)'
    BY <1>5, <1>6, <1>7, <2>3 DEF Linked
  <2>8. Link(th)' = Link(th)
    <3>1. CASE pc[th] = "send"
      <4>1. req[th] \in Obj /\ req[th] \notin workreqs
        BY <3>1 DEF IInv, TypeOK, ThreadInv, ObjOrNull
      <4>. QED  BY <1>3, <1>5, <1>6, <2>1, <3>1, <4>1 DEF Link
    <3>2. CASE pc[th] = "next"
      <4>1. cur[th] \in Obj /\ refcount[cur[th]] = 0
        BY <3>2 DEF IInv, ThreadInv
      <4>2. refcount[x] > 0 /\ refcount[y] > 0
        BY <1>3, PendingLive DEF Pending, Listed
      <4>3. flushreq'[cur[th]] = flushreq[cur[th]]
        BY <1>6, <4>1, <4>2
      <4>. QED  BY <1>5, <2>1, <3>2, <4>3 DEF Link
    <3>3. CASE pc[th] = "chain"
      BY <1>5, <2>1, <3>3 DEF Link
    <3>. QED  BY <2>1, <3>1, <3>2, <3>3
  <2>9. Rest(th, S)'
    BY <1>5, <1>6, <2>1, <2>2, <2>3, <2>4, <2>8, RestKept
  <2>. QED  BY <2>9
<1>. QED  BY <1>9, <1>10, <1>11, <1>12, <1>13 DEF ClientInv

\* The chain of a request on workreqs: Tflush for its tag, all of them on
\* workreqs and in no thread's hands.
LEMMA ChainNames ==
    ASSUME IInv, ClientInv, NEW x \in workreqs, NEW w \in Threads, req[w] = x
    PROVE  \A s \in ChainOf(x) : /\ s \in workreqs /\ IsFlush(s) /\ msg[s].old = msg[x].tag
                                 /\ \A th \in Threads : req[th] # s
                                 /\ \A i \in DOMAIN reqs : reqs[i] # s
<1>1. x \in Obj /\ TypeOK
  BY DEF IInv, TypeOK
<1>2. \A q \in workreqs : flushreq[q] # NoObj =>
         /\ flushreq[q] \in workreqs /\ IsFlush(flushreq[q])
         /\ \A th \in Threads : req[th] # flushreq[q]
         /\ \A i \in DOMAIN reqs : reqs[i] # flushreq[q]
  <2>. SUFFICES ASSUME NEW q \in workreqs, NEW p \in Obj, flushreq[q] = p
                PROVE  /\ p \in workreqs /\ IsFlush(p)
                       /\ \A th \in Threads : req[th] # p
                       /\ \A i \in DOMAIN reqs : reqs[i] # p
    BY <1>1 DEF TypeOK, ObjOrNull
  <2>1. q \in Obj /\ Chained(q, p)
    BY <1>1 DEF TypeOK, Chained
  <2>. QED  BY <2>1 DEF IInv, ChainInv
<1>3. CASE IsFlush(x)
  <2>1. flushreq[x] = NoObj
    BY <1>1, <1>3, NpReqAssumption DEF IInv, ThreadInv
  <2>2. {} \in SUBSET Obj /\ \A q \in {} \cup {x} : flushreq[q] \in {} \cup {NoObj}
    BY <2>1
  <2>3. ChainOf(x) \subseteq {}
    BY <1>1, <2>2, ChainOfLeast, Zenon
  <2>. QED  BY <2>3
<1>4. CASE ~IsFlush(x)
  <2>. DEFINE S == {p \in workreqs : /\ IsFlush(p) /\ msg[p].old = msg[x].tag
                                     /\ \A th \in Threads : req[th] # p
                                     /\ \A i \in DOMAIN reqs : reqs[i] # p}
  <2>1. ASSUME NEW q \in S \cup {x}, flushreq[q] # NoObj
        PROVE  flushreq[q] \in S
    <3>1. q \in workreqs /\ (IF IsFlush(q) THEN msg[q].old ELSE msg[q].tag) = msg[x].tag
      BY <1>4
    <3>2. msg[flushreq[q]].old = msg[x].tag
      BY <2>1, <3>1 DEF ClientInv, LinkInv
    <3>. QED  BY <1>2, <2>1, <3>1, <3>2
  <2>2. S \in SUBSET Obj
    BY <1>1 DEF TypeOK
  <2>3. \A q \in S \cup {x} : flushreq[q] \in S \cup {NoObj}
    BY <2>1
  <2>4. ChainOf(x) \subseteq S
    <3>. HIDE DEF S
    <3>. QED  BY <1>1, <2>2, <2>3, ChainOfLeast
  <2>. QED  BY <2>4
<1>. QED  BY <1>3, <1>4

\* The request and its chain leave workreqs.
LEMMA UnlinkKeeps ==
    ASSUME IInv, IInv', ClientInv, NEW w \in Threads, RespondUnlink(w)
    PROVE  ClientInv'
<1>. USE NpReqAssumption
<1>1. PICK x \in Obj : x = req[w] /\ pc[w] = "unlink" /\ x \in workreqs
  BY DEF RespondUnlink, IInv, TypeOK, ThreadInv, ObjOrNull
<1>2. PICK C \in SUBSET Obj : C = ChainOf(x)
  BY ChainOfClosed DEF IInv
<1>3. \A q \in C \cup {x} : flushreq[q] \in C \cup {NoObj}
  BY <1>2, ChainOfClosed DEF IInv
<1>4. \A s \in C : /\ s \in workreqs /\ IsFlush(s) /\ msg[s].old = msg[x].tag
                   /\ \A th \in Threads : req[th] # s
                   /\ \A i \in DOMAIN reqs : reqs[i] # s
  BY <1>1, <1>2, ChainNames
<1>5. /\ \A th \in Threads : pc'[th] = IF th = w THEN "send" ELSE pc[th]
      /\ workreqs' = workreqs \ ({x} \cup C)
      /\ UNCHANGED <<refcount, msg, flushreq, reqs, req, cur, csent, cold, cnamed>>
  BY <1>1, <1>2 DEF IInv, TypeOK, RespondUnlink, objVars, cliVars
<1>6. /\ \A o : IsFlush(o)' <=> IsFlush(o)
      /\ \A o : Listed(o)' => Listed(o)
      /\ \A o : Listed(o) /\ o \notin {x} \cup C => Listed(o)'
      /\ \A f : Open(f)' => Open(f)
  BY <1>5 DEF IsFlush, Queued, Listed, Open
<1>7. \A o : Pending(o) /\ ~IsFlush(o) => Pending(o)'
  BY <1>1, <1>4, <1>5, <1>6 DEF Pending
<1>8. AskInv'
  BY <1>1, <1>5, <1>6 DEF ClientInv, AskInv, Answering
<1>9. OpInv' /\ NamedInv'
  <2>1. \A o : msg[o].tag \in OpTags => ~IsFlush(o)
    BY DEF IsFlush
  <2>. QED  BY <1>5, <1>6, <1>7, <2>1 DEF ClientInv, OpInv, NamedInv
<1>10. BeforeInv' /\ ClosedInv'
  BY <1>1, <1>5, <1>6 DEF ClientInv, BeforeInv, ClosedInv
<1>11. LinkInv'
  BY <1>5, <1>6 DEF ClientInv, LinkInv
<1>12. TailInv'
  <2>. SUFFICES ASSUME NEW th \in Threads, pc'[th] \in {"send", "chain", "next"}
                PROVE  \E S \in SUBSET Obj : Rest(th, S)'
    BY DEF TailInv
  <2>1. CASE th = w
    <3>1. Link(th)' \in C \cup {NoObj}
      BY <1>1, <1>3, <1>5, <2>1 DEF Link
    <3>2. \A s \in C : refcount[s] > 0
      BY <1>4, PendingLive DEF Pending, Listed
    <3>3. \A s \in C : Linked(s)'
      BY <1>4, <1>5, <1>6, <3>2 DEF Linked, Listed, Queued
    <3>4. \A s \in C : flushreq[s] \in C \cup {NoObj} /\ msg[s].old = msg[x].tag
      BY <1>3, <1>4
    <3>5. Rest(th, C)'
      BY <1>1, <1>5, <2>1, <3>1, <3>3, <3>4 DEF Rest
    <3>. QED  BY <3>5
  <2>2. CASE th # w
    <3>1. pc'[th] = pc[th] /\ pc[th] \in {"send", "chain", "next"}
      BY <1>5, <2>2
    <3>2. PICK S \in SUBSET Obj : Rest(th, S)
      BY <3>1 DEF ClientInv, TailInv
    <3>3. \A s \in S : Linked(s) => Linked(s)'
      BY <1>5, <1>6 DEF Linked
    <3>4. Link(th)' = Link(th)
      BY <1>5, <3>1 DEF Link
    <3>5. Rest(th, S)'
      BY <1>5, <3>1, <3>2, <3>3, <3>4, RestKept
    <3>. QED  BY <3>5
  <2>. QED  BY <2>1, <2>2
<1>. QED  BY <1>8, <1>9, <1>10, <1>11, <1>12 DEF ClientInv

\* RemoveAt keeps the order of what it keeps.
LEMMA RemoveAtOrder ==
    ASSUME NEW S, NEW s \in Seq(S), NEW i \in DOMAIN s
    PROVE  \E k \in [DOMAIN RemoveAt(s, i) -> DOMAIN s] :
             /\ \A j \in DOMAIN RemoveAt(s, i) : k[j] # i /\ RemoveAt(s, i)[j] = s[k[j]]
             /\ \A j, l \in DOMAIN RemoveAt(s, i) : k[j] < k[l] => j < l
<1>. DEFINE r == RemoveAt(s, i)
<1>1. r \in Seq(S) /\ DOMAIN r = 1 .. Len(s) - 1 /\ Len(s) \in Nat /\ DOMAIN s = 1 .. Len(s)
  BY RemoveAtIs
<1>2. \A j \in 1 .. Len(s) - 1 : r[j] = IF j < i THEN s[j] ELSE s[j + 1]
  BY RemoveAtIs
<1>. HIDE DEF r
<1>. DEFINE k == [j \in 1 .. Len(s) - 1 |-> IF j < i THEN j ELSE j + 1]
<1>3. k \in [DOMAIN r -> DOMAIN s]
  BY <1>1
<1>4. \A j \in DOMAIN r : k[j] # i /\ r[j] = s[k[j]]
  BY <1>1, <1>2
<1>5. \A j, l \in DOMAIN r : k[j] < k[l] => j < l
  BY <1>1
<1>. HIDE DEF k
<1>6. \E m \in [DOMAIN r -> DOMAIN s] :
         /\ \A j \in DOMAIN r : m[j] # i /\ r[j] = s[m[j]]
         /\ \A j, l \in DOMAIN r : m[j] < m[l] => j < l
  BY <1>3, <1>4, <1>5
<1>. QED  BY <1>6 DEF r

\* np_flush drops a queued request: it is the one the Tflush named, or that
\* one is on no list any more.
LEMMA PendingKeeps ==
    ASSUME IInv, IInv', ClientInv, NEW w \in Threads, FlushPending(w)
    PROVE  ClientInv'
<1>. USE NpReqAssumption
<1>1. PICK i \in DOMAIN reqs :
        /\ msg[reqs[i]].tag = msg[req[w]].old
        /\ reqs' = RemoveAt(reqs, i)
        /\ np_req_unref(reqs[i])
        /\ csent' = [csent EXCEPT ![msg[reqs[i]].tag] =
                       IF @ = reqs[i] THEN Flushed ELSE @]
        /\ cnamed' = [f \in FlushTags |->
                       IF cnamed[f] = reqs[i] THEN NoObj ELSE cnamed[f]]
  BY DEF FlushPending
<1>2. PICK x \in Obj : x = reqs[i]
  BY DEF IInv, TypeOK
<1>3. PICK y \in Obj : y = req[w] /\ pc[w] = "process" /\ IsFlush(y)
  BY DEF FlushPending, IInv, ThreadInv, TypeOK, ObjOrNull
<1>4. ~IsFlush(x) /\ msg[x].tag \in OpTags
  BY <1>1, <1>2, <1>3, MsgTags DEF IInv
<1>5. /\ x \notin workreqs
      /\ \A j \in DOMAIN reqs : reqs[j] = x => j = i
      /\ \A th \in Threads : req[th] # x
  BY <1>2 DEF IInv, QueueInv
<1>6. /\ \A th \in Threads : pc'[th] = IF th = w THEN "mark" ELSE pc[th]
      /\ UNCHANGED <<flushreq, workreqs, req, cur, cold>>
  BY DEF IInv, TypeOK, FlushPending
<1>7. /\ \A o \in Obj : o # x => refcount'[o] = refcount[o] /\ msg'[o] = msg[o]
      /\ msg'[x] \in {msg[x], NoMsg}
  BY <1>1, <1>2 DEF IInv, TypeOK, np_req_unref
<1>8. /\ \A f \in FlushTags : cnamed'[f] = IF cnamed[f] = x THEN NoObj ELSE cnamed[f]
      /\ \A t \in Tags : csent'[t] = IF t = msg[x].tag /\ csent[t] = x THEN Flushed ELSE csent[t]
  BY <1>1, <1>2 DEF IInv, TypeOK
<1>9. \A f \in FlushTags : csent'[f] = csent[f]
  BY <1>4, <1>8 DEF Tags
<1>10. PICK k \in [DOMAIN reqs' -> DOMAIN reqs] :
         /\ \A j \in DOMAIN reqs' : k[j] # i /\ reqs'[j] = reqs[k[j]]
         /\ \A j, l \in DOMAIN reqs' : k[j] < k[l] => j < l
  <2>1. reqs \in Seq(Obj)
    BY DEF IInv, TypeOK
  <2>2. \E k \in [DOMAIN RemoveAt(reqs, i) -> DOMAIN reqs] :
          /\ \A j \in DOMAIN RemoveAt(reqs, i) : k[j] # i /\ RemoveAt(reqs, i)[j] = reqs[k[j]]
          /\ \A j, l \in DOMAIN RemoveAt(reqs, i) : k[j] < k[l] => j < l
    BY <2>1, RemoveAtOrder
  <2>. QED  BY <1>1, <2>2
<1>11. \A j \in DOMAIN reqs' : reqs'[j] \in Obj /\ reqs'[j] # x /\ msg'[reqs'[j]] = msg[reqs'[j]]
  <2>1. \A j \in DOMAIN reqs' : reqs'[j] \in Obj
    BY DEF IInv, TypeOK
  <2>. QED  BY <1>5, <1>7, <1>10, <2>1
<1>12. \A o : Queued(o)' <=> Queued(o) /\ o # x
  <2>1. \A l \in DOMAIN reqs : l # i => \E j \in DOMAIN reqs' : reqs'[j] = reqs[l]
    <3>1. reqs \in Seq(Obj) /\ \A j, l \in DOMAIN reqs : reqs[j] = reqs[l] => j = l
      BY DEF IInv, TypeOK, QueueInv
    <3>. QED  BY <1>1, <3>1, RemoveAtRange
  <2>. QED  BY <1>2, <1>10, <1>11, <2>1 DEF Queued
<1>13. \A o : Listed(o)' <=> Listed(o) /\ o # x
  BY <1>5, <1>6, <1>12 DEF Listed
<1>14. \A o : o # x /\ Pending(o) => Pending(o)'
  BY <1>3, <1>6, <1>13 DEF Pending
<1>15. \A o \in Obj : (IsFlush(o)' <=> IsFlush(o)) /\ (IsFlush(o) => o # x)
  <2>1. NoMsg.tag \in OpTags
    BY DEF NoMsg
  <2>. QED  BY <1>4, <1>7, <2>1 DEF IsFlush
<1>16. \A f \in FlushTags : Open(f)' => Open(f)
  BY <1>8, <1>13 DEF Open
<1>17. ~Open(msg[y].tag)
  <2>1. cold[msg[y].tag] = msg[y].old
    BY <1>3, Asked DEF ClientInv, Answering
  <2>. QED  BY <1>1, <1>3, <2>1 DEF ClientInv, BeforeInv
<1>18. AskInv'
  <2>. SUFFICES ASSUME NEW o \in Obj, IsFlush(o), refcount[o] > 0,
                       \A th \in Threads : req[th] = o => pc'[th] \in Answering
                PROVE  csent'[msg[o].tag] = o /\ cold[msg[o].tag] = msg[o].old
    BY <1>6, <1>7, <1>15 DEF AskInv
  <2>1. \A th \in Threads : req[th] = o => pc[th] \in Answering
    BY <1>3, <1>6 DEF Answering
  <2>2. csent[msg[o].tag] = o /\ cold[msg[o].tag] = msg[o].old
    BY <2>1 DEF ClientInv, AskInv
  <2>. QED  BY <1>9, <2>2 DEF IsFlush
<1>19. OpInv'
  <2>. SUFFICES ASSUME NEW t \in OpTags, csent'[t] \in Obj
                PROVE  msg'[csent'[t]].tag = t /\ Pending(csent[t])'
    BY DEF OpInv
  <2>1. csent'[t] = csent[t] /\ ~(t = msg[x].tag /\ csent[t] = x)
    BY <1>8 DEF Tags
  <2>2. msg[csent[t]].tag = t /\ Pending(csent[t])
    BY <2>1 DEF ClientInv, OpInv
  <2>3. PICK o \in Obj : o = csent[t]
    BY <2>1
  <2>4. o # x
    BY <2>1, <2>2, <2>3
  <2>. QED  BY <1>7, <1>14, <2>1, <2>2, <2>3, <2>4
<1>20. NamedInv'
  <2>. SUFFICES ASSUME NEW f \in FlushTags, cnamed'[f] # NoObj
                PROVE  /\ cold[f] \in OpTags /\ msg'[cnamed'[f]].tag = cold[f]
                       /\ Pending(cnamed[f])'
                       /\ Listed(cnamed[f])' => csent'[cold[f]] = cnamed'[f]
    BY <1>6 DEF NamedInv
  <2>1. PICK o \in Obj : o = cnamed[f] /\ o = cnamed'[f] /\ o # x
    BY <1>8 DEF IInv, TypeOK, ObjOrNull
  <2>2. /\ cold[f] \in OpTags /\ msg[o].tag = cold[f] /\ Pending(o)
        /\ Listed(o) => csent[cold[f]] = o
    BY <2>1 DEF ClientInv, NamedInv
  <2>3. Listed(o)' => csent'[cold[f]] = o
    BY <1>8, <1>13, <2>1, <2>2 DEF Tags
  <2>. QED  BY <1>7, <1>14, <2>1, <2>2, <2>3
<1>21. BeforeInv'
  <2>1. ASSUME NEW j \in DOMAIN reqs', NEW l \in DOMAIN reqs', IsFlush(reqs[l])', Open(msg[reqs[l]].tag)',
               msg'[reqs'[j]].tag = cold[msg'[reqs'[l]].tag]
        PROVE  j < l
    <3>1. IsFlush(reqs'[l]) /\ msg'[reqs'[l]].tag \in FlushTags
      BY <1>11, <1>15, <2>1 DEF IsFlush
    <3>2. Open(msg[reqs'[l]].tag) /\ msg[reqs'[j]].tag = cold[msg[reqs'[l]].tag]
      BY <1>11, <1>16, <2>1, <3>1
    <3>3. k[j] \in DOMAIN reqs /\ k[l] \in DOMAIN reqs /\ reqs'[j] = reqs[k[j]] /\ reqs'[l] = reqs[k[l]]
      BY <1>10
    <3>4. k[j] < k[l]
      BY <3>1, <3>2, <3>3 DEF ClientInv, BeforeInv
    <3>. QED  BY <1>10, <3>4
  <2>2. ASSUME NEW th \in Threads, req[th] # NoObj, IsFlush(req[th])', pc'[th] = "process",
               Open(msg[req[th]].tag)', NEW j \in DOMAIN reqs'
        PROVE  msg'[reqs'[j]].tag # cold[msg'[req[th]].tag]
    <3>1. PICK z \in Obj : z = req[th]
      BY <2>2 DEF IInv, TypeOK, ObjOrNull
    <3>2. /\ pc[th] = "process" /\ IsFlush(z) /\ msg'[z] = msg[z] /\ msg[z].tag \in FlushTags
      BY <1>5, <1>6, <1>7, <1>15, <2>2, <3>1 DEF IsFlush
    <3>3. Open(msg[z].tag)
      BY <1>6, <1>16, <2>2, <3>1, <3>2
    <3>4. \A l \in DOMAIN reqs : msg[reqs[l]].tag # cold[msg[z].tag]
      BY <3>1, <3>2, <3>3 DEF ClientInv, BeforeInv
    <3>. QED  BY <1>10, <1>11, <3>1, <3>2, <3>4
  <2>. QED  BY <1>6, <2>1, <2>2 DEF BeforeInv
<1>22. ClosedInv'
  <2>. SUFFICES ASSUME NEW th \in Threads, NEW z \in Obj, z = req[th], IsFlush(z),
                       pc'[th] \in {"mark", "unlink", "send"}
                PROVE  ~Open(msg[z].tag)'
    BY <1>6, <1>15 DEF ClosedInv, IInv, TypeOK, ObjOrNull
  <2>1. msg'[z] = msg[z] /\ msg[z].tag \in FlushTags
    BY <1>5, <1>7 DEF IsFlush
  <2>2. ~Open(msg[z].tag)
    BY <1>3, <1>6, <1>17 DEF ClientInv, ClosedInv
  <2>. QED  BY <1>16, <2>1, <2>2
<1>23. LinkInv'
  <2>. SUFFICES ASSUME NEW q \in workreqs, flushreq[q] # NoObj
                PROVE  msg'[flushreq[q]].old = IF IsFlush(q)' THEN msg'[q].old ELSE msg'[q].tag
    BY <1>6 DEF LinkInv
  <2>1. PICK p \in Obj : p = flushreq[q]
    BY DEF IInv, TypeOK, ObjOrNull
  <2>2. q \in Obj /\ q # x /\ Chained(q, p)
    BY <1>5, <2>1 DEF IInv, TypeOK, Chained
  <2>3. IsFlush(p)
    BY <2>2 DEF IInv, ChainInv
  <2>4. msg'[p] = msg[p] /\ msg'[q] = msg[q]
    BY <1>7, <1>15, <2>2, <2>3
  <2>. QED  BY <1>15, <2>1, <2>2, <2>4 DEF ClientInv, LinkInv
<1>24. TailInv'
  <2>. SUFFICES ASSUME NEW th \in Threads, pc'[th] \in {"send", "chain", "next"}
                PROVE  \E S \in SUBSET Obj : Rest(th, S)'
    BY DEF TailInv
  <2>1. pc'[th] = pc[th] /\ pc[th] \in {"send", "chain", "next"}
    BY <1>6
  <2>2. PICK S \in SUBSET Obj : Rest(th, S)
    BY <2>1 DEF ClientInv, TailInv
  <2>3. Queued(x)
    BY <1>2 DEF Queued
  <2>4. \A s \in S : s \in Obj /\ Linked(s) /\ s # x
    BY <2>2, <2>3 DEF Rest, Linked, Listed
  <2>5. \A s \in S : Linked(s)'
    BY <1>6, <1>7, <1>13, <1>15, <2>4 DEF Linked
  <2>6. Link(th)' = Link(th)
    BY <1>6, <2>1 DEF Link
  <2>7. pc[th] = "send" => msg'[req[th]] = msg[req[th]]
    BY <1>5, <1>7 DEF IInv, TypeOK, ThreadInv, ObjOrNull
  <2>8. \A s \in S : msg[s].tag \in FlushTags
    BY <2>4 DEF Linked, IsFlush
  <2>9. \A s \in S : cnamed[msg[s].tag] = NoObj => cnamed'[msg[s].tag] = NoObj
    BY <1>8, <2>8
  <2>10. Rest(th, S)'
    BY <1>6, <1>7, <2>1, <2>2, <2>4, <2>5, <2>6, <2>7, <2>9, RestKept
  <2>. QED  BY <2>10
<1>. QED  BY <1>18, <1>19, <1>20, <1>21, <1>22, <1>23, <1>24 DEF ClientInv

\* A thread gives up its reference on x, the answered request it has in its
\* hands or the request its np_flush has found.
LEMMA UnrefKeeps ==
    ASSUME IInv, IInv', ClientInv, NEW w \in Threads, NEW x \in Obj,
           np_req_unref(x), refcount[x] > 0,
           UNCHANGED <<flushreq, reqs, workreqs, cur, csent, cold, cnamed>>,
           \A th \in Threads : th # w => pc'[th] = pc[th] /\ req'[th] = req[th],
           pc[w] \in {"flushunref", "chain"}, pc'[w] \in {"idle", "flushunref"},
           req[w] \in {x, NoObj}, req'[w] = NoObj,
           IsFlush(x) => req[w] = x /\ refcount[x] = 1,
           refcount[x] = 1 => ~Pending(x) /\ \A th \in Threads : th # w => req[th] # x
    PROVE  ClientInv'
<1>. USE NpReqAssumption
<1>1. /\ \A o \in Obj : o # x => refcount'[o] = refcount[o] /\ msg'[o] = msg[o]
      /\ refcount'[x] = refcount[x] - 1 /\ refcount[x] \in Nat
      /\ msg'[x] = IF refcount[x] = 1 THEN NoMsg ELSE msg[x]
  BY DEF IInv, TypeOK, np_req_unref
<1>2. \A o \in Obj : Pending(o) => msg'[o] = msg[o]
  BY <1>1
<1>3. /\ \A o \in Obj : o # x => (IsFlush(o)' <=> IsFlush(o))
      /\ \A o \in Obj : Pending(o) => (IsFlush(o)' <=> IsFlush(o))
  BY <1>1, <1>2 DEF IsFlush
<1>4. /\ \A o : Listed(o)' <=> Listed(o)
      /\ \A f : Open(f)' <=> Open(f)
  BY DEF Queued, Listed, Open
<1>5. \A o : Pending(o) => Pending(o)'
  BY <1>4 DEF Pending
<1>6. /\ \A i \in DOMAIN reqs : reqs[i] \in Obj /\ Pending(reqs[i])
      /\ \A q \in workreqs : q \in Obj /\ Pending(q)
  BY DEF IInv, TypeOK, Pending, Listed, Queued
<1>7. \A th \in Threads : th # w /\ req[th] # NoObj =>
         /\ req[th] \in Obj /\ msg'[req[th]] = msg[req[th]]
         /\ IsFlush(req[th])' <=> IsFlush(req[th])
  <2>1. \A th \in Threads : req[th] \in ObjOrNull
    BY DEF IInv, TypeOK
  <2>2. \A th \in Threads : th # w /\ req[th] # NoObj => req[th] \in Obj /\ msg'[req[th]] = msg[req[th]]
    BY <1>1, <2>1 DEF ObjOrNull
  <2>. QED  BY <2>2 DEF IsFlush
<1>8. AskInv'
  <2>. SUFFICES ASSUME NEW o \in Obj, IsFlush(o)', refcount'[o] > 0,
                       \A th \in Threads : req'[th] = o => pc'[th] \in Answering
                PROVE  csent[msg'[o].tag] = o /\ cold[msg'[o].tag] = msg'[o].old
    BY DEF AskInv
  <2>1. o # x
    <3>1. NoMsg.tag \notin FlushTags
      BY DEF NoMsg
    <3>2. refcount[x] = 1 => ~IsFlush(x)'
      BY <1>1, <3>1 DEF IsFlush
    <3>3. refcount[x] # 1 => ~IsFlush(x)'
      BY <1>1 DEF IsFlush
    <3>. QED  BY <3>2, <3>3
  <2>2. IsFlush(o) /\ refcount[o] > 0 /\ msg'[o] = msg[o]
    BY <1>1, <1>3, <2>1
  <2>3. \A th \in Threads : req[th] = o => pc[th] \in Answering
    BY <2>1
  <2>. QED  BY <2>2, <2>3 DEF ClientInv, AskInv
<1>9. OpInv'
  BY <1>2, <1>5 DEF ClientInv, OpInv
<1>10. NamedInv'
  <2>1. \A f \in FlushTags : cnamed[f] # NoObj => cnamed[f] \in Obj
    BY DEF IInv, TypeOK, ObjOrNull
  <2>. QED  BY <1>2, <1>4, <1>5, <2>1 DEF ClientInv, NamedInv
<1>11. BeforeInv'
  <2>1. \A i \in DOMAIN reqs : msg'[reqs[i]] = msg[reqs[i]] /\ (IsFlush(reqs[i])' <=> IsFlush(reqs[i]))
    BY <1>2, <1>3, <1>6
  <2>2. ASSUME NEW i \in DOMAIN reqs, NEW j \in DOMAIN reqs, IsFlush(reqs[j])', Open(msg[reqs[j]].tag)',
               msg'[reqs[i]].tag = cold[msg'[reqs[j]].tag]
        PROVE  i < j
    BY <1>4, <2>1, <2>2 DEF ClientInv, BeforeInv
  <2>3. ASSUME NEW th \in Threads, req'[th] # NoObj, IsFlush(req[th])', pc'[th] = "process",
               Open(msg[req[th]].tag)', NEW i \in DOMAIN reqs
        PROVE  msg'[reqs[i]].tag # cold[msg'[req'[th]].tag]
    <3>1. th # w
      BY <2>3
    <3>2. /\ req'[th] = req[th] /\ pc[th] = "process"
          /\ msg'[req[th]] = msg[req[th]] /\ IsFlush(req[th])
      BY <1>7, <2>3, <3>1
    <3>3. Open(msg[req[th]].tag)
      BY <1>4, <2>3, <3>2
    <3>. QED  BY <2>1, <2>3, <3>2, <3>3 DEF ClientInv, BeforeInv
  <2>. QED  BY <2>2, <2>3 DEF BeforeInv
<1>12. ClosedInv'
  <2>. SUFFICES ASSUME NEW th \in Threads, req'[th] # NoObj, IsFlush(req[th])',
                       pc'[th] \in {"mark", "unlink", "send"}
                PROVE  ~Open(msg[req[th]].tag)'
    BY DEF ClosedInv
  <2>1. th # w
    OBVIOUS
  <2>2. /\ req'[th] = req[th] /\ pc'[th] = pc[th]
        /\ msg'[req[th]] = msg[req[th]] /\ IsFlush(req[th])
    BY <1>7, <2>1
  <2>3. ~Open(msg[req[th]].tag)
    BY <2>2 DEF ClientInv, ClosedInv
  <2>. QED  BY <1>4, <2>2, <2>3
<1>13. LinkInv'
  <2>. SUFFICES ASSUME NEW q \in workreqs, flushreq[q] # NoObj
                PROVE  msg'[flushreq[q]].old = IF IsFlush(q)' THEN msg'[q].old ELSE msg'[q].tag
    BY DEF LinkInv
  <2>1. PICK p \in Obj : p = flushreq[q]
    BY DEF IInv, TypeOK, ObjOrNull
  <2>2. q \in Obj /\ Chained(q, p)
    BY <2>1 DEF IInv, TypeOK, Chained
  <2>3. IsFlush(p) /\ \A th \in Threads : req[th] # p
    BY <2>2 DEF IInv, ChainInv
  <2>4. msg'[p] = msg[p] /\ msg'[q] = msg[q] /\ (IsFlush(q)' <=> IsFlush(q))
    BY <1>1, <1>2, <1>3, <1>6, <2>3
  <2>. QED  BY <2>1, <2>4 DEF ClientInv, LinkInv
<1>14. TailInv'
  <2>. SUFFICES ASSUME NEW th \in Threads, pc'[th] \in {"send", "chain", "next"}
                PROVE  \E S \in SUBSET Obj : Rest(th, S)'
    BY DEF TailInv
  <2>1. th # w /\ pc'[th] = pc[th] /\ pc[th] \in {"send", "chain", "next"} /\ req'[th] = req[th]
    OBVIOUS
  <2>2. PICK S \in SUBSET Obj : Rest(th, S)
    BY <2>1 DEF ClientInv, TailInv
  <2>3. \A s \in S : s \in Obj /\ Linked(s) /\ s # x
    BY <2>2 DEF Rest, Linked
  <2>4. \A s \in S : Linked(s)'
    BY <1>1, <1>3, <1>4, <2>3 DEF Linked
  <2>5. Link(th)' = Link(th)
    BY <2>1 DEF Link
  <2>6. pc[th] = "send" => msg'[req[th]] = msg[req[th]]
    <3>1. pc[th] = "send" => req[th] # NoObj
      BY DEF IInv, ThreadInv
    <3>. QED  BY <1>7, <2>1, <3>1
  <2>7. Rest(th, S)'
    BY <1>1, <2>1, <2>2, <2>3, <2>4, <2>5, <2>6, RestKept
  <2>. QED  BY <2>7
<1>. QED  BY <1>8, <1>9, <1>10, <1>11, <1>12, <1>13, <1>14 DEF ClientInv

\* np_flush and np_respond give up their references.
LEMMA UnrefSteps ==
    ASSUME IInv, IInv', ClientInv, NEW w \in Threads, FlushUnref(w) \/ RespondDone(w)
    PROVE  ClientInv'
<1>. USE NpReqAssumption
<1>1. CASE FlushUnref(w)
  <2>1. PICK x \in Obj : /\ x = held[w] /\ ~IsFlush(x) /\ pc[w] = "flushunref"
    BY <1>1 DEF FlushUnref, IInv, ThreadInv
  <2>2. refcount[x] > 0 /\ (refcount[x] = 1 => ~Owned(x))
    BY <2>1, Counts DEF IInv
  <2>3. refcount[x] = 1 => ~Pending(x) /\ \A th \in Threads : th # w => req[th] # x
    <3>1. ~Owned(x) => \A th \in Threads : req[th] # x
      BY DEF Owned
    <3>. QED  BY <2>2, <3>1, PendingLive
  <2>4. /\ np_req_unref(x)
        /\ UNCHANGED <<flushreq, reqs, workreqs, cur, csent, cold, cnamed>>
        /\ \A th \in Threads : th # w => pc'[th] = pc[th] /\ req'[th] = req[th]
        /\ pc'[w] = "idle" /\ req[w] = NoObj /\ req'[w] = NoObj
    BY <1>1, <2>1 DEF FlushUnref, IInv, TypeOK, ThreadInv, srvVars, cliVars
  <2>. QED  BY <2>1, <2>2, <2>3, <2>4, UnrefKeeps
<1>2. CASE RespondDone(w)
  <2>1. PICK x \in Obj : x = req[w] /\ pc[w] = "chain" /\ x \notin workreqs
    <3>1. pc[w] = "chain"
      BY <1>2 DEF RespondDone
    <3>2. req[w] \in ObjOrNull
      BY DEF IInv, TypeOK
    <3>3. req[w] # NoObj /\ req[w] \notin workreqs
      BY <3>1 DEF IInv, ThreadInv
    <3>. QED  BY <3>1, <3>2, <3>3 DEF ObjOrNull
  <2>2. Owned(x)
    BY <2>1 DEF Owned
  <2>3. refcount[x] > 0 /\ (IsFlush(x) => refcount[x] = 1)
    <3>1. IsFlush(x) => \A th \in Threads : held[th] # x
      BY DEF IInv, ThreadInv
    <3>. QED  BY <2>2, <3>1, Counts DEF IInv
  <2>4. \A th \in Threads : th # w => req[th] # x
    BY <2>1 DEF IInv, ThreadInv
  <2>5. ~Pending(x)
    <3>1. ~Queued(x)
      BY <2>1 DEF Queued, IInv, QueueInv
    <3>. QED  BY <2>1, <2>4, <3>1 DEF Pending, Listed
  <2>6. /\ np_req_unref(x)
        /\ UNCHANGED <<flushreq, reqs, workreqs, cur, csent, cold, cnamed>>
        /\ \A th \in Threads : th # w => pc'[th] = pc[th] /\ req'[th] = req[th]
        /\ pc'[w] \in {"idle", "flushunref"} /\ req'[w] = NoObj
    BY <1>2, <2>1 DEF RespondDone, Return, IInv, TypeOK, srvVars, cliVars
  <2>. QED  BY <2>1, <2>3, <2>4, <2>5, <2>6, UnrefKeeps
<1>. QED  BY <1>1, <1>2

\* The reader queues a new request x, in memory nobody refers to.
LEMMA ReadFacts ==
    ASSUME IInv, ClientInv, ReuseInWindow = FALSE, NEW x \in Free,
           NEW m \in [tag : Tags, old : OpTags \cup {NoTag}],
           np_req_alloc(x, m), np_srv_add_req(x), UNCHANGED <<workreqs, pc, req, cur>>
    PROVE  /\ x \in Obj /\ refcount[x] = 0
           /\ \A th \in Threads : req[th] # x
           /\ \A o \in Obj : o # x => /\ refcount'[o] = refcount[o] /\ msg'[o] = msg[o]
                                      /\ IsFlush(o)' <=> IsFlush(o)
           /\ refcount'[x] = 1 /\ msg'[x] = m
           /\ \A i \in DOMAIN reqs : /\ reqs[i] \in Obj /\ reqs[i] # x /\ reqs'[i] = reqs[i]
                                     /\ \A j \in DOMAIN reqs' : j \notin DOMAIN reqs => i < j
           /\ \A j \in DOMAIN reqs' : j \notin DOMAIN reqs => reqs'[j] = x
           /\ \A o \in Obj : Pending(o) => o # x /\ Pending(o)' /\ (Listed(o)' <=> Listed(o))
           /\ Pending(x)'
<1>1. /\ x \in Obj
      /\ refcount[x] = 0
  BY DEF Free
<1>2. ~Owned(x) /\ ~Pending(x)
  BY <1>1, Counts, PendingLive DEF IInv
<1>3. \A th \in Threads : req[th] # x
  BY <1>2 DEF Owned
<1>4. /\ \A o \in Obj : o # x => refcount'[o] = refcount[o] /\ msg'[o] = msg[o]
      /\ refcount'[x] = 1 /\ msg'[x] = m
  BY <1>1 DEF IInv, TypeOK, np_req_alloc
<1>5. \A o \in Obj : o # x => (IsFlush(o)' <=> IsFlush(o))
  BY <1>4 DEF IsFlush
<1>6. reqs' = Append(reqs, x) /\ reqs \in Seq(Obj)
  BY DEF np_srv_add_req, IInv, TypeOK
<1>7. /\ DOMAIN reqs = 1 .. Len(reqs) /\ DOMAIN reqs' = 1 .. (Len(reqs) + 1) /\ Len(reqs) \in Nat
      /\ \A i \in 1 .. Len(reqs) : reqs'[i] = reqs[i] /\ reqs[i] \in Obj
      /\ reqs'[Len(reqs) + 1] = x
  BY <1>1, <1>6
<1>8. \A i \in DOMAIN reqs : reqs[i] # x
  BY <1>2 DEF Pending, Listed, Queued
<1>9. \A o : Queued(o)' <=> Queued(o) \/ o = x
  BY <1>7 DEF Queued
<1>10. \A o : Listed(o)' <=> Listed(o) \/ o = x
  BY <1>9 DEF Listed
<1>11. \A o : Pending(o)' <=> Pending(o) \/ o = x
  BY <1>3, <1>10 DEF Pending
<1>12. \A i \in DOMAIN reqs, j \in DOMAIN reqs' : j \notin DOMAIN reqs => i < j
  BY <1>7
<1>13. \A j \in DOMAIN reqs' : j \notin DOMAIN reqs => reqs'[j] = x
  BY <1>7
<1>14. \A i \in DOMAIN reqs : reqs[i] \in Obj /\ reqs'[i] = reqs[i]
  BY <1>7
<1>15. \A o \in Obj : Pending(o) => o # x /\ Pending(o)' /\ (Listed(o)' <=> Listed(o))
  BY <1>2, <1>10, <1>11
<1>. QED  BY <1>1, <1>3, <1>4, <1>5, <1>8, <1>11, <1>12, <1>13, <1>14, <1>15

\* A new request disturbs no chain.
LEMMA ReadChains ==
    ASSUME IInv, ClientInv, ReuseInWindow = FALSE, NEW x \in Free,
           NEW m \in [tag : Tags, old : OpTags \cup {NoTag}],
           np_req_alloc(x, m), np_srv_add_req(x), UNCHANGED <<workreqs, pc, req, cur>>,
           \A s \in Obj : Linked(s) /\ cnamed[msg[s].tag] = NoObj => cnamed'[msg[s].tag] = NoObj
    PROVE  LinkInv' /\ TailInv'
<1>1. /\ x \in Obj /\ refcount[x] = 0
      /\ \A th \in Threads : req[th] # x
      /\ \A o \in Obj : o # x => /\ refcount'[o] = refcount[o] /\ msg'[o] = msg[o]
                                 /\ IsFlush(o)' <=> IsFlush(o)
      /\ refcount'[x] = 1 /\ msg'[x] = m
      /\ \A i \in DOMAIN reqs : /\ reqs[i] \in Obj /\ reqs[i] # x /\ reqs'[i] = reqs[i]
                                /\ \A j \in DOMAIN reqs' : j \notin DOMAIN reqs => i < j
      /\ \A j \in DOMAIN reqs' : j \notin DOMAIN reqs => reqs'[j] = x
      /\ \A o \in Obj : Pending(o) => o # x /\ Pending(o)' /\ (Listed(o)' <=> Listed(o))
      /\ Pending(x)'
  BY ReadFacts
<1>2. \A o \in Obj : o # x => flushreq'[o] = flushreq[o]
  BY DEF IInv, TypeOK, np_req_alloc
<1>3. \A th \in Threads : pc[th] = "next" => cur[th] # x
  BY DEF Free
<1>4. LinkInv'
  <2>. SUFFICES ASSUME NEW q \in workreqs, flushreq'[q] # NoObj
                PROVE  msg'[flushreq'[q]].old = IF IsFlush(q)' THEN msg'[q].old ELSE msg'[q].tag
    BY DEF LinkInv
  <2>1. q \in Obj /\ q # x
    BY <1>1 DEF IInv, TypeOK, Pending, Listed
  <2>2. flushreq'[q] = flushreq[q]
    BY <1>2, <2>1
  <2>3. PICK p \in Obj : p = flushreq[q]
    BY <2>1, <2>2 DEF IInv, TypeOK, ObjOrNull
  <2>4. Chained(q, p)
    BY <2>3 DEF Chained
  <2>5. Owned(p)
    BY <2>1, <2>4 DEF Owned
  <2>6. p # x
    BY <1>1, <2>5, Counts DEF IInv
  <2>7. msg'[p] = msg[p] /\ msg'[q] = msg[q] /\ (IsFlush(q)' <=> IsFlush(q))
    BY <1>1, <2>1, <2>6
  <2>. QED  BY <2>2, <2>3, <2>7 DEF ClientInv, LinkInv
<1>5. TailInv'
  <2>. SUFFICES ASSUME NEW th \in Threads, pc[th] \in {"send", "chain", "next"}
                PROVE  \E S \in SUBSET Obj : Rest(th, S)'
    BY DEF TailInv
  <2>1. PICK S \in SUBSET Obj : Rest(th, S)
    BY DEF ClientInv, TailInv
  <2>2. \A s \in S : s \in Obj /\ Linked(s) /\ s # x
    BY <1>1, <2>1 DEF Rest, Linked
  <2>3. \A s \in S : Linked(s)'
    <3>1. \A o \in Obj : o # x /\ ~Listed(o) => ~Listed(o)'
      <4>1. reqs' = Append(reqs, x) /\ reqs \in Seq(Obj)
        BY DEF np_srv_add_req, IInv, TypeOK
      <4>2. \A o : Queued(o)' => Queued(o) \/ o = x
        BY <4>1, <1>1 DEF Queued
      <4>. QED  BY <4>2 DEF Listed
    <3>. QED  BY <1>1, <2>2, <3>1 DEF Linked
  <2>4. /\ pc[th] = "send" => req[th] \in Obj /\ req[th] # x
        /\ pc[th] = "next" => cur[th] \in Obj /\ cur[th] # x
    <3>1. req[th] \in ObjOrNull
      BY DEF IInv, TypeOK
    <3>2. pc[th] = "send" => req[th] # NoObj
      BY DEF IInv, ThreadInv
    <3>3. pc[th] = "next" => cur[th] \in Obj
      BY DEF IInv, ThreadInv
    <3>. QED  BY <1>1, <1>3, <3>1, <3>2, <3>3 DEF ObjOrNull
  <2>5. Link(th)' = Link(th)
    BY <1>2, <2>4 DEF Link
  <2>6. Rest(th, S)'
    BY <1>1, <1>2, <2>1, <2>2, <2>3, <2>4, <2>5, RestKept
  <2>. QED  BY <2>6
<1>. QED  BY <1>4, <1>5

\* A message that is no Tflush arrives: no Tflush waits for a request of its
\* tag that is still on a list.
LEMMA ReadOpKeeps ==
    ASSUME IInv, IInv', ClientInv, ReuseInWindow = FALSE,
           NEW t \in OpTags, NEW x \in Obj, ReadOp(t, x)
    PROVE  ClientInv'
<1>. USE NpReqAssumption
<1>. DEFINE m == [tag |-> t, old |-> NoTag]
<1>1. /\ x \in Free /\ m \in [tag : Tags, old : OpTags \cup {NoTag}]
      /\ np_req_alloc(x, m) /\ np_srv_add_req(x)
      /\ UNCHANGED <<workreqs, pc, req, cur, cold, cnamed>>
      /\ csent[t] = NoObj /\ m.tag = t
  BY DEF ReadOp, Tags
<1>2. \A u \in Tags : csent'[u] = IF u = t THEN x ELSE csent[u]
  BY DEF ReadOp, IInv, TypeOK
<1>. HIDE DEF m
<1>3. /\ refcount[x] = 0
      /\ \A th \in Threads : req[th] # x
      /\ \A o \in Obj : o # x => /\ refcount'[o] = refcount[o] /\ msg'[o] = msg[o]
                                 /\ IsFlush(o)' <=> IsFlush(o)
      /\ refcount'[x] = 1 /\ msg'[x] = m
      /\ \A i \in DOMAIN reqs : /\ reqs[i] \in Obj /\ reqs[i] # x /\ reqs'[i] = reqs[i]
                                /\ \A j \in DOMAIN reqs' : j \notin DOMAIN reqs => i < j
      /\ \A j \in DOMAIN reqs' : j \notin DOMAIN reqs => reqs'[j] = x
      /\ \A o \in Obj : Pending(o) => o # x /\ Pending(o)' /\ (Listed(o)' <=> Listed(o))
      /\ Pending(x)'
  BY <1>1, ReadFacts
<1>4. ~IsFlush(x)' /\ t \in Tags /\ \A f \in FlushTags : f \in Tags /\ f # t
  BY <1>1, <1>3 DEF IsFlush, Tags
<1>5. \A f \in FlushTags : cnamed[f] # NoObj =>
         /\ cnamed[f] \in Obj /\ Pending(cnamed[f])
         /\ cold[f] \in OpTags /\ msg[cnamed[f]].tag = cold[f]
         /\ Listed(cnamed[f]) => csent[cold[f]] = cnamed[f]
  BY DEF ClientInv, NamedInv, IInv, TypeOK, ObjOrNull
<1>6. \A f \in FlushTags : (Open(f)' <=> Open(f)) /\ (Open(f) => cold[f] # t)
  BY <1>1, <1>3, <1>5 DEF Open
<1>7. AskInv'
  <2>. SUFFICES ASSUME NEW o \in Obj, IsFlush(o)', refcount'[o] > 0,
                       \A th \in Threads : req[th] = o => pc[th] \in Answering
                PROVE  csent'[msg'[o].tag] = o /\ cold[msg'[o].tag] = msg'[o].old
    BY <1>1 DEF AskInv
  <2>1. o # x
    BY <1>4
  <2>2. IsFlush(o) /\ refcount[o] > 0 /\ msg'[o] = msg[o]
    BY <1>3, <2>1
  <2>3. csent[msg[o].tag] = o /\ cold[msg[o].tag] = msg[o].old
    BY <2>2 DEF ClientInv, AskInv
  <2>4. msg[o].tag \in FlushTags
    BY <2>2 DEF IsFlush
  <2>. QED  BY <1>2, <1>4, <2>2, <2>3, <2>4
<1>8. OpInv'
  <2>. SUFFICES ASSUME NEW u \in OpTags, csent'[u] \in Obj
                PROVE  msg'[csent'[u]].tag = u /\ Pending(csent[u])'
    BY DEF OpInv
  <2>1. CASE u = t
    BY <1>1, <1>2, <1>3, <1>4, <2>1
  <2>2. CASE u # t
    <3>1. PICK o \in Obj : o = csent[u] /\ o = csent'[u]
      BY <1>2, <2>2 DEF Tags
    <3>2. msg[o].tag = u /\ Pending(o)
      BY <3>1 DEF ClientInv, OpInv
    <3>. QED  BY <1>3, <3>1, <3>2
  <2>. QED  BY <2>1, <2>2
<1>9. NamedInv'
  <2>. SUFFICES ASSUME NEW f \in FlushTags, NEW o \in Obj, o = cnamed[f]
                PROVE  /\ cold[f] \in OpTags /\ msg'[o].tag = cold[f]
                       /\ Pending(o)'
                       /\ Listed(o)' => csent'[cold[f]] = o
    BY <1>1, <1>5 DEF NamedInv
  <2>1. /\ Pending(o) /\ cold[f] \in OpTags /\ msg[o].tag = cold[f]
        /\ Listed(o) => csent[cold[f]] = o
    BY <1>5
  <2>2. Listed(o) => csent'[cold[f]] = o
    BY <1>1, <1>2, <2>1 DEF Tags
  <2>. QED  BY <1>3, <2>1, <2>2
<1>10. BeforeInv'
  <2>1. ASSUME NEW i \in DOMAIN reqs', NEW j \in DOMAIN reqs', IsFlush(reqs[j])', Open(msg[reqs[j]].tag)',
               msg'[reqs'[i]].tag = cold[msg'[reqs'[j]].tag]
        PROVE  i < j
    <3>1. j \in DOMAIN reqs
      BY <1>3, <1>4, <2>1
    <3>2. PICK y \in Obj : y = reqs[j] /\ y = reqs'[j] /\ y # x
      BY <1>3, <3>1
    <3>3. IsFlush(y) /\ msg'[y] = msg[y] /\ msg[y].tag \in FlushTags
      BY <1>3, <2>1, <3>2 DEF IsFlush
    <3>4. Open(msg[y].tag) /\ cold[msg[y].tag] # t
      BY <1>6, <2>1, <3>2, <3>3
    <3>5. i \in DOMAIN reqs
      BY <1>1, <1>3, <2>1, <3>2, <3>3, <3>4
    <3>6. msg[reqs[i]].tag = cold[msg[y].tag]
      BY <1>3, <2>1, <3>2, <3>3, <3>5
    <3>. QED  BY <3>1, <3>2, <3>3, <3>4, <3>5, <3>6 DEF ClientInv, BeforeInv
  <2>2. ASSUME NEW th \in Threads, req[th] # NoObj, IsFlush(req[th])', pc[th] = "process",
               Open(msg[req[th]].tag)', NEW i \in DOMAIN reqs'
        PROVE  msg'[reqs'[i]].tag # cold[msg'[req[th]].tag]
    <3>1. PICK y \in Obj : y = req[th] /\ y # x
      BY <1>3, <2>2 DEF IInv, TypeOK, ObjOrNull
    <3>2. IsFlush(y) /\ msg'[y] = msg[y] /\ msg[y].tag \in FlushTags
      BY <1>1, <1>3, <2>2, <3>1 DEF IsFlush
    <3>3. Open(msg[y].tag) /\ cold[msg[y].tag] # t
      BY <1>1, <1>6, <2>2, <3>1, <3>2
    <3>4. i \in DOMAIN reqs => msg[reqs[i]].tag # cold[msg[y].tag]
      BY <2>2, <3>1, <3>2, <3>3 DEF ClientInv, BeforeInv
    <3>5. CASE i \in DOMAIN reqs
      BY <1>3, <3>1, <3>2, <3>4, <3>5
    <3>6. CASE i \notin DOMAIN reqs
      BY <1>1, <1>3, <3>1, <3>2, <3>3, <3>6
    <3>. QED  BY <3>5, <3>6
  <2>. QED  BY <1>1, <2>1, <2>2 DEF BeforeInv
<1>11. ClosedInv'
  <2>. SUFFICES ASSUME NEW th \in Threads, NEW y \in Obj, y = req[th], IsFlush(y)',
                       pc[th] \in {"mark", "unlink", "send"}
                PROVE  ~Open(msg[y].tag)'
    BY <1>1 DEF ClosedInv, IInv, TypeOK, ObjOrNull
  <2>1. IsFlush(y) /\ msg'[y] = msg[y] /\ msg[y].tag \in FlushTags
    BY <1>3 DEF IsFlush
  <2>2. ~Open(msg[y].tag)
    BY <2>1 DEF ClientInv, ClosedInv
  <2>. QED  BY <1>6, <2>1, <2>2
<1>12. LinkInv' /\ TailInv'
  BY <1>1, ReadChains
<1>. QED  BY <1>7, <1>8, <1>9, <1>10, <1>11, <1>12 DEF ClientInv

\* A Tflush arrives: what it names is the request the client waits for under
\* that tag, and whatever is queued under the tag was queued before it.
LEMMA ReadFlushKeeps ==
    ASSUME IInv, IInv', ClientInv, ReuseInWindow = FALSE,
           NEW g \in FlushTags, NEW t \in OpTags, NEW x \in Obj, ReadFlush(g, t, x)
    PROVE  ClientInv'
<1>. USE NpReqAssumption
<1>. DEFINE m == [tag |-> g, old |-> t]
<1>1. /\ x \in Free /\ m \in [tag : Tags, old : OpTags \cup {NoTag}]
      /\ np_req_alloc(x, m) /\ np_srv_add_req(x)
      /\ UNCHANGED <<workreqs, pc, req, cur>>
      /\ csent[g] = NoObj /\ m.tag = g /\ m.old = t
  BY DEF ReadFlush, Tags
<1>. HIDE DEF m
<1>2. /\ \A f \in FlushTags : f # g => csent'[f] = csent[f] /\ cold'[f] = cold[f] /\ cnamed'[f] = cnamed[f]
      /\ csent'[g] = x /\ cold'[g] = t
      /\ cnamed'[g] = IF csent[t] \in Obj THEN csent[t] ELSE NoObj
      /\ \A u \in OpTags : csent'[u] = csent[u]
  <2>1. csent \in [Tags -> ObjOrNull \cup {Flushed}] /\ cold \in [FlushTags -> OpTags \cup {NoTag}]
        /\ cnamed \in [FlushTags -> ObjOrNull]
    BY DEF IInv, TypeOK
  <2>2. g \in Tags /\ \A u \in OpTags : u \in Tags /\ u # g
    BY DEF Tags
  <2>3. \A f \in FlushTags : f \in Tags
    BY DEF Tags
  <2>. QED  BY <2>1, <2>2, <2>3 DEF ReadFlush
<1>3. /\ x \in Obj /\ refcount[x] = 0
      /\ \A th \in Threads : req[th] # x
      /\ \A o \in Obj : o # x => /\ refcount'[o] = refcount[o] /\ msg'[o] = msg[o]
                                 /\ IsFlush(o)' <=> IsFlush(o)
      /\ refcount'[x] = 1 /\ msg'[x] = m
      /\ \A i \in DOMAIN reqs : /\ reqs[i] \in Obj /\ reqs[i] # x /\ reqs'[i] = reqs[i]
                                /\ \A j \in DOMAIN reqs' : j \notin DOMAIN reqs => i < j
      /\ \A j \in DOMAIN reqs' : j \notin DOMAIN reqs => reqs'[j] = x
      /\ \A o \in Obj : Pending(o) => o # x /\ Pending(o)' /\ (Listed(o)' <=> Listed(o))
      /\ Pending(x)'
  BY <1>1, ReadFacts
<1>4. \A f \in FlushTags : cnamed[f] # NoObj =>
         /\ cnamed[f] \in Obj /\ Pending(cnamed[f])
         /\ cold[f] \in OpTags /\ msg[cnamed[f]].tag = cold[f]
         /\ Listed(cnamed[f]) => csent[cold[f]] = cnamed[f]
  BY DEF ClientInv, NamedInv, IInv, TypeOK, ObjOrNull
<1>5. \A f \in FlushTags : f # g => (Open(f)' <=> Open(f))
  BY <1>2, <1>3, <1>4 DEF Open
<1>6. ASSUME NEW y \in Obj, IsFlush(y), refcount[y] > 0,
             \A th \in Threads : req[th] = y => pc[th] \in Answering
      PROVE  /\ y # x /\ msg'[y] = msg[y] /\ msg[y].tag \in FlushTags /\ msg[y].tag # g
             /\ csent[msg[y].tag] = y /\ cold[msg[y].tag] = msg[y].old
  <2>1. csent[msg[y].tag] = y /\ cold[msg[y].tag] = msg[y].old
    BY <1>6 DEF ClientInv, AskInv
  <2>2. y # x /\ y # NoObj /\ msg[y].tag \in FlushTags
    BY <1>3, <1>6 DEF IsFlush
  <2>. QED  BY <1>1, <1>3, <2>1, <2>2
<1>7. ASSUME NEW th \in Threads, NEW y \in Obj, y = req[th], IsFlush(y)', pc[th] \in Answering
      PROVE  /\ msg'[y] = msg[y] /\ msg[y].tag \in FlushTags /\ msg[y].tag # g
             /\ IsFlush(y) /\ (Open(msg[y].tag)' <=> Open(msg[y].tag))
             /\ cold'[msg[y].tag] = cold[msg[y].tag]
  <2>1. y # x /\ IsFlush(y)
    BY <1>3, <1>7
  <2>2. csent[msg[y].tag] = y
    BY <1>7, <2>1, Asked DEF ClientInv
  <2>3. msg'[y] = msg[y] /\ msg[y].tag \in FlushTags /\ msg[y].tag # g
    BY <1>1, <1>3, <2>1, <2>2 DEF IsFlush
  <2>. QED  BY <1>2, <1>5, <2>1, <2>3
<1>8. AskInv'
  <2>. SUFFICES ASSUME NEW o \in Obj, IsFlush(o)', refcount'[o] > 0,
                       \A th \in Threads : req[th] = o => pc[th] \in Answering
                PROVE  csent'[msg'[o].tag] = o /\ cold'[msg'[o].tag] = msg'[o].old
    BY <1>1 DEF AskInv
  <2>1. CASE o = x
    BY <1>1, <1>2, <1>3, <2>1
  <2>2. CASE o # x
    <3>1. IsFlush(o) /\ refcount[o] > 0
      BY <1>3, <2>2
    <3>2. /\ msg'[o] = msg[o] /\ msg[o].tag \in FlushTags /\ msg[o].tag # g
          /\ csent[msg[o].tag] = o /\ cold[msg[o].tag] = msg[o].old
      BY <1>6, <3>1
    <3>. QED  BY <1>2, <3>2
  <2>. QED  BY <2>1, <2>2
<1>9. ASSUME NEW u \in OpTags, NEW o \in Obj, o = csent[u]
      PROVE  msg'[o].tag = u /\ Pending(o)'
  <2>1. msg[o].tag = u /\ Pending(o)
    BY <1>9 DEF ClientInv, OpInv
  <2>. QED  BY <1>3, <2>1
<1>10. OpInv'
  BY <1>2, <1>9 DEF OpInv
<1>11. NamedInv'
  <2>. SUFFICES ASSUME NEW f \in FlushTags, NEW o \in Obj, o = cnamed'[f]
                PROVE  /\ cold'[f] \in OpTags /\ msg'[o].tag = cold'[f]
                       /\ Pending(o)'
                       /\ Listed(o)' => csent'[cold'[f]] = o
    BY DEF NamedInv, IInv, TypeOK, ObjOrNull
  <2>1. CASE f = g
    BY <1>2, <1>9, <2>1
  <2>2. CASE f # g
    <3>1. /\ Pending(o) /\ cold[f] \in OpTags /\ msg[o].tag = cold[f]
          /\ Listed(o) => csent[cold[f]] = o
      BY <1>2, <1>4, <2>2
    <3>. QED  BY <1>2, <1>3, <2>2, <3>1
  <2>. QED  BY <2>1, <2>2
<1>12. \A f \in FlushTags : cold'[f] # g
  <2>1. cold' \in [FlushTags -> OpTags \cup {NoTag}]
    BY DEF IInv, TypeOK
  <2>. QED  BY <2>1 DEF Tags
<1>13. ASSUME NEW i \in DOMAIN reqs', NEW j \in DOMAIN reqs', IsFlush(reqs[j])', Open(msg[reqs[j]].tag)',
              msg'[reqs'[i]].tag = cold'[msg'[reqs'[j]].tag]
       PROVE  i < j
  <2>1. msg'[reqs'[j]].tag \in FlushTags
    BY <1>13 DEF IsFlush
  <2>2. reqs'[i] # x
    BY <1>1, <1>3, <1>12, <1>13, <2>1
  <2>3. i \in DOMAIN reqs
    BY <1>3, <2>2
  <2>4. CASE j \notin DOMAIN reqs
    BY <1>3, <2>3, <2>4
  <2>5. CASE j \in DOMAIN reqs
    <3>1. PICK y \in Obj : y = reqs[j] /\ y = reqs'[j] /\ y # x
      BY <1>3, <2>5
    <3>2. IsFlush(y)
      BY <1>3, <1>13, <3>1
    <3>3. \A th \in Threads : req[th] # y
      BY <2>5, <3>1 DEF IInv, QueueInv
    <3>4. refcount[y] > 0
      BY <2>5, <3>1, PendingLive DEF Pending, Listed, Queued
    <3>5. msg'[y] = msg[y] /\ msg[y].tag \in FlushTags /\ msg[y].tag # g
      BY <1>6, <3>2, <3>3, <3>4
    <3>6. Open(msg[y].tag) /\ cold'[msg[y].tag] = cold[msg[y].tag]
      BY <1>2, <1>5, <1>13, <3>1, <3>5
    <3>7. msg[reqs[i]].tag = cold[msg[y].tag]
      BY <1>3, <1>13, <2>3, <3>1, <3>5, <3>6
    <3>. QED  BY <2>3, <2>5, <3>1, <3>2, <3>6, <3>7 DEF ClientInv, BeforeInv
  <2>. QED  BY <2>4, <2>5
<1>14. ASSUME NEW th \in Threads, req[th] # NoObj, IsFlush(req[th])', pc[th] = "process",
              Open(msg[req[th]].tag)', NEW i \in DOMAIN reqs'
       PROVE  msg'[reqs'[i]].tag # cold'[msg'[req[th]].tag]
  <2>1. PICK y \in Obj : y = req[th]
    BY <1>14 DEF IInv, TypeOK, ObjOrNull
  <2>2. IsFlush(y)' /\ pc[th] \in Answering /\ req'[th] = req[th]
    BY <1>1, <1>14, <2>1 DEF Answering
  <2>3. /\ msg'[y] = msg[y] /\ msg[y].tag \in FlushTags
        /\ IsFlush(y) /\ (Open(msg[y].tag)' <=> Open(msg[y].tag))
        /\ cold'[msg[y].tag] = cold[msg[y].tag]
    BY <1>7, <2>1, <2>2
  <2>4. Open(msg[y].tag)
    BY <1>14, <2>1, <2>2, <2>3
  <2>5. \A k \in DOMAIN reqs : msg[reqs[k]].tag # cold[msg[y].tag]
    BY <1>14, <2>1, <2>3, <2>4 DEF ClientInv, BeforeInv
  <2>6. CASE i \in DOMAIN reqs
    BY <1>3, <2>1, <2>3, <2>5, <2>6
  <2>7. CASE i \notin DOMAIN reqs
    BY <1>1, <1>3, <1>12, <2>1, <2>3, <2>7
  <2>. QED  BY <2>6, <2>7
<1>15. BeforeInv'
  BY <1>1, <1>13, <1>14 DEF BeforeInv
<1>16. ClosedInv'
  <2>. SUFFICES ASSUME NEW th \in Threads, NEW y \in Obj, y = req[th], IsFlush(y)',
                       pc[th] \in {"mark", "unlink", "send"}
                PROVE  ~Open(msg[y].tag)'
    BY <1>1 DEF ClosedInv, IInv, TypeOK, ObjOrNull
  <2>1. /\ msg'[y] = msg[y] /\ IsFlush(y) /\ (Open(msg[y].tag)' <=> Open(msg[y].tag))
    BY <1>7 DEF Answering
  <2>2. ~Open(msg[y].tag)
    BY <2>1 DEF ClientInv, ClosedInv
  <2>. QED  BY <2>1, <2>2
<1>17. \A s \in Obj : Linked(s) /\ cnamed[msg[s].tag] = NoObj => cnamed'[msg[s].tag] = NoObj
  <2>. SUFFICES ASSUME NEW s \in Obj, Linked(s), cnamed[msg[s].tag] = NoObj
                PROVE  cnamed'[msg[s].tag] = NoObj
    OBVIOUS
  <2>1. msg[s].tag \in FlushTags /\ msg[s].tag # g
    BY <1>6 DEF Linked
  <2>. QED  BY <1>2, <2>1
<1>18. LinkInv' /\ TailInv'
  BY <1>1, <1>17, ReadChains
<1>. QED  BY <1>8, <1>10, <1>11, <1>15, <1>16, <1>18 DEF ClientInv

\* The reply to a message that is no Tflush settles what the chain names.
LEMMA SendOpKeeps ==
    ASSUME IInv, IInv', ClientInv, NEW w \in Threads, RespondSend(w), ~IsFlush(req[w])
    PROVE  ClientInv'
<1>. USE NpReqAssumption
<1>1. PICK x \in Obj : x = req[w] /\ pc[w] = "send" /\ x \notin workreqs
  <2>1. pc[w] = "send" /\ req[w] \in ObjOrNull
    BY DEF RespondSend, IInv, TypeOK
  <2>2. req[w] # NoObj /\ req[w] \notin workreqs
    BY <2>1 DEF IInv, ThreadInv
  <2>. QED  BY <2>1, <2>2 DEF ObjOrNull
<1>2. PICK u \in OpTags : u = msg[x].tag
  BY <1>1, MsgTags DEF IInv
<1>3. /\ \A t \in Tags : csent'[t] = IF t = u THEN NoObj ELSE csent[t]
      /\ \A f \in FlushTags : cnamed'[f] = IF cold[f] = u THEN NoObj ELSE cnamed[f]
      /\ \A f \in FlushTags : csent'[f] = csent[f]
      /\ cold' = cold
  BY <1>1, <1>2, SentOp DEF RespondSend, IInv
<1>4. /\ \A th \in Threads : pc'[th] = IF th = w THEN "chain" ELSE pc[th]
      /\ \A th \in Threads : cur'[th] = IF th = w THEN flushreq[x] ELSE cur[th]
      /\ UNCHANGED <<refcount, msg, flushreq, reqs, workreqs, req>>
  BY <1>1 DEF IInv, TypeOK, RespondSend, objVars, srvVars
<1>5. /\ \A o : IsFlush(o)' <=> IsFlush(o)
      /\ \A o : Listed(o)' <=> Listed(o)
      /\ \A o : Linked(o)' <=> Linked(o)
  BY <1>4 DEF IsFlush, Queued, Listed, Linked
<1>6. \A o : o # x /\ Pending(o) => Pending(o)'
  BY <1>1, <1>4, <1>5 DEF Pending
<1>7. \A f \in FlushTags : Open(f)' => Open(f)
  BY <1>3, <1>5 DEF Open
<1>8. AskInv'
  <2>. SUFFICES ASSUME NEW o \in Obj, IsFlush(o), refcount[o] > 0,
                       \A th \in Threads : req[th] = o => pc'[th] \in Answering
                PROVE  csent'[msg[o].tag] = o /\ cold[msg[o].tag] = msg[o].old
    BY <1>3, <1>4, <1>5 DEF AskInv
  <2>1. \A th \in Threads : req[th] = o => pc[th] \in Answering
    BY <1>4 DEF Answering
  <2>. QED  BY <1>3, <2>1 DEF ClientInv, AskInv, IsFlush
<1>9. OpInv'
  <2>. SUFFICES ASSUME NEW t \in OpTags, csent'[t] \in Obj
                PROVE  msg[csent'[t]].tag = t /\ Pending(csent[t])'
    BY <1>4 DEF OpInv
  <2>1. t # u /\ csent'[t] = csent[t]
    BY <1>3 DEF Tags
  <2>2. msg[csent[t]].tag = t /\ Pending(csent[t])
    BY <2>1 DEF ClientInv, OpInv
  <2>3. csent[t] # x
    BY <1>2, <2>1, <2>2
  <2>. QED  BY <1>6, <2>1, <2>2, <2>3
<1>10. NamedInv'
  <2>. SUFFICES ASSUME NEW f \in FlushTags, NEW o \in Obj, o = cnamed'[f]
                PROVE  /\ cold[f] \in OpTags /\ msg[o].tag = cold[f]
                       /\ Pending(o)'
                       /\ Listed(o) => csent'[cold[f]] = o
    BY <1>3, <1>4, <1>5 DEF NamedInv, IInv, TypeOK, ObjOrNull
  <2>1. cold[f] # u /\ o = cnamed[f]
    BY <1>3
  <2>2. /\ Pending(o) /\ cold[f] \in OpTags /\ msg[o].tag = cold[f]
        /\ Listed(o) => csent[cold[f]] = o
    BY <2>1 DEF ClientInv, NamedInv
  <2>. QED  BY <1>2, <1>3, <1>6, <2>1, <2>2 DEF Tags
<1>11. BeforeInv'
  <2>1. \A i \in DOMAIN reqs : IsFlush(reqs[i]) => msg[reqs[i]].tag \in FlushTags
    BY DEF IsFlush
  <2>2. \A th \in Threads : IsFlush(req[th]) => msg[req[th]].tag \in FlushTags
    BY DEF IsFlush
  <2>. QED  BY <1>3, <1>4, <1>5, <1>7, <2>1, <2>2 DEF ClientInv, BeforeInv
<1>12. ClosedInv'
  <2>1. \A th \in Threads : IsFlush(req[th]) => msg[req[th]].tag \in FlushTags
    BY DEF IsFlush
  <2>. QED  BY <1>4, <1>5, <1>7, <2>1 DEF ClientInv, ClosedInv
<1>13. LinkInv'
  BY <1>4, <1>5 DEF ClientInv, LinkInv
<1>14. \A s : Linked(s) => msg[s].tag \in FlushTags
  BY DEF Linked, IsFlush
<1>15. TailInv'
  <2>. SUFFICES ASSUME NEW th \in Threads, pc'[th] \in {"send", "chain", "next"}
                PROVE  \E S \in SUBSET Obj : Rest(th, S)'
    BY DEF TailInv
  <2>1. pc[th] \in {"send", "chain", "next"}
    BY <1>1, <1>4
  <2>2. PICK S \in SUBSET Obj : Rest(th, S)
    BY <2>1 DEF ClientInv, TailInv
  <2>3. CASE th # w
    <3>1. pc'[th] = pc[th]
      BY <1>4, <2>3
    <3>2. Link(th)' = Link(th)
      BY <1>4, <2>3 DEF Link
    <3>3. \A s \in S : cnamed[msg[s].tag] = NoObj => cnamed'[msg[s].tag] = NoObj
      BY <1>3, <1>14, <2>2 DEF Rest
    <3>4. Rest(th, S)'
      BY <1>4, <1>5, <2>2, <3>1, <3>2, <3>3, RestKept
    <3>. QED  BY <3>4
  <2>4. CASE th = w
    <3>1. /\ flushreq[x] \in S \cup {NoObj}
          /\ \A s \in S : Linked(s) /\ flushreq[s] \in S \cup {NoObj} /\ msg[s].old = u
      BY <1>1, <1>2, <2>2, <2>4 DEF Rest, Link
    <3>2. \A s \in S : cold[msg[s].tag] = msg[s].old
      BY <3>1 DEF Linked, ClientInv, AskInv
    <3>3. \A s \in S : cnamed'[msg[s].tag] = NoObj
      BY <1>3, <1>14, <3>1, <3>2
    <3>4. Link(w)' = flushreq[x]
      BY <1>4 DEF Link
    <3>5. Rest(w, S)'
      BY <1>4, <1>5, <3>1, <3>3, <3>4 DEF Rest
    <3>. QED  BY <2>4, <3>5
  <2>. QED  BY <2>3, <2>4
<1>. QED  BY <1>8, <1>9, <1>10, <1>11, <1>12, <1>13, <1>15 DEF ClientInv

\* An Rflush is written for x, whose Tflush names nothing that is still on a
\* list: what the client is told is true.
LEMMA AnswerKeeps ==
    ASSUME IInv, IInv', ClientInv, NEW w \in Threads, NEW x \in Obj, IsFlush(x),
           np_conn_respond(x), csent[msg[x].tag] = x, ~Open(msg[x].tag), ~Listed(x),
           \A o \in Obj : o # x => refcount'[o] = refcount[o] /\ msg'[o] = msg[o],
           UNCHANGED <<flushreq, reqs, workreqs, req>>,
           \A th \in Threads : th # w => pc'[th] = pc[th],
           pc'[w] \in {"chain", "next"},
           pc[w] \in {"send", "chain"}, pc[w] = "send" => req[w] = x,
           \A th \in Threads : req[th] = x => th = w /\ pc[w] = "send",
           req[w] = x \/ refcount'[x] = 0
    PROVE  AskInv' /\ OpInv' /\ NamedInv' /\ BeforeInv' /\ ClosedInv'
<1>. USE NpReqAssumption
<1>1. PICK g \in FlushTags : g = msg[x].tag
  BY DEF IsFlush
<1>2. /\ csent'[g] = NoObj /\ cnamed'[g] = NoObj
      /\ \A f \in FlushTags : f # g => /\ csent'[f] = csent[f] /\ cold'[f] = cold[f]
                                       /\ cnamed'[f] = cnamed[f]
      /\ \A t \in OpTags : \/ csent'[t] = csent[t]
                           \/ csent'[t] = NoObj /\ t = cold[g] /\ csent[t] \in {cnamed[g], Flushed}
  BY <1>1, SentFlush DEF IInv
<1>3. /\ \A o \in Obj : o # x => (IsFlush(o)' <=> IsFlush(o))
      /\ \A o : Listed(o)' <=> Listed(o)
  BY DEF IsFlush, Queued, Listed
<1>4. \A o \in Obj : o # x /\ Pending(o) => Pending(o)'
  BY <1>3 DEF Pending
<1>5. \A f \in FlushTags : Open(f)' => f # g /\ Open(f)
  BY <1>2, <1>3 DEF Open
<1>6. /\ \A i \in DOMAIN reqs : reqs[i] \in Obj /\ reqs[i] # x
      /\ \A th \in Threads : req[th] \in ObjOrNull
  BY DEF Listed, Queued, IInv, TypeOK
<1>7. AskInv'
  <2>. SUFFICES ASSUME NEW o \in Obj, IsFlush(o)', refcount'[o] > 0,
                       \A th \in Threads : req[th] = o => pc'[th] \in Answering
                PROVE  csent'[msg'[o].tag] = o /\ cold'[msg'[o].tag] = msg'[o].old
    BY DEF AskInv
  <2>1. \A th \in Threads : req[th] = o => th # w /\ pc[th] \in Answering
    BY DEF Answering
  <2>2. o # x
    BY <2>1
  <2>3. IsFlush(o) /\ refcount[o] > 0 /\ msg'[o] = msg[o]
    BY <1>3, <2>2
  <2>4. csent[msg[o].tag] = o /\ cold[msg[o].tag] = msg[o].old
    BY <2>1, <2>3 DEF ClientInv, AskInv
  <2>5. msg[o].tag \in FlushTags /\ msg[o].tag # g
    BY <1>1, <2>2, <2>3, <2>4 DEF IsFlush
  <2>. QED  BY <1>2, <2>3, <2>4, <2>5
<1>8. OpInv'
  <2>. SUFFICES ASSUME NEW t \in OpTags, NEW o \in Obj, o = csent'[t]
                PROVE  msg'[o].tag = t /\ Pending(o)'
    BY DEF OpInv
  <2>1. o = csent[t]
    BY <1>2
  <2>2. msg[o].tag = t /\ Pending(o)
    BY <2>1 DEF ClientInv, OpInv
  <2>3. o # x
    BY <2>2 DEF IsFlush
  <2>. QED  BY <1>4, <2>2, <2>3
<1>9. NamedInv'
  <2>. SUFFICES ASSUME NEW f \in FlushTags, NEW o \in Obj, o = cnamed'[f]
                PROVE  /\ cold'[f] \in OpTags /\ msg'[o].tag = cold'[f]
                       /\ Pending(o)'
                       /\ Listed(o) => csent'[cold'[f]] = o
    BY <1>3 DEF NamedInv, IInv, TypeOK, ObjOrNull
  <2>1. f # g /\ o = cnamed[f] /\ cold'[f] = cold[f]
    BY <1>2
  <2>2. /\ Pending(o) /\ cold[f] \in OpTags /\ msg[o].tag = cold[f]
        /\ Listed(o) => csent[cold[f]] = o
    BY <2>1 DEF ClientInv, NamedInv
  <2>3. o # x
    BY <2>2 DEF IsFlush
  <2>4. Listed(o) => csent'[cold[f]] = o
    <3>1. Listed(o) => o # cnamed[g]
      BY <1>1 DEF Open
    <3>. QED  BY <1>2, <2>2, <3>1
  <2>. QED  BY <1>4, <2>1, <2>2, <2>3, <2>4
<1>10. \A o \in Obj : o # x /\ IsFlush(o)' /\ Open(msg[o].tag)' =>
          /\ IsFlush(o) /\ msg'[o] = msg[o] /\ Open(msg[o].tag)
          /\ cold'[msg[o].tag] = cold[msg[o].tag]
  <2>. SUFFICES ASSUME NEW o \in Obj, o # x, IsFlush(o)', Open(msg[o].tag)'
                PROVE  /\ IsFlush(o) /\ msg'[o] = msg[o] /\ Open(msg[o].tag)
                       /\ cold'[msg[o].tag] = cold[msg[o].tag]
    OBVIOUS
  <2>1. IsFlush(o) /\ msg'[o] = msg[o] /\ msg[o].tag \in FlushTags
    BY <1>3 DEF IsFlush
  <2>. QED  BY <1>2, <1>5, <2>1
<1>11. BeforeInv'
  <2>1. ASSUME NEW i \in DOMAIN reqs, NEW j \in DOMAIN reqs, IsFlush(reqs[j])', Open(msg[reqs[j]].tag)',
               msg'[reqs[i]].tag = cold'[msg'[reqs[j]].tag]
        PROVE  i < j
    <3>1. PICK y \in Obj : y = reqs[j] /\ y # x
      BY <1>6
    <3>2. IsFlush(y) /\ msg'[y] = msg[y] /\ Open(msg[y].tag) /\ cold'[msg[y].tag] = cold[msg[y].tag]
      BY <1>10, <2>1, <3>1
    <3>3. msg[reqs[i]].tag = cold[msg[y].tag]
      BY <1>6, <2>1, <3>1, <3>2
    <3>. QED  BY <3>1, <3>2, <3>3 DEF ClientInv, BeforeInv
  <2>2. ASSUME NEW th \in Threads, req[th] # NoObj, IsFlush(req[th])', pc'[th] = "process",
               Open(msg[req[th]].tag)', NEW i \in DOMAIN reqs
        PROVE  msg'[reqs[i]].tag # cold'[msg'[req[th]].tag]
    <3>1. th # w /\ pc[th] = "process"
      BY <2>2
    <3>2. PICK y \in Obj : y = req[th] /\ y # x
      BY <1>6, <2>2, <3>1 DEF ObjOrNull
    <3>3. IsFlush(y) /\ msg'[y] = msg[y] /\ Open(msg[y].tag) /\ cold'[msg[y].tag] = cold[msg[y].tag]
      BY <1>10, <2>2, <3>2
    <3>4. msg[reqs[i]].tag # cold[msg[y].tag]
      BY <2>2, <3>1, <3>2, <3>3 DEF ClientInv, BeforeInv
    <3>. QED  BY <1>6, <3>2, <3>3, <3>4
  <2>. QED  BY <2>1, <2>2 DEF BeforeInv
<1>12. ClosedInv'
  <2>. SUFFICES ASSUME NEW th \in Threads, NEW y \in Obj, y = req[th], IsFlush(y)',
                       pc'[th] \in {"mark", "unlink", "send"}
                PROVE  ~Open(msg[y].tag)'
    BY <1>6 DEF ClosedInv, ObjOrNull
  <2>1. th # w /\ pc[th] \in {"mark", "unlink", "send"} /\ y # x
    OBVIOUS
  <2>2. IsFlush(y) => ~Open(msg[y].tag)
    BY <2>1 DEF ClientInv, ClosedInv
  <2>. QED  BY <1>10, <2>1, <2>2
<1>. QED  BY <1>7, <1>8, <1>9, <1>11, <1>12

\* A Tflush np_flush has not linked is answered.
LEMMA SendFlushKeeps ==
    ASSUME IInv, IInv', ClientInv, NEW w \in Threads, RespondSend(w), IsFlush(req[w])
    PROVE  ClientInv' /\ ~Open(msg[req[w]].tag)
<1>. USE NpReqAssumption
<1>1. PICK x \in Obj : x = req[w] /\ pc[w] = "send" /\ x \notin workreqs
  <2>1. pc[w] = "send" /\ req[w] \in ObjOrNull
    BY DEF RespondSend, IInv, TypeOK
  <2>2. req[w] # NoObj /\ req[w] \notin workreqs
    BY <2>1 DEF IInv, ThreadInv
  <2>. QED  BY <2>1, <2>2 DEF ObjOrNull
<1>2. PICK g \in FlushTags : g = msg[x].tag
  BY <1>1 DEF IsFlush
<1>3. /\ \A th \in Threads : pc'[th] = IF th = w THEN "chain" ELSE pc[th]
      /\ \A th \in Threads : cur'[th] = IF th = w THEN flushreq[x] ELSE cur[th]
      /\ UNCHANGED <<refcount, msg, flushreq, reqs, workreqs, req>>
  BY <1>1 DEF IInv, TypeOK, RespondSend, objVars, srvVars
<1>4. /\ np_conn_respond(x) /\ csent[g] = x /\ ~Open(g)
  <2>1. csent[g] = x
    BY <1>1, <1>2, Asked DEF ClientInv, Answering
  <2>. QED  BY <1>1, <1>2, <2>1 DEF RespondSend, ClientInv, ClosedInv
<1>5. ~Listed(x)
  BY <1>1 DEF Listed, Queued, IInv, QueueInv
<1>6. flushreq[x] = NoObj /\ \A th \in Threads : req[th] = x => th = w
  BY <1>1 DEF IInv, ThreadInv
<1>7. AskInv' /\ OpInv' /\ NamedInv' /\ BeforeInv' /\ ClosedInv'
  BY <1>1, <1>2, <1>3, <1>4, <1>5, <1>6, AnswerKeeps
<1>8. \A f \in FlushTags : cnamed[f] = NoObj => cnamed'[f] = NoObj
  BY <1>1, <1>4, SentFlush DEF IInv
<1>9. /\ \A o : IsFlush(o)' <=> IsFlush(o)
      /\ \A o : Linked(o)' <=> Linked(o)
  BY <1>3 DEF IsFlush, Queued, Listed, Linked
<1>10. LinkInv'
  BY <1>3, <1>9 DEF ClientInv, LinkInv
<1>11. TailInv'
  <2>. SUFFICES ASSUME NEW th \in Threads, pc'[th] \in {"send", "chain", "next"}
                PROVE  \E S \in SUBSET Obj : Rest(th, S)'
    BY DEF TailInv
  <2>1. CASE th # w
    <3>1. pc'[th] = pc[th]
      BY <1>3, <2>1
    <3>2. PICK S \in SUBSET Obj : Rest(th, S)
      BY <3>1 DEF ClientInv, TailInv
    <3>3. Link(th)' = Link(th)
      BY <1>3, <2>1 DEF Link
    <3>4. \A s \in S : cnamed[msg[s].tag] = NoObj => cnamed'[msg[s].tag] = NoObj
      BY <1>8, <3>2 DEF Rest, Linked, IsFlush
    <3>5. Rest(th, S)'
      BY <1>3, <1>9, <3>1, <3>2, <3>3, <3>4, RestKept
    <3>. QED  BY <3>5
  <2>2. CASE th = w
    <3>1. Rest(w, {})'
      BY <1>3, <1>6 DEF Rest, Link
    <3>. QED  BY <2>2, <3>1
  <2>. QED  BY <2>1, <2>2
<1>. QED  BY <1>1, <1>2, <1>4, <1>7, <1>10, <1>11 DEF ClientInv

\* A Tflush of the chain is answered and given up.
LEMMA ChainKeeps ==
    ASSUME IInv, IInv', ClientInv, NEW w \in Threads, RespondFlush(w)
    PROVE  /\ ClientInv' /\ cnamed[msg[cur[w]].tag] = NoObj
           /\ cur[w] \in Obj /\ IsFlush(cur[w])
<1>. USE NpReqAssumption
<1>1. PICK x \in Obj : x = cur[w] /\ pc[w] = "chain" /\ Reached(w, x)
  <2>1. pc[w] = "chain" /\ cur[w] # NoObj /\ cur[w] \in ObjOrNull
    BY DEF RespondFlush, IInv, TypeOK
  <2>. QED  BY <2>1 DEF ObjOrNull, Reached
<1>2. /\ IsFlush(x) /\ \A th \in Threads : req[th] # x
      /\ \A th \in Threads : Reached(th, x) => th = w
      /\ \A t \in Obj : ~Chained(t, x)
  BY <1>1 DEF IInv, ReachedInv, ChainInv
<1>3. Owned(x) /\ refcount[x] = 1
  <2>1. Owned(x)
    BY <1>1 DEF Owned
  <2>2. \A th \in Threads : held[th] # x
    BY <1>2 DEF IInv, ThreadInv
  <2>. QED  BY <2>1, <2>2, Counts DEF IInv
<1>4. PICK g \in FlushTags : g = msg[x].tag
  BY <1>2 DEF IsFlush
<1>5. /\ \A th \in Threads : pc'[th] = IF th = w THEN "next" ELSE pc[th]
      /\ UNCHANGED <<flushreq, reqs, workreqs, req, cur>>
  BY <1>1 DEF IInv, TypeOK, RespondFlush, srvVars
<1>6. /\ \A o \in Obj : o # x => refcount'[o] = refcount[o] /\ msg'[o] = msg[o]
      /\ refcount'[x] = 0
  BY <1>1, <1>3 DEF IInv, TypeOK, RespondFlush, np_req_unref
<1>7. np_conn_respond(x)
  BY <1>1 DEF RespondFlush
<1>8. csent[g] = x
  BY <1>2, <1>3, <1>4 DEF ClientInv, AskInv
<1>9. ~Listed(x) /\ cnamed[g] = NoObj
  <2>1. PICK S \in SUBSET Obj : Rest(w, S)
    BY <1>1 DEF ClientInv, TailInv
  <2>2. x \in S
    BY <1>1, <2>1 DEF Rest, Link
  <2>. QED  BY <1>1, <1>4, <2>1, <2>2 DEF Rest, Linked
<1>10. AskInv' /\ OpInv' /\ NamedInv' /\ BeforeInv' /\ ClosedInv'
  <2>1. ~Open(g)
    BY <1>9 DEF Open
  <2>. QED  BY <1>1, <1>2, <1>4, <1>5, <1>6, <1>7, <1>8, <1>9, <2>1, AnswerKeeps
<1>11. \A f \in FlushTags : cnamed[f] = NoObj => cnamed'[f] = NoObj
  BY <1>2, <1>7, SentFlush DEF IInv
<1>12. /\ \A o \in Obj : o # x => (IsFlush(o)' <=> IsFlush(o))
       /\ \A o : Listed(o)' <=> Listed(o)
       /\ \A o \in Obj : o # x /\ Linked(o) => Linked(o)'
  <2>1. \A o \in Obj : o # x => (IsFlush(o)' <=> IsFlush(o))
    BY <1>6 DEF IsFlush
  <2>2. \A o : Listed(o)' <=> Listed(o)
    BY <1>5 DEF Listed, Queued
  <2>. QED  BY <1>5, <1>6, <2>1, <2>2 DEF Linked
<1>13. LinkInv'
  <2>. SUFFICES ASSUME NEW q \in workreqs, flushreq[q] # NoObj
                PROVE  msg'[flushreq[q]].old = IF IsFlush(q)' THEN msg'[q].old ELSE msg'[q].tag
    BY <1>5 DEF LinkInv
  <2>1. PICK p \in Obj : p = flushreq[q] /\ q \in Obj
    BY DEF IInv, TypeOK, ObjOrNull
  <2>2. q # x /\ p # x
    BY <1>2, <1>9, <2>1 DEF Listed, Chained
  <2>. QED  BY <1>6, <1>12, <2>1, <2>2 DEF ClientInv, LinkInv
<1>14. TailInv'
  <2>. SUFFICES ASSUME NEW th \in Threads, pc'[th] \in {"send", "chain", "next"}
                PROVE  \E S \in SUBSET Obj : Rest(th, S)'
    BY DEF TailInv
  <2>1. pc[th] \in {"send", "chain", "next"} /\ (pc'[th] = "send" <=> pc[th] = "send")
    BY <1>1, <1>5
  <2>2. PICK S \in SUBSET Obj : Rest(th, S)
    BY <2>1 DEF ClientInv, TailInv
  <2>3. \A s \in S : /\ s \in Obj /\ Linked(s) /\ flushreq[s] \in S \cup {NoObj}
                     /\ IF pc[th] = "send" THEN msg[s].old = msg[req[th]].tag
                                           ELSE cnamed[msg[s].tag] = NoObj
    BY <2>2 DEF Rest
  <2>4. \A s \in Obj : Linked(s) => flushreq[s] # x
    BY <1>2 DEF Linked, Chained
  <2>5. Link(th)' \in S \cup {NoObj} /\ Link(th)' # x
    <3>1. CASE th = w
      <4>1. x \in S
        BY <1>1, <2>2, <3>1 DEF Rest, Link
      <4>2. Link(th)' = flushreq[x]
        BY <1>1, <1>5, <3>1 DEF Link
      <4>. QED  BY <2>3, <2>4, <4>1, <4>2
    <3>2. CASE th # w
      <4>1. Link(th)' = Link(th)
        BY <1>5, <3>2 DEF Link
      <4>2. CASE pc[th] = "send"
        <5>1. req[th] # NoObj /\ req[th] \in ObjOrNull
          BY <4>2 DEF IInv, TypeOK, ThreadInv
        <5>2. req[th] \in Obj
          BY <5>1 DEF ObjOrNull
        <5>3. flushreq[req[th]] # x
          BY <1>2, <4>2, <5>2 DEF Chained
        <5>. QED  BY <2>2, <4>1, <4>2, <5>3 DEF Rest, Link
      <4>3. CASE pc[th] # "send"
        <5>1. Link(th) # x
          BY <1>2, <2>1, <3>2, <4>3 DEF Reached, Link
        <5>. QED  BY <2>2, <4>1, <5>1 DEF Rest
      <4>. QED  BY <4>2, <4>3
    <3>. QED  BY <3>1, <3>2
  <2>6. pc[th] = "send" => msg'[req'[th]].tag = msg[req[th]].tag
    <3>1. pc[th] = "send" => req[th] # NoObj
      BY DEF IInv, ThreadInv
    <3>2. req[th] \in ObjOrNull
      BY DEF IInv, TypeOK
    <3>. QED  BY <1>2, <1>5, <1>6, <3>1, <3>2 DEF ObjOrNull
  <2>. DEFINE R == {s \in S : s # x}
  <2>7. \A s \in R : /\ Linked(s)' /\ flushreq'[s] \in R \cup {NoObj}
                     /\ msg'[s] = msg[s] /\ msg[s].tag \in FlushTags
    BY <1>5, <1>6, <1>12, <2>3, <2>4 DEF Linked, IsFlush
  <2>8. \A s \in R : IF pc'[th] = "send" THEN msg'[s].old = msg'[req'[th]].tag
                                         ELSE cnamed'[msg'[s].tag] = NoObj
    BY <1>11, <2>1, <2>3, <2>6, <2>7
  <2>9. R \in SUBSET Obj /\ Link(th)' \in R \cup {NoObj}
    BY <2>3, <2>5
  <2>. HIDE DEF R
  <2>10. Rest(th, R)'
    BY <2>7, <2>8, <2>9 DEF Rest
  <2>. QED  BY <2>9, <2>10
<1>. QED  BY <1>1, <1>2, <1>4, <1>9, <1>10, <1>13, <1>14 DEF ClientInv

\* The client's invariant holds of the states the server starts in.
LEMMA InitClient ==
    ASSUME Init
    PROVE  ClientInv
<1>. USE NpReqAssumption
<1>1. AskInv /\ OpInv /\ NamedInv
  BY DEF Init, AskInv, OpInv, NamedInv, Tags
<1>2. BeforeInv /\ ClosedInv /\ LinkInv /\ TailInv
  BY DEF Init, BeforeInv, ClosedInv, LinkInv, TailInv
<1>. QED  BY <1>1, <1>2 DEF ClientInv

\* A thread's steps keep it.
LEMMA ThreadKeeps ==
    ASSUME IInv, IInv', ClientInv, NEW w \in Threads,
           (w \in Workers /\ Worker(w)) \/ (w \in Completers /\ Completer(w))
    PROVE  ClientInv'
<1>1. CASE np_respond(w)
  BY <1>1, QuietSteps, UnlinkKeeps, SendOpKeeps, SendFlushKeeps, ChainKeeps, NextKeeps, UnrefSteps
  DEF np_respond
<1>2. CASE \E o \in Obj : Complete(w, o)
  BY <1>2, QuietSteps
<1>3. CASE Worker(w) /\ ~np_respond(w)
  BY <1>3, QuietSteps, TakeKeeps, PendingKeeps, WorkingKeeps, UnrefSteps DEF Worker
<1>. QED  BY <1>1, <1>2, <1>3 DEF Completer

\* Every step keeps it.
LEMMA NextClient ==
    ASSUME IInv, IInv', ClientInv, ReuseInWindow = FALSE, [Next]_vars
    PROVE  ClientInv'
<1>1. CASE Client
  BY <1>1, ReadOpKeeps, ReadFlushKeeps DEF Client
<1>2. CASE (\E w \in Workers : Worker(w)) \/ (\E c \in Completers : Completer(c))
  BY <1>2, ThreadKeeps DEF Threads
<1>3. CASE UNCHANGED vars
  <2>. USE <1>3 DEF vars, objVars, srvVars, thrVars, cliVars
  <2>1. /\ \A o : Queued(o)' <=> Queued(o)
        /\ \A o : IsFlush(o)' <=> IsFlush(o)
    BY DEF Queued, IsFlush
  <2>2. /\ \A o : Listed(o)' <=> Listed(o)
        /\ \A o : Pending(o)' <=> Pending(o)
        /\ \A f : Open(f)' <=> Open(f)
    BY <2>1 DEF Listed, Pending, Open
  <2>3. AskInv' /\ OpInv' /\ NamedInv'
    BY <2>1, <2>2 DEF ClientInv, AskInv, OpInv, NamedInv
  <2>4. BeforeInv' /\ ClosedInv' /\ LinkInv'
    BY <2>1, <2>2 DEF ClientInv, BeforeInv, ClosedInv, LinkInv
  <2>5. TailInv'
    BY <2>1, <2>2 DEF ClientInv, TailInv, Rest, Link, Linked
  <2>. QED  BY <2>3, <2>4, <2>5 DEF ClientInv
<1>. QED  BY <1>1, <1>2, <1>3 DEF Next

\* The reply that settles a Tflush leaves what it named on no list.
LEMMA ThreadSettles ==
    ASSUME IInv, IInv', ClientInv, NEW w \in Threads,
           (w \in Workers /\ Worker(w)) \/ (w \in Completers /\ Completer(w)),
           NEW f \in FlushTags, csent[f] # NoObj, csent'[f] = NoObj, cnamed[f] # NoObj
    PROVE  ~Listed(cnamed[f]) /\ UNCHANGED <<reqs, workreqs>>
<1>. USE NpReqAssumption
<1>1. CASE UNCHANGED csent
  BY <1>1
<1>2. CASE FlushPending(w)
  <2>1. PICK i \in DOMAIN reqs :
          csent' = [csent EXCEPT ![msg[reqs[i]].tag] = IF @ = reqs[i] THEN Flushed ELSE @]
    BY <1>2 DEF FlushPending
  <2>2. csent'[f] = csent[f] \/ csent'[f] = Flushed
    BY <2>1 DEF IInv, TypeOK, Tags
  <2>. QED  BY <2>2
<1>3. CASE RespondSend(w)
  <2>1. pc[w] = "send" /\ req[w] \in ObjOrNull
    BY <1>3 DEF RespondSend, IInv, TypeOK
  <2>2. req[w] # NoObj
    BY <2>1 DEF IInv, ThreadInv
  <2>3. PICK x \in Obj : x = req[w]
    BY <2>1, <2>2 DEF ObjOrNull
  <2>4. np_conn_respond(x) /\ UNCHANGED <<reqs, workreqs>>
    BY <1>3, <2>3 DEF RespondSend, srvVars
  <2>5. IsFlush(x)
    BY <2>4, SentOp DEF IInv
  <2>6. f = msg[x].tag
    BY <2>4, <2>5, SentFlush DEF IInv
  <2>7. ~Open(f)
    BY <1>3, <2>3, <2>5, <2>6, SendFlushKeeps
  <2>. QED  BY <2>4, <2>7 DEF Open
<1>4. CASE RespondFlush(w)
  <2>1. cnamed[msg[cur[w]].tag] = NoObj /\ cur[w] \in Obj /\ IsFlush(cur[w])
    BY <1>4, ChainKeeps
  <2>2. PICK x \in Obj : x = cur[w]
    BY <2>1
  <2>3. np_conn_respond(x) /\ IsFlush(x) /\ f # msg[x].tag
    BY <1>4, <2>1, <2>2 DEF RespondFlush
  <2>4. csent'[f] = csent[f]
    BY <2>3, SentFlush DEF IInv
  <2>. QED  BY <2>4
<1>5. UNCHANGED csent \/ FlushPending(w) \/ RespondSend(w) \/ RespondFlush(w)
  BY DEF Worker, Completer, np_respond, WorkerWait, WorkerTake, ProcessReply, ProcessDefer,
         FlushWorking, FlushNotFound, FlushCallback, FlushCancel, FlushUnref, Complete,
         RespondMark, RespondUnlink, RespondNext, RespondDone, cliVars
<1>. QED  BY <1>1, <1>2, <1>3, <1>4, <1>5

\* So no step tells the client that a request is flushed which is listed.
LEMMA StepSettles ==
    ASSUME IInv, IInv', ClientInv, Next,
           NEW f \in FlushTags, csent[f] # NoObj, csent'[f] = NoObj, cnamed[f] # NoObj
    PROVE  cnamed[f] \notin workreqs' /\ \A i \in DOMAIN reqs' : reqs'[i] # cnamed[f]
<1>1. CASE Client
  <2>1. PICK o \in Obj, t \in OpTags : ReadOp(t, o) \/ \E g \in FlushTags : ReadFlush(g, t, o)
    BY <1>1 DEF Client
  <2>2. csent'[f] = csent[f] \/ csent'[f] = o
    BY <2>1 DEF ReadOp, ReadFlush, IInv, TypeOK, Tags
  <2>. QED  BY <2>2, NpReqAssumption
<1>2. CASE (\E w \in Workers : Worker(w)) \/ (\E c \in Completers : Completer(c))
  <2>1. ~Listed(cnamed[f]) /\ UNCHANGED <<reqs, workreqs>>
    BY <1>2, ThreadSettles DEF Threads
  <2>. QED  BY <2>1 DEF Listed, Queued
<1>. QED  BY <1>1, <1>2 DEF Next

\* Once an Rflush is written, the request its Tflush named is neither queued
\* nor on workreqs, whichever branch np_flush took, as long as no memory is
\* handed out again that np_respond has still to read.
THEOREM FlushedConfirmed ==
    ASSUME ReuseInWindow = FALSE
    PROVE  Spec => FlushedNotListed
<1>1. Init => IInv /\ ClientInv
  BY InitIInv, InitClient
<1>2. IInv /\ ClientInv /\ [Next]_vars => (IInv /\ ClientInv)'
  BY NextIInv, NextClient
<1>3. IInv /\ IInv' /\ ClientInv /\ [Next]_vars =>
        [\A f \in FlushTags :
           (csent[f] # NoObj /\ csent'[f] = NoObj /\ cnamed[f] # NoObj)
           => /\ cnamed[f] \notin workreqs'
              /\ \A i \in DOMAIN reqs' : reqs'[i] # cnamed[f]]_vars
  BY StepSettles
<1>. QED  BY <1>1, <1>2, <1>3, PTL DEF Spec, FlushedNotListed

\* np_req_unref's assert: the count is not zero when a reference is given up.
THEOREM CountNeverBelow ==
    ASSUME ReuseInWindow = FALSE
    PROVE  Spec => []AssertRefcount
<1>1. IInv => AssertRefcount
  <2>. SUFFICES ASSUME IInv, NEW th \in Threads
                PROVE  /\ pc[th] = "chain" => /\ cur[th] # NoObj => refcount[cur[th]] > 0
                                              /\ refcount[req[th]] > 0
                       /\ pc[th] = "flushunref" => refcount[held[th]] > 0
    BY DEF AssertRefcount
  <2>1. /\ cur[th] \in ObjOrNull /\ req[th] \in ObjOrNull
        /\ pc[th] = "chain" => req[th] # NoObj
        /\ pc[th] = "flushunref" => held[th] \in Obj
    BY DEF IInv, TypeOK, ThreadInv
  <2>2. ASSUME pc[th] = "chain", NEW o \in Obj, o = cur[th] \/ o = req[th]
        PROVE  refcount[o] > 0
    <3>1. Owned(o)
      BY <2>2 DEF Owned, Reached
    <3>. QED  BY <3>1, Counts DEF IInv
  <2>3. ASSUME pc[th] = "flushunref", NEW o \in Obj, o = held[th]
        PROVE  refcount[o] > 0
    BY <2>3, Counts DEF IInv
  <2>. QED  BY <2>1, <2>2, <2>3 DEF ObjOrNull
<1>. QED  BY <1>1, Invariance, PTL
============================================================================
