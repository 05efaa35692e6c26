---------------------------- MODULE NpConnProofs ----------------------------
(***************************************************************************)
(* The properties of NpConn for every number of requests and workers.      *)
(*                                                                         *)
(* None of them is inductive.  The count of the connection rests on the    *)
(* counts of the requests, and those on who holds a request: the queue,    *)
(* the reader, a worker or a reset that took it (HoldInv).  That no        *)
(* handler outlives its session rests on the order in which a careful      *)
(* client's messages are queued (SessionInv).                              *)
(***************************************************************************)
EXTENDS NpConn, TLAPS, FiniteSetTheorems, SequenceTheorems

InReset == {"reset", "collect", "drop", "wait", "destroy", "reopen", "unkeep"}
AtExit == {"remove", "bye"} \cup InReset      \* the reader has given up the transport
Working == {"process", "renew", "newpool", "unlink"} \cup InReset   \* the request is on workreqs

\* Where the threads are, and what they have there.
PcInv ==
    /\ pc[Reader] \in {"start", "read", "check", "sleepy", "sleep", "alloc", "add", "again", "exit",
                       "last", "gone"} \cup AtExit
    /\ \A w \in Workers : pc[w] \in {"idle", "fid", "send", "write", "signal", "unref"} \cup Working
    /\ pc[Stopper] \in {"idle", "close", "decref", "gone"}
    /\ req[Reader] # None <=> pc[Reader] \in {"check", "alloc", "add"}
    /\ \A w \in Workers : req[w] # None <=> pc[w] # "idle"
    /\ req[Stopper] = None
    /\ \A a \in Actors : preqs[a] # {} => pc[a] = "drop"
    /\ \A a \in Actors : kept[a] # {} =>
         pc[a] \in {"drop", "wait", "destroy", "renew", "newpool", "reopen", "unkeep"}
    /\ \A a \in asleep : pc[a] = "wait"
    /\ \A a \in took : IF a = Reader THEN pc[a] \in AtExit ELSE pc[a] = "signal"

\* A worker or the reader has the request, or a reset has taken it from the queue.
Has(a, r) == req[a] = r /\ pc[a] \notin {"check", "alloc"}
Owned(r) == r \in ToSet(reqs) \/ \E a \in Actors : Has(a, r) \/ r \in preqs[a]
Keepers(r) == {a \in Actors : r \in kept[a]}

\* A request has one owner ...
OneOwner ==
    /\ \A i, j \in DOMAIN reqs : reqs[i] = reqs[j] => i = j
    /\ \A r \in Reqs, a, b \in Actors :
         /\ r \in ToSet(reqs) => ~Has(a, r) /\ r \notin preqs[a]
         /\ ~(Has(a, r) /\ r \in preqs[b])
         /\ Has(a, r) /\ Has(b, r) => a = b
         /\ r \in preqs[a] /\ r \in preqs[b] => a = b

\* ... and a reference for it and for each reset that keeps it.
RefsExact == \A r \in Reqs : rq[r].refs = One(Owned(r)) + Cardinality(Keepers(r))

HoldInv == OneOwner /\ RefsExact

\* The requests on workreqs are those a worker has not answered yet.
WorkInv ==
    /\ \A r \in Reqs : r \in workreqs <=> \E w \in Workers : req[w] = r /\ pc[w] \in Working
    /\ \A w \in Workers : pc[w] \in InReset \cup {"renew", "newpool"} => rq[req[w]].kind = "version"

\* What the reader finds when it begins and leaves behind when it ends.
ReaderInv ==
    /\ pc[Reader] = "start" =>
         /\ reqs = <<>>
         /\ \A w \in Workers : pc[w] = "idle"
         /\ EarlyShutdown \/ pc[Stopper] = "idle"
    /\ pc[Reader] \in {"check", "alloc"} => rq[req[Reader]].refs = 0
    /\ pc[Reader] \in AtExit \cup {"last", "gone"} => ~trans
    /\ pc[Reader] \in (AtExit \ {"remove", "reset", "collect"}) \cup {"last", "gone"} => reqs = <<>>
    /\ pc[Reader] \in {"destroy", "reopen", "unkeep", "bye", "last", "gone"} => workreqs = {}

\* Every Tversion under way will have its pool.
PoolsInv == pools + Cardinality(Resetting) <= MaxPools

Live == {r \in Reqs : rq[r].refs > 0}

CountInv ==
    refcount = One(listed) + One(pc[Stopper] \in {"close", "decref"})
               + One(pc[Reader] \notin {"start", "gone"}) + Cardinality(Live)

FreeInv == EarlyShutdown \/ (freed <=> refcount = 0 /\ pc[Reader] = "gone")

TransInv == closed + Cardinality(took) = One(~trans)

\* A Tversion is under way: a worker has it and has not answered, or it is read or queued.
IsVersion(r) == rq[r].kind = "version"
Asked(w) == pc[w] \notin {"idle", "signal", "unref"} /\ IsVersion(req[w])

\* What the messages of a careful client look like: nothing comes after a Tversion it waits for ...
AwaitInv ==
    /\ \A w \in Workers : Asked(w) => awaits /\ reqs = <<>> /\ req[Reader] = None
    /\ \A w, v \in Workers : Asked(w) /\ Asked(v) => w = v
    /\ \A i \in DOMAIN reqs : IsVersion(reqs[i]) => awaits /\ i = Len(reqs) /\ req[Reader] = None
    /\ req[Reader] # None /\ IsVersion(req[Reader]) => awaits

\* ... and its reset has the connection for itself.
AloneInv ==
    /\ \A w \in Workers : pc[w] \in {"destroy", "renew", "newpool"} => \A r \in workreqs : IsVersion(r)
    /\ \A w \in Workers : pc[w] \in {"collect", "drop", "wait", "destroy", "renew"} => resetting

SessionInv == careful => AwaitInv /\ AloneInv

\* The requests that are still to run, or run, are of the session the connection has.
Bound(r) == rq[r].kind = "op" => rq[r].born = pool
BornInv ==
    careful =>
      /\ pc[Reader] = "add" => Bound(req[Reader])
      /\ \A r \in ToSet(reqs) : Bound(r)
      /\ \A w \in Workers : pc[w] \in {"process", "unlink"} => Bound(req[w])

----------------------------------------------------------------------------
(* The queue, the counts *)

\* What Head and Tail leave of a queue without repetitions.
LEMMA TailOf ==
    ASSUME NEW S, NEW s \in Seq(S), s # <<>>
    PROVE  /\ Head(s) \in S /\ Tail(s) \in Seq(S)
           /\ Head(s) = s[1] /\ Len(s) \in Nat \ {0} /\ DOMAIN s = 1 .. Len(s)
           /\ Len(Tail(s)) = Len(s) - 1 /\ DOMAIN Tail(s) = 1 .. (Len(s) - 1)
           /\ \A i \in 1 .. (Len(s) - 1) : Tail(s)[i] = s[i + 1]
           /\ ToSet(s) = ToSet(Tail(s)) \cup {Head(s)}
           /\ (\A i, j \in DOMAIN s : s[i] = s[j] => i = j) =>
                /\ Head(s) \notin ToSet(Tail(s))
                /\ \A i, j \in DOMAIN Tail(s) : Tail(s)[i] = Tail(s)[j] => i = j
<1>1. /\ Head(s) \in S /\ Tail(s) \in Seq(S)
      /\ Head(s) = s[1] /\ Len(s) \in Nat \ {0} /\ DOMAIN s = 1 .. Len(s)
      /\ Len(Tail(s)) = Len(s) - 1 /\ DOMAIN Tail(s) = 1 .. (Len(s) - 1)
      /\ \A i \in 1 .. (Len(s) - 1) : Tail(s)[i] = s[i + 1]
  OBVIOUS
<1>2. ToSet(s) = ToSet(Tail(s)) \cup {Head(s)}
  <2>1. ASSUME NEW i \in DOMAIN s PROVE s[i] = Head(s) \/ \E j \in DOMAIN Tail(s) : s[i] = Tail(s)[j]
    <3>1. CASE i = 1
      BY <1>1, <3>1
    <3>2. CASE i # 1
      <4>1. i - 1 \in 1 .. (Len(s) - 1) /\ (i - 1) + 1 = i
        BY <1>1, <3>2
      <4>. QED  BY <1>1, <4>1
    <3>. QED  BY <3>1, <3>2
  <2>2. ASSUME NEW j \in DOMAIN Tail(s) PROVE \E i \in DOMAIN s : s[i] = Tail(s)[j]
    <3>1. j + 1 \in DOMAIN s
      BY <1>1
    <3>. QED  BY <1>1, <3>1
  <2>3. \E i \in DOMAIN s : s[i] = Head(s)
    BY <1>1
  <2>4. ToSet(s) \subseteq ToSet(Tail(s)) \cup {Head(s)}
    BY <2>1 DEF ToSet
  <2>5. ToSet(Tail(s)) \cup {Head(s)} \subseteq ToSet(s)
    BY <2>2, <2>3 DEF ToSet
  <2>. QED  BY <2>4, <2>5
<1>3. ASSUME \A i, j \in DOMAIN s : s[i] = s[j] => i = j
      PROVE  /\ Head(s) \notin ToSet(Tail(s))
             /\ \A i, j \in DOMAIN Tail(s) : Tail(s)[i] = Tail(s)[j] => i = j
  <2>1. ASSUME NEW j \in DOMAIN Tail(s) PROVE Tail(s)[j] # Head(s)
    <3>1. j + 1 \in DOMAIN s /\ 1 \in DOMAIN s /\ j + 1 # 1
      BY <1>1
    <3>. QED  BY <1>1, <1>3, <3>1
  <2>2. ASSUME NEW i \in DOMAIN Tail(s), NEW j \in DOMAIN Tail(s), Tail(s)[i] = Tail(s)[j]
        PROVE  i = j
    <3>1. i + 1 \in DOMAIN s /\ j + 1 \in DOMAIN s /\ s[i + 1] = s[j + 1]
      BY <1>1, <2>2
    <3>2. i + 1 = j + 1
      BY <1>3, <3>1
    <3>. QED  BY <1>1, <3>2
  <2>. QED  BY <2>1, <2>2 DEF ToSet
<1>. QED  BY <1>1, <1>2, <1>3

\* What Append makes of a queue.
LEMMA AppendOf ==
    ASSUME NEW S, NEW s \in Seq(S), NEW e \in S
    PROVE  /\ Append(s, e) \in Seq(S) /\ Len(s) \in Nat /\ DOMAIN s = 1 .. Len(s)
           /\ Len(Append(s, e)) = Len(s) + 1 /\ DOMAIN Append(s, e) = 1 .. (Len(s) + 1)
           /\ Append(s, e)[Len(s) + 1] = e
           /\ \A i \in 1 .. Len(s) : Append(s, e)[i] = s[i]
           /\ ToSet(Append(s, e)) = ToSet(s) \cup {e}
<1>1. /\ Append(s, e) \in Seq(S) /\ Len(s) \in Nat /\ DOMAIN s = 1 .. Len(s)
      /\ Len(Append(s, e)) = Len(s) + 1 /\ DOMAIN Append(s, e) = 1 .. (Len(s) + 1)
      /\ Append(s, e)[Len(s) + 1] = e
      /\ \A i \in 1 .. Len(s) : Append(s, e)[i] = s[i]
  OBVIOUS
<1>2. ASSUME NEW i \in DOMAIN Append(s, e)
      PROVE  Append(s, e)[i] = e \/ \E j \in DOMAIN s : Append(s, e)[i] = s[j]
  BY <1>1
<1>3. ASSUME NEW j \in DOMAIN s PROVE \E i \in DOMAIN Append(s, e) : s[j] = Append(s, e)[i]
  BY <1>1
<1>4. \E i \in DOMAIN Append(s, e) : e = Append(s, e)[i]
  BY <1>1
<1>. QED  BY <1>1, <1>2, <1>3, <1>4 DEF ToSet

\* The queued requests are requests.
LEMMA QueueOf ==
    ASSUME NEW S, NEW s \in Seq(S)
    PROVE  /\ ToSet(s) \subseteq S
           /\ \A i \in DOMAIN s : s[i] \in S /\ s[i] \in ToSet(s)
           /\ ToSet(<<>>) = {} /\ DOMAIN <<>> = {} /\ <<>> \in Seq(S)
BY DEF ToSet

\* The sets that are counted are finite.
LEMMA Finite ==
    ASSUME TypeOK
    PROVE  /\ IsFiniteSet(Actors) /\ IsFiniteSet(took) /\ IsFiniteSet(Resetting)
           /\ IsFiniteSet(Live) /\ Cardinality(Live) \in Nat
           /\ \A r \in Reqs : IsFiniteSet(Keepers(r)) /\ Cardinality(Keepers(r)) \in Nat
<1>1. IsFiniteSet(Actors)
  <2>1. IsFiniteSet({Reader, Stopper}) /\ IsFiniteSet(Workers)
    <3>1. IsFiniteSet({Reader}) /\ IsFiniteSet({Stopper})
      BY FS_Singleton
    <3>2. {Reader, Stopper} = {Reader} \cup {Stopper}
      OBVIOUS
    <3>3. IsFiniteSet({Reader} \cup {Stopper})
      BY <3>1, FS_Union
    <3>. QED  BY <3>2, <3>3, NpConnAssumption
  <2>. QED  BY <2>1, FS_Union DEF Actors
<1>2. took \subseteq Actors /\ Resetting \subseteq Actors
  BY DEF TypeOK, Resetting, Actors
<1>3. Live \subseteq Reqs /\ IsFiniteSet(Reqs)
  BY NpConnAssumption DEF Live
<1>4. IsFiniteSet(Live) /\ Cardinality(Live) \in Nat
  BY <1>3, FS_Subset, FS_CardinalityType
<1>5. ASSUME NEW r \in Reqs PROVE IsFiniteSet(Keepers(r)) /\ Cardinality(Keepers(r)) \in Nat
  <2>1. Keepers(r) \subseteq Actors
    BY DEF Keepers
  <2>. QED  BY <1>1, <2>1, FS_Subset, FS_CardinalityType
<1>. QED  BY <1>1, <1>2, <1>4, <1>5, FS_Subset

\* A request that is owned or kept is referenced, another is not.
LEMMA Referenced ==
    ASSUME TypeOK, HoldInv, NEW r \in Reqs
    PROVE  /\ rq[r].refs \in Nat
           /\ rq[r].refs > 0 <=> Owned(r) \/ \E a \in Actors : r \in kept[a]
           /\ rq[r].refs > 0 => r \in Live
<1>1. IsFiniteSet(Keepers(r)) /\ Cardinality(Keepers(r)) \in Nat
  BY Finite
<1>2. Cardinality(Keepers(r)) = 0 <=> Keepers(r) = {}
  BY <1>1, FS_EmptySet
<1>3. Keepers(r) = {} <=> ~\E a \in Actors : r \in kept[a]
  BY DEF Keepers
<1>4. rq[r].refs = One(Owned(r)) + Cardinality(Keepers(r)) /\ rq[r].refs \in Nat
  BY DEF HoldInv, RefsExact, TypeOK
<1>5. CASE Owned(r)
  BY <1>1, <1>4, <1>5 DEF One, Live
<1>6. CASE ~Owned(r)
  <2>1. rq[r].refs = Cardinality(Keepers(r))
    BY <1>1, <1>4, <1>6 DEF One
  <2>. QED  BY <1>1, <1>2, <1>3, <1>6, <2>1 DEF Live
<1>. QED  BY <1>5, <1>6

\* One element more, or less.
LEMMA CardStep ==
    ASSUME NEW S, IsFiniteSet(S), NEW x
    PROVE  /\ Cardinality(S) \in Nat
           /\ x \notin S => Cardinality(S \cup {x}) = Cardinality(S) + 1
           /\ x \in S => Cardinality(S \ {x}) = Cardinality(S) - 1 /\ Cardinality(S) > 0
<1>1. Cardinality(S) \in Nat
  BY FS_CardinalityType
<1>2. x \notin S => Cardinality(S \cup {x}) = Cardinality(S) + 1
  BY FS_AddElement
<1>3. x \in S => Cardinality(S \ {x}) = Cardinality(S) - 1
  BY FS_RemoveElement
<1>4. x \in S => Cardinality(S) # 0
  BY FS_EmptySet
<1>. QED  BY <1>1, <1>2, <1>3, <1>4

\* What np_req_unref does to the requests of S and to the connection.
LEMMA UnrefIs ==
    ASSUME TypeOK, NEW S \in SUBSET Reqs, \A r \in S : rq[r].refs > 0, np_req_unref(S)
    PROVE  LET n == Cardinality(Live) - Cardinality(Live)' IN
           /\ rq' \in [Reqs -> [refs : Nat, kind : Kinds, born : 0 .. MaxPools, fid : 0 .. MaxPools]]
           /\ \A r \in Reqs : /\ rq'[r].refs = rq[r].refs - (IF r \in S THEN 1 ELSE 0)
                              /\ rq'[r].refs > 0 => /\ rq'[r].kind = rq[r].kind
                                                    /\ rq'[r].born = rq[r].born
                              /\ r \notin S => rq'[r] = rq[r]
           /\ n \in Nat /\ Cardinality(Live)' \in Nat
           /\ np_conn_decref(n)
<1>. DEFINE D == {r \in S : rq[r].refs = 1}
            n == Cardinality(Live) - Cardinality(Live)'
<1>. USE NpConnAssumption
<1>1. rq' = [r \in Reqs |-> IF r \notin S THEN rq[r]
                            ELSE IF rq[r].refs = 1 THEN NoReq ELSE [rq[r] EXCEPT !.refs = @ - 1]]
      /\ np_conn_decref(Cardinality(D))
  BY DEF np_req_unref
<1>2. rq \in [Reqs -> [refs : Nat, kind : Kinds, born : 0 .. MaxPools, fid : 0 .. MaxPools]]
  BY DEF TypeOK
<1>3. ASSUME NEW r \in Reqs
      PROVE  /\ rq'[r] \in [refs : Nat, kind : Kinds, born : 0 .. MaxPools, fid : 0 .. MaxPools]
             /\ rq'[r].refs = rq[r].refs - (IF r \in S THEN 1 ELSE 0)
             /\ rq'[r].refs > 0 => rq'[r].kind = rq[r].kind /\ rq'[r].born = rq[r].born
             /\ r \notin S => rq'[r] = rq[r]
  <2>1. CASE r \notin S
    BY <1>1, <1>2, <2>1
  <2>2. CASE r \in S /\ rq[r].refs = 1
    BY <1>1, <1>2, <2>2 DEF NoReq, Kinds
  <2>3. CASE r \in S /\ rq[r].refs # 1
    <3>1. rq[r].refs - 1 \in Nat
      BY <1>2, <2>3
    <3>. QED  BY <1>1, <1>2, <2>3, <3>1
  <2>. QED  BY <2>1, <2>2, <2>3
<1>4. rq' \in [Reqs -> [refs : Nat, kind : Kinds, born : 0 .. MaxPools, fid : 0 .. MaxPools]]
  BY <1>1, <1>3
<1>5. Live' = Live \ D /\ D \subseteq Live
  <2>1. ASSUME NEW r \in Reqs
        PROVE  rq'[r].refs > 0 <=> rq[r].refs > 0 /\ r \notin D
    BY <1>2, <1>3
  <2>. QED  BY <2>1 DEF Live
<1>6. Cardinality(Live \ D) = Cardinality(Live) - Cardinality(Live \cap D) /\ Live \cap D = D
  BY <1>5, Finite, FS_Difference
<1>7. IsFiniteSet(D) /\ IsFiniteSet(Live \ D)
  BY <1>5, Finite, FS_Subset
<1>8. Cardinality(D) \in Nat /\ Cardinality(Live \ D) \in Nat
  BY <1>7, FS_CardinalityType
<1>9. Cardinality(Live) \in Nat
  BY Finite
<1>. HIDE DEF D
<1>10. n = Cardinality(D) /\ Cardinality(Live)' \in Nat
  <2>1. Cardinality(Live)' = Cardinality(Live \ D)
    BY <1>5
  <2>2. Cardinality(Live)' = Cardinality(Live) - Cardinality(D)
    BY <1>6, <2>1
  <2>. QED  BY <1>8, <1>9, <2>1, <2>2
<1>. QED  BY <1>1, <1>3, <1>4, <1>8, <1>10

\* Whoever holds or keeps a request has a reference on it.
RefsHeld ==
    \A a \in Actors :
      /\ preqs[a] \in SUBSET Reqs /\ kept[a] \in SUBSET Reqs
      /\ \A r \in preqs[a] \cup kept[a] : rq[r].refs > 0
      /\ req[a] # None /\ pc[a] \notin {"check", "alloc"} => req[a] \in Reqs /\ rq[req[a]].refs > 0

LEMMA HeldRefs == TypeOK /\ HoldInv => RefsHeld
<1>. SUFFICES ASSUME TypeOK, HoldInv, NEW a \in Actors
             PROVE  /\ preqs[a] \in SUBSET Reqs /\ kept[a] \in SUBSET Reqs
                    /\ \A r \in preqs[a] \cup kept[a] : rq[r].refs > 0
                    /\ req[a] # None /\ pc[a] \notin {"check", "alloc"} => req[a] \in Reqs /\ rq[req[a]].refs > 0
  BY DEF RefsHeld
<1>1. /\ preqs[a] \in SUBSET Reqs /\ kept[a] \in SUBSET Reqs
      /\ req[a] # None => req[a] \in Reqs
  BY DEF TypeOK
<1>2. ASSUME NEW r \in Reqs, Has(a, r) \/ r \in preqs[a] \/ r \in kept[a] PROVE rq[r].refs > 0
  BY <1>2, Referenced DEF Owned
<1>. QED  BY <1>1, <1>2 DEF Has

\* The same of the next state.
LEMMA HeldRefsNext == TypeOK' /\ HoldInv' => RefsHeld'
BY HeldRefs, PTL

Requests == [refs : Nat, kind : Kinds, born : 0 .. MaxPools, fid : 0 .. MaxPools]

\* References that are there can be given up.
LEMMA DecrefTyped ==
    ASSUME TypeOK, NEW n \in Nat, n <= refcount, np_conn_decref(n)
    PROVE  refcount' \in Nat /\ freed' \in BOOLEAN /\ pool' \in 0 .. pools
BY DEF TypeOK, np_conn_decref

\* So can those of requests.
LEMMA UnrefTyped ==
    ASSUME TypeOK, CountInv, NEW S \in SUBSET Reqs, \A r \in S : rq[r].refs > 0, np_req_unref(S)
    PROVE  rq' \in [Reqs -> Requests] /\ refcount' \in Nat /\ freed' \in BOOLEAN /\ pool' \in 0 .. pools
<1>1. Cardinality(Live) \in Nat
  BY Finite
<1>2. Cardinality(Live) <= refcount
  BY <1>1 DEF CountInv, One
<1>. DEFINE n == Cardinality(Live) - Cardinality(Live)'
<1>3. n \in Nat /\ Cardinality(Live)' \in Nat /\ np_conn_decref(n) /\ rq' \in [Reqs -> Requests]
  BY UnrefIs DEF Requests
<1>4. n <= refcount
  BY <1>1, <1>2, <1>3 DEF TypeOK
<1>. HIDE DEF n
<1>. QED  BY <1>3, <1>4, DecrefTyped

----------------------------------------------------------------------------
(* Types, places and the transport *)

\* Every step keeps the types.
LEMMA TypeKeeps ==
    ASSUME TypeOK, PoolsInv, PcInv, HoldInv, CountInv, Next
    PROVE  TypeOK'
<1>. USE NpConnAssumption DEF Actors, Kinds, NoReq, Locations
<1>1. ASSUME ReaderStart
      PROVE  TypeOK'
  BY <1>1 DEF ReaderStart, connVars, srvVars, thrVars, cliVars, Go, TypeOK
<1>2. ASSUME NEW r \in Reqs, NEW kind \in Kinds, ReaderRecv(r, kind)
      PROVE  TypeOK'
  <2>1. rq' \in [Reqs -> Requests]
    <3>1. rq \in [Reqs -> Requests] /\ rq[r] \in Requests
      BY DEF TypeOK, Requests
    <3>2. [rq[r] EXCEPT !.kind = kind] \in Requests
      BY <3>1 DEF Requests
    <3>. QED  BY <1>2, <3>1, <3>2 DEF ReaderRecv
  <2>. QED  BY <1>2, <2>1 DEF ReaderRecv, connVars, srvVars, thrVars, cliVars, Go, TypeOK, Requests
<1>3. ASSUME ReaderCheck
      PROVE  TypeOK'
  <2>1. req[Reader] \in Reqs
    BY <1>3 DEF ReaderCheck, PcInv, TypeOK
  <2>2. NoReq \in Requests
    BY DEF Requests
  <2>3. rq' \in [Reqs -> Requests]
    <3>1. rq \in [Reqs -> Requests]
      BY DEF TypeOK, Requests
    <3>. QED  BY <1>3, <2>1, <2>2, <3>1 DEF ReaderCheck
  <2>4. req' \in [Actors -> Reqs \cup {None}] /\ pc' \in [Actors -> Locations]
    BY <1>3 DEF ReaderCheck, TypeOK, Go
  <2>. QED  BY <1>3, <2>3, <2>4 DEF ReaderCheck, connVars, srvVars, thrVars, cliVars, Go, TypeOK, Requests
<1>4. ASSUME ReaderAlloc
      PROVE  TypeOK'
  <2>1. req[Reader] \in Reqs /\ pool \in 0 .. MaxPools /\ 1 \in Nat
    BY <1>4 DEF ReaderAlloc, PcInv, TypeOK
  <2>2. rq' \in [Reqs -> Requests]
    <3>1. rq \in [Reqs -> Requests] /\ rq[req[Reader]] \in Requests
      BY <2>1 DEF TypeOK, Requests
    <3>2. [rq[req[Reader]] EXCEPT !.refs = 1, !.born = pool] \in Requests
      BY <2>1, <3>1 DEF Requests
    <3>. QED  BY <1>4, <2>1, <3>1, <3>2 DEF ReaderAlloc
  <2>3. refcount' \in Nat /\ pc' \in [Actors -> Locations]
    BY <1>4 DEF ReaderAlloc, TypeOK, Go
  <2>. QED  BY <1>4, <2>2, <2>3 DEF ReaderAlloc, connVars, srvVars, thrVars, cliVars, Go, TypeOK, Requests
<1>5. ASSUME ReaderSleep
      PROVE  TypeOK'
  BY <1>5 DEF ReaderSleep, connVars, srvVars, thrVars, cliVars, Go, TypeOK
<1>6. ASSUME ReaderAdd
      PROVE  TypeOK'
  <2>1. req[Reader] \in Reqs /\ rq[req[Reader]].refs > 0
    BY <1>6, HeldRefs DEF RefsHeld, ReaderAdd, PcInv
  <2>2. /\ rq' \in [Reqs -> Requests] /\ refcount' \in Nat /\ freed' \in BOOLEAN
        /\ pool' \in 0 .. pools /\ reqs' \in Seq(Reqs)
    <3>1. CASE resetting
      BY <1>6, <2>1, <3>1, UnrefTyped DEF ReaderAdd, TypeOK
    <3>2. CASE ~resetting
      <4>1. Append(reqs, req[Reader]) \in Seq(Reqs)
        BY <2>1, AppendOf DEF TypeOK
      <4>. QED  BY <1>6, <4>1, <3>2 DEF ReaderAdd, TypeOK, Requests
    <3>. QED  BY <3>1, <3>2
  <2>. QED  BY <1>6, <2>2 DEF ReaderAdd, connVars, srvVars, thrVars, cliVars, Go, TypeOK, Requests
<1>7. ASSUME ReaderEnd
      PROVE  TypeOK'
  BY <1>7 DEF ReaderEnd, connVars, srvVars, thrVars, cliVars, Go, TypeOK
<1>8. ASSUME ReaderExit
      PROVE  TypeOK'
  BY <1>8 DEF ReaderExit, TakeTrans, connVars, srvVars, thrVars, cliVars, Go, TypeOK
<1>9. ASSUME np_srv_remove_conn
      PROVE  TypeOK'
  <2>1. (IF listed THEN 1 ELSE 0) \in Nat /\ (IF listed THEN 1 ELSE 0) <= refcount
    BY <1>9, Finite DEF np_srv_remove_conn, CountInv, One, TypeOK
  <2>2. refcount' \in Nat /\ freed' \in BOOLEAN /\ pool' \in 0 .. pools
    BY <1>9, <2>1, DecrefTyped DEF np_srv_remove_conn
  <2>. QED  BY <1>9, <2>2 DEF np_srv_remove_conn, connVars, srvVars, thrVars, cliVars, Go, TypeOK
<1>10. ASSUME ReaderBye
      PROVE  TypeOK'
  BY <1>10 DEF ReaderBye, np_trans_destroy, connVars, srvVars, thrVars, cliVars, Go, TypeOK
<1>11. ASSUME ReaderLast
      PROVE  TypeOK'
  <2>1. 1 \in Nat /\ 1 <= refcount
    BY <1>11, Finite DEF ReaderLast, CountInv, One, TypeOK
  <2>2. refcount' \in Nat /\ freed' \in BOOLEAN /\ pool' \in 0 .. pools
    BY <1>11, <2>1, DecrefTyped DEF ReaderLast
  <2>. QED  BY <1>11, <2>2 DEF ReaderLast, connVars, srvVars, thrVars, cliVars, Go, TypeOK
<1>12. ASSUME NEW a \in Workers \cup {Reader}, ResetBegin(a)
      PROVE  TypeOK'
  BY <1>12 DEF ResetBegin, connVars, srvVars, thrVars, cliVars, Go, TypeOK
<1>13. ASSUME NEW a \in Workers \cup {Reader}, ResetCollect(a)
      PROVE  TypeOK'
  <2>1. rq' \in [Reqs -> Requests]
    <3>1. rq \in [Reqs -> Requests]
      BY DEF TypeOK, Requests
    <3>2. ASSUME NEW r \in Reqs PROVE [rq[r] EXCEPT !.refs = rq[r].refs + 1] \in Requests
      <4>1. rq[r] \in Requests /\ rq[r].refs + 1 \in Nat
        BY <3>1 DEF Requests
      <4>. QED  BY <4>1 DEF Requests
    <3>3. rq' = [r \in Reqs |-> IF r \in Awaited(a) THEN [rq[r] EXCEPT !.refs = rq[r].refs + 1] ELSE rq[r]]
      BY <1>13 DEF ResetCollect
    <3>4. ASSUME NEW r \in Reqs PROVE rq[r] \in Requests
      BY <3>1
    <3>. QED  BY <3>2, <3>3, <3>4
  <2>2. ToSet(reqs) \in SUBSET Reqs /\ <<>> \in Seq(Reqs) /\ Awaited(a) \in SUBSET Reqs
    BY QueueOf DEF TypeOK, Awaited
  <2>. QED  BY <1>13, <2>1, <2>2 DEF ResetCollect, connVars, srvVars, thrVars, cliVars, Go, TypeOK, Requests
<1>14. ASSUME NEW a \in Workers \cup {Reader}, ResetDrop(a)
      PROVE  TypeOK'
  <2>1. preqs[a] \in SUBSET Reqs /\ \A r \in preqs[a] : rq[r].refs > 0
    BY <1>14, HeldRefs DEF RefsHeld, ResetDrop, PcInv
  <2>2. rq' \in [Reqs -> Requests] /\ refcount' \in Nat /\ freed' \in BOOLEAN /\ pool' \in 0 .. pools
    BY <1>14, <2>1, UnrefTyped DEF ResetDrop
  <2>. QED  BY <1>14, <2>2 DEF ResetDrop, connVars, srvVars, thrVars, cliVars, Go, TypeOK, Requests
<1>15. ASSUME NEW a \in Workers \cup {Reader}, ResetWait(a)
      PROVE  TypeOK'
  <2>1. asleep' \in SUBSET Actors
    BY <1>15 DEF ResetWait, Actors, TypeOK
  <2>2. pc' = pc \/ pc' = [pc EXCEPT ![a] = "destroy"]
    BY <1>15 DEF ResetWait, Go
  <2>3. pc' \in [Actors -> Locations]
    BY <2>2 DEF Locations, TypeOK
  <2>. QED  BY <1>15, <2>1, <2>3, SMTT(30) DEF ResetWait, connVars, srvVars, thrVars, cliVars, TypeOK
<1>16. ASSUME NEW a \in Workers \cup {Reader}, ResetDestroy(a)
      PROVE  TypeOK'
  BY <1>16 DEF ResetDestroy, connVars, srvVars, thrVars, cliVars, Go, TypeOK
<1>17. ASSUME NEW a \in Workers \cup {Reader}, ResetRenew(a)
      PROVE  TypeOK'
  BY <1>17 DEF ResetRenew, connVars, srvVars, thrVars, cliVars, Go, TypeOK
<1>18. ASSUME NEW a \in Workers \cup {Reader}, ResetPool(a)
      PROVE  TypeOK'
  <2>1. a \in Resetting
    BY <1>18 DEF ResetPool, PcInv, Resetting, AtExit, InReset
  <2>2. pools + 1 <= MaxPools
    <3>1. Cardinality(Resetting) \in Nat /\ Cardinality(Resetting) > 0
      BY <2>1, Finite, CardStep
    <3>. QED  BY <3>1 DEF PoolsInv, TypeOK
  <2>3. pools' \in 0 .. MaxPools /\ pool' \in 0 .. pools'
    BY <1>18, <2>2 DEF ResetPool, TypeOK
  <2>. QED  BY <1>18, <2>3 DEF ResetPool, connVars, srvVars, thrVars, cliVars, Go, TypeOK
<1>19. ASSUME NEW a \in Workers \cup {Reader}, ResetReopen(a)
      PROVE  TypeOK'
  BY <1>19 DEF ResetReopen, connVars, srvVars, thrVars, cliVars, Go, TypeOK
<1>20. ASSUME NEW a \in Workers \cup {Reader}, ResetUnkeep(a)
      PROVE  TypeOK'
  <2>1. kept[a] \in SUBSET Reqs /\ \A r \in kept[a] : rq[r].refs > 0
    BY <1>20, HeldRefs DEF RefsHeld, ResetUnkeep, PcInv
  <2>2. rq' \in [Reqs -> Requests] /\ refcount' \in Nat /\ freed' \in BOOLEAN /\ pool' \in 0 .. pools
    BY <1>20, <2>1, UnrefTyped DEF ResetUnkeep
  <2>. QED  BY <1>20, <2>2 DEF ResetUnkeep, connVars, srvVars, thrVars, cliVars, Go, TypeOK, Requests
<1>21. ASSUME NEW w \in Workers, WorkerTake(w)
      PROVE  TypeOK'
  BY <1>21 DEF WorkerTake, connVars, srvVars, thrVars, cliVars, Go, TypeOK
<1>22. ASSUME NEW w \in Workers, Process(w)
      PROVE  TypeOK'
  <2>1. req[w] \in Reqs /\ 0 \in 0 .. MaxPools /\ pool \in 0 .. MaxPools
    BY <1>22 DEF Process, PcInv, TypeOK
  <2>2. rq' \in [Reqs -> Requests]
    <3>1. rq \in [Reqs -> Requests] /\ rq[req[w]] \in Requests
      BY <2>1 DEF TypeOK, Requests
    <3>2. ASSUME NEW f \in {0, pool} PROVE [rq[req[w]] EXCEPT !.fid = f] \in Requests
      BY <2>1, <3>1 DEF Requests
    <3>. QED  BY <1>22, <2>1, <3>1, <3>2 DEF Process
  <2>. QED  BY <1>22, <2>2 DEF Process, connVars, srvVars, thrVars, cliVars, Go, TypeOK, Requests
<1>23. ASSUME NEW w \in Workers, np_version(w)
      PROVE  TypeOK'
  BY <1>23 DEF np_version, connVars, srvVars, thrVars, cliVars, Go, TypeOK
<1>24. ASSUME NEW w \in Workers, RespondUnlink(w)
      PROVE  TypeOK'
  BY <1>24 DEF RespondUnlink, connVars, srvVars, thrVars, cliVars, Go, TypeOK
<1>25. ASSUME NEW w \in Workers, RespondFid(w)
      PROVE  TypeOK'
  <2>1. req[w] \in Reqs /\ 0 \in 0 .. MaxPools
    BY <1>25 DEF RespondFid, PcInv, TypeOK
  <2>2. rq' \in [Reqs -> Requests]
    <3>1. rq \in [Reqs -> Requests] /\ rq[req[w]] \in Requests
      BY <2>1 DEF TypeOK, Requests
    <3>2. [rq[req[w]] EXCEPT !.fid = 0] \in Requests
      BY <2>1, <3>1 DEF Requests
    <3>. QED  BY <1>25, <2>1, <3>1, <3>2 DEF RespondFid
  <2>. QED  BY <1>25, <2>2 DEF RespondFid, connVars, srvVars, thrVars, cliVars, Go, TypeOK, Requests
<1>26. ASSUME NEW w \in Workers, RespondSend(w)
      PROVE  TypeOK'
  BY <1>26 DEF RespondSend, connVars, srvVars, thrVars, cliVars, Go, TypeOK
<1>27. ASSUME NEW w \in Workers, RespondWrite(w)
      PROVE  TypeOK'
  BY <1>27 DEF RespondWrite, TakeTrans, connVars, srvVars, thrVars, cliVars, Go, TypeOK
<1>28. ASSUME NEW w \in Workers, RespondSignal(w)
      PROVE  TypeOK'
  BY <1>28 DEF RespondSignal, np_trans_destroy, connVars, srvVars, thrVars, cliVars, Go, TypeOK
<1>29. ASSUME NEW w \in Workers, RespondUnref(w)
      PROVE  TypeOK'
  <2>1. {req[w]} \in SUBSET Reqs /\ \A r \in {req[w]} : rq[r].refs > 0
    BY <1>29, HeldRefs DEF RefsHeld, RespondUnref, PcInv
  <2>2. rq' \in [Reqs -> Requests] /\ refcount' \in Nat /\ freed' \in BOOLEAN /\ pool' \in 0 .. pools
    BY <1>29, <2>1, UnrefTyped DEF RespondUnref
  <2>. QED  BY <1>29, <2>2 DEF RespondUnref, connVars, srvVars, thrVars, cliVars, Go, TypeOK, Requests
<1>30. ASSUME NEW shutconns \in BOOLEAN, np_srv_shutdown(shutconns)
      PROVE  TypeOK'
  BY <1>30 DEF np_srv_shutdown, connVars, srvVars, thrVars, cliVars, Go, TypeOK
<1>31. ASSUME np_conn_shutdown
      PROVE  TypeOK'
  <2>1. closed' \in Nat
    BY <1>31 DEF np_conn_shutdown, TypeOK
  <2>. QED  BY <1>31, <2>1 DEF np_conn_shutdown, connVars, srvVars, thrVars, cliVars, Go, TypeOK
<1>32. ASSUME StopperDecref
      PROVE  TypeOK'
  <2>1. 1 \in Nat /\ 1 <= refcount
    BY <1>32, Finite DEF StopperDecref, CountInv, One, TypeOK
  <2>2. refcount' \in Nat /\ freed' \in BOOLEAN /\ pool' \in 0 .. pools
    BY <1>32, <2>1, DecrefTyped DEF StopperDecref
  <2>. QED  BY <1>32, <2>2 DEF StopperDecref, connVars, srvVars, thrVars, cliVars, Go, TypeOK
<1>. QED
  BY <1>1, <1>2, <1>3, <1>4, <1>5, <1>6, <1>7, <1>8, <1>9, <1>10, <1>11, <1>12,
     <1>13, <1>14, <1>15, <1>16, <1>17, <1>18, <1>19, <1>20, <1>21, <1>22,
     <1>23, <1>24, <1>25, <1>26, <1>27, <1>28, <1>29, <1>30, <1>31, <1>32
     DEF Next, np_conn_read_proc, Worker, np_conn_reset

\* Every step keeps PcInv.
LEMMA PcKeeps ==
    ASSUME TypeOK, PcInv, Next
    PROVE  PcInv'
<1>. USE NpConnAssumption DEF Actors, InReset, AtExit, Working
<1>0. /\ pc \in [Actors -> Locations] /\ req \in [Actors -> Reqs \cup {None}]
      /\ preqs \in [Actors -> SUBSET Reqs] /\ kept \in [Actors -> SUBSET Reqs]
      /\ asleep \in SUBSET Actors /\ took \in SUBSET Actors
  BY DEF TypeOK
<1>1. ASSUME ReaderStart
      PROVE  PcInv'
  BY <1>0, <1>1 DEF ReaderStart, connVars, srvVars, thrVars, cliVars, Go, PcInv
<1>2. ASSUME NEW r \in Reqs, NEW kind \in Kinds, ReaderRecv(r, kind)
      PROVE  PcInv'
  BY <1>0, <1>2 DEF ReaderRecv, connVars, srvVars, thrVars, cliVars, Go, PcInv
<1>3. ASSUME ReaderCheck
      PROVE  PcInv'
  BY <1>0, <1>3 DEF ReaderCheck, connVars, srvVars, thrVars, cliVars, Go, PcInv
<1>4. ASSUME ReaderAlloc
      PROVE  PcInv'
  BY <1>0, <1>4 DEF ReaderAlloc, connVars, srvVars, thrVars, cliVars, Go, PcInv
<1>5. ASSUME ReaderSleep
      PROVE  PcInv'
  BY <1>0, <1>5 DEF ReaderSleep, connVars, srvVars, thrVars, cliVars, Go, PcInv
<1>6. ASSUME ReaderAdd
      PROVE  PcInv'
  BY <1>0, <1>6 DEF ReaderAdd, connVars, srvVars, thrVars, cliVars, Go, PcInv
<1>7. ASSUME ReaderEnd
      PROVE  PcInv'
  BY <1>0, <1>7 DEF ReaderEnd, connVars, srvVars, thrVars, cliVars, Go, PcInv
<1>8. ASSUME ReaderExit
      PROVE  PcInv'
  BY <1>0, <1>8 DEF ReaderExit, TakeTrans, connVars, srvVars, thrVars, cliVars, Go, PcInv
<1>9. ASSUME np_srv_remove_conn
      PROVE  PcInv'
  BY <1>0, <1>9 DEF np_srv_remove_conn, np_conn_decref, connVars, srvVars, thrVars, cliVars, Go, PcInv
<1>10. ASSUME ReaderBye
      PROVE  PcInv'
  BY <1>0, <1>10 DEF ReaderBye, np_trans_destroy, connVars, srvVars, thrVars, cliVars, Go, PcInv
<1>11. ASSUME ReaderLast
      PROVE  PcInv'
  BY <1>0, <1>11 DEF ReaderLast, np_conn_decref, connVars, srvVars, thrVars, cliVars, Go, PcInv
<1>12. ASSUME NEW a \in Workers \cup {Reader}, ResetBegin(a)
      PROVE  PcInv'
  BY <1>0, <1>12 DEF ResetBegin, connVars, srvVars, thrVars, cliVars, Go, PcInv
<1>13. ASSUME NEW a \in Workers \cup {Reader}, ResetCollect(a)
      PROVE  PcInv'
  BY <1>0, <1>13 DEF ResetCollect, connVars, srvVars, thrVars, cliVars, Go, PcInv
<1>14. ASSUME NEW a \in Workers \cup {Reader}, ResetDrop(a)
      PROVE  PcInv'
  BY <1>0, <1>14 DEF ResetDrop, connVars, srvVars, thrVars, cliVars, Go, PcInv
<1>15. ASSUME NEW a \in Workers \cup {Reader}, ResetWait(a)
      PROVE  PcInv'
  BY <1>0, <1>15 DEF ResetWait, connVars, srvVars, thrVars, cliVars, Go, PcInv
<1>16. ASSUME NEW a \in Workers \cup {Reader}, ResetDestroy(a)
      PROVE  PcInv'
  BY <1>0, <1>16 DEF ResetDestroy, connVars, srvVars, thrVars, cliVars, Go, PcInv
<1>17. ASSUME NEW a \in Workers \cup {Reader}, ResetRenew(a)
      PROVE  PcInv'
  BY <1>0, <1>17 DEF ResetRenew, connVars, srvVars, thrVars, cliVars, Go, PcInv
<1>18. ASSUME NEW a \in Workers \cup {Reader}, ResetPool(a)
      PROVE  PcInv'
  BY <1>0, <1>18 DEF ResetPool, connVars, srvVars, thrVars, cliVars, Go, PcInv
<1>19. ASSUME NEW a \in Workers \cup {Reader}, ResetReopen(a)
      PROVE  PcInv'
  BY <1>0, <1>19 DEF ResetReopen, connVars, srvVars, thrVars, cliVars, Go, PcInv
<1>20. ASSUME NEW a \in Workers \cup {Reader}, ResetUnkeep(a)
      PROVE  PcInv'
  BY <1>0, <1>20 DEF ResetUnkeep, connVars, srvVars, thrVars, cliVars, Go, PcInv
<1>21. ASSUME NEW w \in Workers, WorkerTake(w)
      PROVE  PcInv'
  <2>1. Head(reqs) \in Reqs
    BY <1>21, TailOf DEF WorkerTake, TypeOK
  <2>. QED  BY <1>0, <1>21, <2>1 DEF WorkerTake, connVars, srvVars, thrVars, cliVars, Go, PcInv
<1>22. ASSUME NEW w \in Workers, Process(w)
      PROVE  PcInv'
  BY <1>0, <1>22 DEF Process, connVars, srvVars, thrVars, cliVars, Go, PcInv
<1>23. ASSUME NEW w \in Workers, np_version(w)
      PROVE  PcInv'
  BY <1>0, <1>23 DEF np_version, connVars, srvVars, thrVars, cliVars, Go, PcInv
<1>24. ASSUME NEW w \in Workers, RespondUnlink(w)
      PROVE  PcInv'
  BY <1>0, <1>24 DEF RespondUnlink, connVars, srvVars, thrVars, cliVars, Go, PcInv
<1>25. ASSUME NEW w \in Workers, RespondFid(w)
      PROVE  PcInv'
  BY <1>0, <1>25 DEF RespondFid, connVars, srvVars, thrVars, cliVars, Go, PcInv
<1>26. ASSUME NEW w \in Workers, RespondSend(w)
      PROVE  PcInv'
  BY <1>0, <1>26 DEF RespondSend, connVars, srvVars, thrVars, cliVars, Go, PcInv
<1>27. ASSUME NEW w \in Workers, RespondWrite(w)
      PROVE  PcInv'
  BY <1>0, <1>27 DEF RespondWrite, TakeTrans, connVars, srvVars, thrVars, cliVars, Go, PcInv
<1>28. ASSUME NEW w \in Workers, RespondSignal(w)
      PROVE  PcInv'
  BY <1>0, <1>28 DEF RespondSignal, np_trans_destroy, connVars, srvVars, thrVars, cliVars, Go, PcInv
<1>29. ASSUME NEW w \in Workers, RespondUnref(w)
      PROVE  PcInv'
  BY <1>0, <1>29 DEF RespondUnref, connVars, srvVars, thrVars, cliVars, Go, PcInv
<1>30. ASSUME NEW shutconns \in BOOLEAN, np_srv_shutdown(shutconns)
      PROVE  PcInv'
  BY <1>0, <1>30 DEF np_srv_shutdown, connVars, srvVars, thrVars, cliVars, Go, PcInv
<1>31. ASSUME np_conn_shutdown
      PROVE  PcInv'
  BY <1>0, <1>31 DEF np_conn_shutdown, connVars, srvVars, thrVars, cliVars, Go, PcInv
<1>32. ASSUME StopperDecref
      PROVE  PcInv'
  BY <1>0, <1>32 DEF StopperDecref, np_conn_decref, connVars, srvVars, thrVars, cliVars, Go, PcInv
<1>. QED
  BY <1>1, <1>2, <1>3, <1>4, <1>5, <1>6, <1>7, <1>8, <1>9, <1>10, <1>11, <1>12,
     <1>13, <1>14, <1>15, <1>16, <1>17, <1>18, <1>19, <1>20, <1>21, <1>22,
     <1>23, <1>24, <1>25, <1>26, <1>27, <1>28, <1>29, <1>30, <1>31, <1>32
     DEF Next, np_conn_read_proc, Worker, np_conn_reset

\* Every step keeps PoolsInv.
LEMMA PoolsKeeps ==
    ASSUME TypeOK, PcInv, PoolsInv, Next
    PROVE  PoolsInv'
<1>. USE NpConnAssumption DEF Actors
<1>0. pc \in [Actors -> Locations]
  BY DEF TypeOK
<1>1. ASSUME ReaderStart
      PROVE  PoolsInv'
  <2>1. Resetting' = Resetting /\ pools' = pools
    BY <1>0, <1>1 DEF ReaderStart, Resetting, connVars, Go
  <2>. QED  BY <2>1 DEF PoolsInv
<1>2. ASSUME NEW r \in Reqs, NEW kind \in Kinds, ReaderRecv(r, kind)
      PROVE  PoolsInv'
  <2>1. Resetting' = Resetting /\ pools' = pools
    BY <1>0, <1>2 DEF ReaderRecv, Resetting, connVars, Go
  <2>. QED  BY <2>1 DEF PoolsInv
<1>3. ASSUME ReaderCheck
      PROVE  PoolsInv'
  <2>1. Resetting' = Resetting /\ pools' = pools
    BY <1>0, <1>3 DEF ReaderCheck, Resetting, connVars, Go
  <2>. QED  BY <2>1 DEF PoolsInv
<1>4. ASSUME ReaderAlloc
      PROVE  PoolsInv'
  <2>1. Resetting' = Resetting /\ pools' = pools
    BY <1>0, <1>4 DEF ReaderAlloc, Resetting, connVars, Go
  <2>. QED  BY <2>1 DEF PoolsInv
<1>5. ASSUME ReaderSleep
      PROVE  PoolsInv'
  <2>1. Resetting' = Resetting /\ pools' = pools
    BY <1>0, <1>5 DEF ReaderSleep, Resetting, connVars, Go
  <2>. QED  BY <2>1 DEF PoolsInv
<1>6. ASSUME ReaderAdd
      PROVE  PoolsInv'
  <2>1. Resetting' = Resetting /\ pools' = pools
    BY <1>0, <1>6 DEF ReaderAdd, Resetting, connVars, Go
  <2>. QED  BY <2>1 DEF PoolsInv
<1>7. ASSUME ReaderEnd
      PROVE  PoolsInv'
  <2>1. Resetting' = Resetting /\ pools' = pools
    BY <1>0, <1>7 DEF ReaderEnd, Resetting, connVars, Go
  <2>. QED  BY <2>1 DEF PoolsInv
<1>8. ASSUME ReaderExit
      PROVE  PoolsInv'
  <2>1. Resetting' = Resetting /\ pools' = pools
    BY <1>0, <1>8 DEF ReaderExit, TakeTrans, Resetting, connVars, Go
  <2>. QED  BY <2>1 DEF PoolsInv
<1>9. ASSUME np_srv_remove_conn
      PROVE  PoolsInv'
  <2>1. Resetting' = Resetting /\ pools' = pools
    BY <1>0, <1>9 DEF np_srv_remove_conn, np_conn_decref, Resetting, connVars, Go
  <2>. QED  BY <2>1 DEF PoolsInv
<1>10. ASSUME ReaderBye
      PROVE  PoolsInv'
  <2>1. Resetting' = Resetting /\ pools' = pools
    BY <1>0, <1>10 DEF ReaderBye, np_trans_destroy, Resetting, connVars, Go
  <2>. QED  BY <2>1 DEF PoolsInv
<1>11. ASSUME ReaderLast
      PROVE  PoolsInv'
  <2>1. Resetting' = Resetting /\ pools' = pools
    BY <1>0, <1>11 DEF ReaderLast, np_conn_decref, Resetting, connVars, Go
  <2>. QED  BY <2>1 DEF PoolsInv
<1>12. ASSUME NEW a \in Workers \cup {Reader}, ResetBegin(a)
      PROVE  PoolsInv'
  <2>1. Resetting' = Resetting /\ pools' = pools
    BY <1>0, <1>12 DEF ResetBegin, Resetting, connVars, Go
  <2>. QED  BY <2>1 DEF PoolsInv
<1>13. ASSUME NEW a \in Workers \cup {Reader}, ResetCollect(a)
      PROVE  PoolsInv'
  <2>1. Resetting' = Resetting /\ pools' = pools
    BY <1>0, <1>13 DEF ResetCollect, Resetting, connVars, Go
  <2>. QED  BY <2>1 DEF PoolsInv
<1>14. ASSUME NEW a \in Workers \cup {Reader}, ResetDrop(a)
      PROVE  PoolsInv'
  <2>1. Resetting' = Resetting /\ pools' = pools
    BY <1>0, <1>14 DEF ResetDrop, Resetting, connVars, Go
  <2>. QED  BY <2>1 DEF PoolsInv
<1>15. ASSUME NEW a \in Workers \cup {Reader}, ResetWait(a)
      PROVE  PoolsInv'
  <2>1. Resetting' = Resetting /\ pools' = pools
    BY <1>0, <1>15 DEF ResetWait, Resetting, connVars, Go
  <2>. QED  BY <2>1 DEF PoolsInv
<1>16. ASSUME NEW a \in Workers \cup {Reader}, ResetDestroy(a)
      PROVE  PoolsInv'
  <2>1. Resetting' = Resetting /\ pools' = pools
    BY <1>0, <1>16 DEF ResetDestroy, Resetting, connVars, Go
  <2>. QED  BY <2>1 DEF PoolsInv
<1>17. ASSUME NEW a \in Workers \cup {Reader}, ResetRenew(a)
      PROVE  PoolsInv'
  <2>1. Resetting' = Resetting /\ pools' = pools
    BY <1>0, <1>17 DEF ResetRenew, Resetting, connVars, Go
  <2>. QED  BY <2>1 DEF PoolsInv
<1>18. ASSUME NEW a \in Workers \cup {Reader}, ResetPool(a)
      PROVE  PoolsInv'
  <2>1. a \in Resetting /\ Resetting' = Resetting \ {a} /\ pools' = pools + 1
    BY <1>0, <1>18 DEF ResetPool, Resetting, PcInv, AtExit, InReset
  <2>2. Cardinality(Resetting') = Cardinality(Resetting) - 1 /\ Cardinality(Resetting) \in Nat
    BY <2>1, Finite, CardStep
  <2>. QED  BY <2>1, <2>2 DEF PoolsInv, TypeOK
<1>19. ASSUME NEW a \in Workers \cup {Reader}, ResetReopen(a)
      PROVE  PoolsInv'
  <2>1. Resetting' = Resetting /\ pools' = pools
    BY <1>0, <1>19 DEF ResetReopen, Resetting, connVars, Go
  <2>. QED  BY <2>1 DEF PoolsInv
<1>20. ASSUME NEW a \in Workers \cup {Reader}, ResetUnkeep(a)
      PROVE  PoolsInv'
  <2>1. Resetting' = Resetting /\ pools' = pools
    BY <1>0, <1>20 DEF ResetUnkeep, Resetting, connVars, Go
  <2>. QED  BY <2>1 DEF PoolsInv
<1>21. ASSUME NEW w \in Workers, WorkerTake(w)
      PROVE  PoolsInv'
  <2>1. Resetting' = Resetting /\ pools' = pools
    BY <1>0, <1>21 DEF WorkerTake, Resetting, connVars, Go
  <2>. QED  BY <2>1 DEF PoolsInv
<1>22. ASSUME NEW w \in Workers, Process(w)
      PROVE  PoolsInv'
  <2>1. Resetting' = Resetting /\ pools' = pools
    BY <1>0, <1>22 DEF Process, Resetting, connVars, Go
  <2>. QED  BY <2>1 DEF PoolsInv
<1>23. ASSUME NEW w \in Workers, np_version(w)
      PROVE  PoolsInv'
  <2>1. CASE Go(w, "unlink")
    <3>1. Resetting' = Resetting /\ pools' = pools
      BY <1>0, <1>23, <2>1 DEF np_version, Resetting, connVars, Go
    <3>. QED  BY <3>1 DEF PoolsInv
  <2>2. CASE pools + Cardinality(Resetting) < MaxPools /\ Go(w, "reset")
    <3>1. w \notin Resetting /\ Resetting' = Resetting \cup {w} /\ pools' = pools
      BY <1>0, <1>23, <2>2 DEF np_version, Resetting, connVars, Go
    <3>2. Cardinality(Resetting') = Cardinality(Resetting) + 1 /\ Cardinality(Resetting) \in Nat
      BY <3>1, Finite, CardStep
    <3>. QED  BY <2>2, <3>1, <3>2 DEF PoolsInv, TypeOK
  <2>. QED  BY <1>23, <2>1, <2>2 DEF np_version
<1>24. ASSUME NEW w \in Workers, RespondUnlink(w)
      PROVE  PoolsInv'
  <2>1. Resetting' = Resetting /\ pools' = pools
    BY <1>0, <1>24 DEF RespondUnlink, Resetting, connVars, Go
  <2>. QED  BY <2>1 DEF PoolsInv
<1>25. ASSUME NEW w \in Workers, RespondFid(w)
      PROVE  PoolsInv'
  <2>1. Resetting' = Resetting /\ pools' = pools
    BY <1>0, <1>25 DEF RespondFid, Resetting, connVars, Go
  <2>. QED  BY <2>1 DEF PoolsInv
<1>26. ASSUME NEW w \in Workers, RespondSend(w)
      PROVE  PoolsInv'
  <2>1. Resetting' = Resetting /\ pools' = pools
    BY <1>0, <1>26 DEF RespondSend, Resetting, connVars, Go
  <2>. QED  BY <2>1 DEF PoolsInv
<1>27. ASSUME NEW w \in Workers, RespondWrite(w)
      PROVE  PoolsInv'
  <2>1. Resetting' = Resetting /\ pools' = pools
    BY <1>0, <1>27 DEF RespondWrite, TakeTrans, Resetting, connVars, Go
  <2>. QED  BY <2>1 DEF PoolsInv
<1>28. ASSUME NEW w \in Workers, RespondSignal(w)
      PROVE  PoolsInv'
  <2>1. Resetting' = Resetting /\ pools' = pools
    BY <1>0, <1>28 DEF RespondSignal, np_trans_destroy, Resetting, connVars, Go
  <2>. QED  BY <2>1 DEF PoolsInv
<1>29. ASSUME NEW w \in Workers, RespondUnref(w)
      PROVE  PoolsInv'
  <2>1. Resetting' = Resetting /\ pools' = pools
    BY <1>0, <1>29 DEF RespondUnref, Resetting, connVars, Go
  <2>. QED  BY <2>1 DEF PoolsInv
<1>30. ASSUME NEW shutconns \in BOOLEAN, np_srv_shutdown(shutconns)
      PROVE  PoolsInv'
  <2>1. Resetting' = Resetting /\ pools' = pools
    BY <1>0, <1>30 DEF np_srv_shutdown, Resetting, connVars, Go
  <2>. QED  BY <2>1 DEF PoolsInv
<1>31. ASSUME np_conn_shutdown
      PROVE  PoolsInv'
  <2>1. Resetting' = Resetting /\ pools' = pools
    BY <1>0, <1>31 DEF np_conn_shutdown, Resetting, connVars, Go
  <2>. QED  BY <2>1 DEF PoolsInv
<1>32. ASSUME StopperDecref
      PROVE  PoolsInv'
  <2>1. Resetting' = Resetting /\ pools' = pools
    BY <1>0, <1>32 DEF StopperDecref, np_conn_decref, Resetting, connVars, Go
  <2>. QED  BY <2>1 DEF PoolsInv
<1>. QED
  BY <1>1, <1>2, <1>3, <1>4, <1>5, <1>6, <1>7, <1>8, <1>9, <1>10, <1>11, <1>12,
     <1>13, <1>14, <1>15, <1>16, <1>17, <1>18, <1>19, <1>20, <1>21, <1>22,
     <1>23, <1>24, <1>25, <1>26, <1>27, <1>28, <1>29, <1>30, <1>31, <1>32
     DEF Next, np_conn_read_proc, Worker, np_conn_reset

\* Every step keeps TransInv.
LEMMA TransKeeps ==
    ASSUME TypeOK, PcInv, TransInv, Next
    PROVE  TransInv'
<1>. USE NpConnAssumption DEF Actors
<1>0. took \in SUBSET Actors /\ closed \in Nat /\ trans \in BOOLEAN /\ Cardinality(took) \in Nat
  BY Finite, FS_CardinalityType DEF TypeOK
<1>1. ASSUME ReaderStart
      PROVE  TransInv'
  <2>1. took' = took /\ trans' = trans /\ closed' = closed
    BY <1>1 DEF ReaderStart, connVars, thrVars
  <2>. QED  BY <2>1 DEF TransInv
<1>2. ASSUME NEW r \in Reqs, NEW kind \in Kinds, ReaderRecv(r, kind)
      PROVE  TransInv'
  <2>1. took' = took /\ trans' = trans /\ closed' = closed
    BY <1>2 DEF ReaderRecv, connVars, thrVars
  <2>. QED  BY <2>1 DEF TransInv
<1>3. ASSUME ReaderCheck
      PROVE  TransInv'
  <2>1. took' = took /\ trans' = trans /\ closed' = closed
    BY <1>3 DEF ReaderCheck, connVars, thrVars
  <2>. QED  BY <2>1 DEF TransInv
<1>4. ASSUME ReaderAlloc
      PROVE  TransInv'
  <2>1. took' = took /\ trans' = trans /\ closed' = closed
    BY <1>4 DEF ReaderAlloc, connVars, thrVars
  <2>. QED  BY <2>1 DEF TransInv
<1>5. ASSUME ReaderSleep
      PROVE  TransInv'
  <2>1. took' = took /\ trans' = trans /\ closed' = closed
    BY <1>5 DEF ReaderSleep, connVars, thrVars
  <2>. QED  BY <2>1 DEF TransInv
<1>6. ASSUME ReaderAdd
      PROVE  TransInv'
  <2>1. took' = took /\ trans' = trans /\ closed' = closed
    BY <1>6 DEF ReaderAdd, connVars, thrVars
  <2>. QED  BY <2>1 DEF TransInv
<1>7. ASSUME ReaderEnd
      PROVE  TransInv'
  <2>1. took' = took /\ trans' = trans /\ closed' = closed
    BY <1>7 DEF ReaderEnd, connVars, thrVars
  <2>. QED  BY <2>1 DEF TransInv
<1>8. ASSUME ReaderExit
      PROVE  TransInv'
  <2>1. CASE trans
    <3>1. Reader \notin took /\ took' = took \cup {Reader} /\ ~trans' /\ closed' = closed
      BY <1>0, <1>8, <2>1 DEF ReaderExit, TakeTrans, PcInv, AtExit, InReset
    <3>2. Cardinality(took') = Cardinality(took) + 1
      BY <3>1, Finite, CardStep
    <3>. QED  BY <1>0, <2>1, <3>1, <3>2 DEF TransInv, One
  <2>2. CASE ~trans
    BY <1>8, <2>2 DEF ReaderExit, TakeTrans, TransInv
  <2>. QED  BY <2>1, <2>2
<1>9. ASSUME np_srv_remove_conn
      PROVE  TransInv'
  <2>1. took' = took /\ trans' = trans /\ closed' = closed
    BY <1>9 DEF np_srv_remove_conn, np_conn_decref, connVars, thrVars
  <2>. QED  BY <2>1 DEF TransInv
<1>10. ASSUME ReaderBye
      PROVE  TransInv'
  <2>1. CASE Reader \in took
    <3>1. took' = took \ {Reader} /\ trans' = trans /\ closed' = closed + 1
      BY <1>10, <2>1 DEF ReaderBye, np_trans_destroy
    <3>2. Cardinality(took') = Cardinality(took) - 1
      BY <2>1, <3>1, Finite, CardStep
    <3>. QED  BY <1>0, <3>1, <3>2 DEF TransInv
  <2>2. CASE Reader \notin took
    BY <1>10, <2>2 DEF ReaderBye, np_trans_destroy, TransInv
  <2>. QED  BY <2>1, <2>2
<1>11. ASSUME ReaderLast
      PROVE  TransInv'
  <2>1. took' = took /\ trans' = trans /\ closed' = closed
    BY <1>11 DEF ReaderLast, np_conn_decref, connVars, thrVars
  <2>. QED  BY <2>1 DEF TransInv
<1>12. ASSUME NEW a \in Workers \cup {Reader}, ResetBegin(a)
      PROVE  TransInv'
  <2>1. took' = took /\ trans' = trans /\ closed' = closed
    BY <1>12 DEF ResetBegin, connVars, thrVars
  <2>. QED  BY <2>1 DEF TransInv
<1>13. ASSUME NEW a \in Workers \cup {Reader}, ResetCollect(a)
      PROVE  TransInv'
  <2>1. took' = took /\ trans' = trans /\ closed' = closed
    BY <1>13 DEF ResetCollect, connVars, thrVars
  <2>. QED  BY <2>1 DEF TransInv
<1>14. ASSUME NEW a \in Workers \cup {Reader}, ResetDrop(a)
      PROVE  TransInv'
  <2>1. took' = took /\ trans' = trans /\ closed' = closed
    BY <1>14 DEF ResetDrop, connVars, thrVars
  <2>. QED  BY <2>1 DEF TransInv
<1>15. ASSUME NEW a \in Workers \cup {Reader}, ResetWait(a)
      PROVE  TransInv'
  <2>1. took' = took /\ trans' = trans /\ closed' = closed
    BY <1>15 DEF ResetWait, connVars, thrVars
  <2>. QED  BY <2>1 DEF TransInv
<1>16. ASSUME NEW a \in Workers \cup {Reader}, ResetDestroy(a)
      PROVE  TransInv'
  <2>1. took' = took /\ trans' = trans /\ closed' = closed
    BY <1>16 DEF ResetDestroy, connVars, thrVars
  <2>. QED  BY <2>1 DEF TransInv
<1>17. ASSUME NEW a \in Workers \cup {Reader}, ResetRenew(a)
      PROVE  TransInv'
  <2>1. took' = took /\ trans' = trans /\ closed' = closed
    BY <1>17 DEF ResetRenew, connVars, thrVars
  <2>. QED  BY <2>1 DEF TransInv
<1>18. ASSUME NEW a \in Workers \cup {Reader}, ResetPool(a)
      PROVE  TransInv'
  <2>1. took' = took /\ trans' = trans /\ closed' = closed
    BY <1>18 DEF ResetPool, connVars, thrVars
  <2>. QED  BY <2>1 DEF TransInv
<1>19. ASSUME NEW a \in Workers \cup {Reader}, ResetReopen(a)
      PROVE  TransInv'
  <2>1. took' = took /\ trans' = trans /\ closed' = closed
    BY <1>19 DEF ResetReopen, connVars, thrVars
  <2>. QED  BY <2>1 DEF TransInv
<1>20. ASSUME NEW a \in Workers \cup {Reader}, ResetUnkeep(a)
      PROVE  TransInv'
  <2>1. took' = took /\ trans' = trans /\ closed' = closed
    BY <1>20 DEF ResetUnkeep, connVars, thrVars
  <2>. QED  BY <2>1 DEF TransInv
<1>21. ASSUME NEW w \in Workers, WorkerTake(w)
      PROVE  TransInv'
  <2>1. took' = took /\ trans' = trans /\ closed' = closed
    BY <1>21 DEF WorkerTake, connVars, thrVars
  <2>. QED  BY <2>1 DEF TransInv
<1>22. ASSUME NEW w \in Workers, Process(w)
      PROVE  TransInv'
  <2>1. took' = took /\ trans' = trans /\ closed' = closed
    BY <1>22 DEF Process, connVars, thrVars
  <2>. QED  BY <2>1 DEF TransInv
<1>23. ASSUME NEW w \in Workers, np_version(w)
      PROVE  TransInv'
  <2>1. took' = took /\ trans' = trans /\ closed' = closed
    BY <1>23 DEF np_version, connVars, thrVars
  <2>. QED  BY <2>1 DEF TransInv
<1>24. ASSUME NEW w \in Workers, RespondUnlink(w)
      PROVE  TransInv'
  <2>1. took' = took /\ trans' = trans /\ closed' = closed
    BY <1>24 DEF RespondUnlink, connVars, thrVars
  <2>. QED  BY <2>1 DEF TransInv
<1>25. ASSUME NEW w \in Workers, RespondFid(w)
      PROVE  TransInv'
  <2>1. took' = took /\ trans' = trans /\ closed' = closed
    BY <1>25 DEF RespondFid, connVars, thrVars
  <2>. QED  BY <2>1 DEF TransInv
<1>26. ASSUME NEW w \in Workers, RespondSend(w)
      PROVE  TransInv'
  <2>1. took' = took /\ trans' = trans /\ closed' = closed
    BY <1>26 DEF RespondSend, connVars, thrVars
  <2>. QED  BY <2>1 DEF TransInv
<1>27. ASSUME NEW w \in Workers, RespondWrite(w)
      PROVE  TransInv'
  <2>1. CASE TakeTrans(w)
    <3>1. CASE trans
      <4>1. w \notin took /\ took' = took \cup {w} /\ ~trans' /\ closed' = closed
        BY <1>0, <1>27, <2>1, <3>1 DEF RespondWrite, TakeTrans, PcInv, AtExit, InReset
      <4>2. Cardinality(took') = Cardinality(took) + 1
        BY <4>1, Finite, CardStep
      <4>. QED  BY <1>0, <3>1, <4>1, <4>2 DEF TransInv, One
    <3>2. CASE ~trans
      BY <1>27, <2>1, <3>2 DEF RespondWrite, TakeTrans, TransInv
    <3>. QED  BY <3>1, <3>2
  <2>2. CASE UNCHANGED <<trans, took>>
    BY <1>27, <2>2 DEF RespondWrite, TransInv
  <2>. QED  BY <1>27, <2>1, <2>2 DEF RespondWrite
<1>28. ASSUME NEW w \in Workers, RespondSignal(w)
      PROVE  TransInv'
  <2>1. CASE w \in took
    <3>1. took' = took \ {w} /\ trans' = trans /\ closed' = closed + 1
      BY <1>28, <2>1 DEF RespondSignal, np_trans_destroy
    <3>2. Cardinality(took') = Cardinality(took) - 1
      BY <2>1, <3>1, Finite, CardStep
    <3>. QED  BY <1>0, <3>1, <3>2 DEF TransInv
  <2>2. CASE w \notin took
    BY <1>28, <2>2 DEF RespondSignal, np_trans_destroy, TransInv
  <2>. QED  BY <2>1, <2>2
<1>29. ASSUME NEW w \in Workers, RespondUnref(w)
      PROVE  TransInv'
  <2>1. took' = took /\ trans' = trans /\ closed' = closed
    BY <1>29 DEF RespondUnref, connVars, thrVars
  <2>. QED  BY <2>1 DEF TransInv
<1>30. ASSUME NEW shutconns \in BOOLEAN, np_srv_shutdown(shutconns)
      PROVE  TransInv'
  <2>1. took' = took /\ trans' = trans /\ closed' = closed
    BY <1>30 DEF np_srv_shutdown, connVars, thrVars
  <2>. QED  BY <2>1 DEF TransInv
<1>31. ASSUME np_conn_shutdown
      PROVE  TransInv'
  BY <1>0, <1>31 DEF np_conn_shutdown, thrVars, TransInv, One
<1>32. ASSUME StopperDecref
      PROVE  TransInv'
  <2>1. took' = took /\ trans' = trans /\ closed' = closed
    BY <1>32 DEF StopperDecref, np_conn_decref, connVars, thrVars
  <2>. QED  BY <2>1 DEF TransInv
<1>. QED
  BY <1>1, <1>2, <1>3, <1>4, <1>5, <1>6, <1>7, <1>8, <1>9, <1>10, <1>11, <1>12,
     <1>13, <1>14, <1>15, <1>16, <1>17, <1>18, <1>19, <1>20, <1>21, <1>22,
     <1>23, <1>24, <1>25, <1>26, <1>27, <1>28, <1>29, <1>30, <1>31, <1>32
     DEF Next, np_conn_read_proc, Worker, np_conn_reset

----------------------------------------------------------------------------
(* Who has a request *)

\* A step that leaves the owners, the keepers and the counts alone keeps HoldInv.
LEMMA HoldSame ==
    ASSUME HoldInv, UNCHANGED <<reqs, preqs, kept>>,
           \A r \in Reqs, b \in Actors : Has(b, r)' <=> Has(b, r),
           \A r \in Reqs : rq'[r].refs = rq[r].refs
    PROVE  HoldInv'
<1>1. \A r \in Reqs : (Owned(r)' <=> Owned(r)) /\ Keepers(r)' = Keepers(r)
  BY DEF Owned, Keepers
<1>2. RefsExact'
  BY <1>1 DEF HoldInv, RefsExact, One
<1>3. OneOwner'
  BY DEF HoldInv, OneOwner
<1>. QED  BY <1>2, <1>3 DEF HoldInv

\* One keeper more, or less.
LEMMA KeepersStep ==
    ASSUME TypeOK, NEW a \in Actors, NEW r \in Reqs, NEW K
    PROVE  /\ K = Keepers(r) \cup {a} /\ r \notin kept[a] => Cardinality(K) = Cardinality(Keepers(r)) + 1
           /\ K = Keepers(r) \ {a} /\ r \in kept[a] => Cardinality(K) = Cardinality(Keepers(r)) - 1
<1>1. IsFiniteSet(Keepers(r)) /\ (a \in Keepers(r) <=> r \in kept[a])
  BY Finite DEF Keepers
<1>. QED  BY <1>1, CardStep

\* Every step keeps HoldInv.
LEMMA HoldKeeps ==
    ASSUME TypeOK, PcInv, ReaderInv, HoldInv, Next
    PROVE  HoldInv'
<1>. USE NpConnAssumption DEF Actors
<1>0. /\ pc \in [Actors -> Locations] /\ req \in [Actors -> Reqs \cup {None}]
      /\ preqs \in [Actors -> SUBSET Reqs] /\ kept \in [Actors -> SUBSET Reqs]
      /\ reqs \in Seq(Reqs) /\ workreqs \in SUBSET Reqs
      /\ rq \in [Reqs -> Requests] /\ \A s \in Reqs : rq[s] \in Requests /\ rq[s].refs \in Nat
  BY DEF TypeOK, Requests
<1>1. ASSUME ReaderStart
      PROVE  HoldInv'
  <2>1. UNCHANGED <<reqs, preqs, kept>>
    BY <1>1 DEF ReaderStart, connVars, srvVars, thrVars
  <2>2. \A s \in Reqs, b \in Actors : Has(b, s)' <=> Has(b, s)
    BY <1>0, <1>1 DEF ReaderStart, thrVars, Go, Has, PcInv
  <2>3. \A s \in Reqs : rq'[s].refs = rq[s].refs
    BY <1>0, <1>1 DEF ReaderStart, PcInv
  <2>. QED  BY <2>1, <2>2, <2>3, HoldSame
<1>2. ASSUME NEW r \in Reqs, NEW kind \in Kinds, ReaderRecv(r, kind)
      PROVE  HoldInv'
  <2>1. UNCHANGED <<reqs, preqs, kept>>
    BY <1>2 DEF ReaderRecv, connVars, srvVars, thrVars
  <2>2. \A s \in Reqs, b \in Actors : Has(b, s)' <=> Has(b, s)
    BY <1>0, <1>2 DEF ReaderRecv, thrVars, Go, Has, PcInv
  <2>3. \A s \in Reqs : rq'[s].refs = rq[s].refs
    BY <1>0, <1>2 DEF ReaderRecv, PcInv
  <2>. QED  BY <2>1, <2>2, <2>3, HoldSame
<1>3. ASSUME ReaderCheck
      PROVE  HoldInv'
  <2>1. UNCHANGED <<reqs, preqs, kept>>
    BY <1>3 DEF ReaderCheck, srvVars
  <2>2. \A s \in Reqs, b \in Actors : Has(b, s)' <=> Has(b, s)
    BY <1>0, <1>3 DEF ReaderCheck, Go, Has, PcInv
  <2>3. \A s \in Reqs : rq'[s].refs = rq[s].refs
    BY <1>0, <1>3 DEF ReaderCheck, PcInv, ReaderInv, NoReq
  <2>. QED  BY <2>1, <2>2, <2>3, HoldSame
<1>4. ASSUME ReaderAlloc
      PROVE  HoldInv'
  <2>. DEFINE r == req[Reader]
  <2>1. r \in Reqs /\ rq[r].refs = 0
    BY <1>0, <1>4 DEF ReaderAlloc, PcInv, ReaderInv
  <2>2. ~Owned(r) /\ \A b \in Actors : r \notin kept[b]
    BY <2>1, Referenced
  <2>3. /\ UNCHANGED <<reqs, preqs, kept>>
        /\ \A s \in Reqs, b \in Actors : Has(b, s)' <=> Has(b, s) \/ (b = Reader /\ s = r)
        /\ \A s \in Reqs : rq'[s].refs = IF s = r THEN 1 ELSE rq[s].refs
    <3>1. UNCHANGED <<reqs, preqs, kept>>
      BY <1>4 DEF ReaderAlloc, srvVars, thrVars
    <3>2. \A s \in Reqs, b \in Actors : Has(b, s)' <=> Has(b, s) \/ (b = Reader /\ s = r)
      BY <1>0, <1>4 DEF ReaderAlloc, thrVars, Go, Has
    <3>3. \A s \in Reqs : rq'[s].refs = IF s = r THEN 1 ELSE rq[s].refs
      BY <1>0, <1>4, <2>1 DEF ReaderAlloc, Requests
    <3>. QED  BY <3>1, <3>2, <3>3
  <2>. HIDE DEF r
  <2>4. OneOwner'
    BY <2>1, <2>2, <2>3 DEF HoldInv, OneOwner, Owned
  <2>5. \A s \in Reqs : (Owned(s)' <=> Owned(s) \/ s = r) /\ Keepers(s)' = Keepers(s)
    BY <2>3 DEF Owned, Keepers
  <2>6. Keepers(r) = {} /\ Cardinality({}) = 0
    BY <2>2, FS_EmptySet DEF Keepers
  <2>7. RefsExact'
    BY <2>1, <2>3, <2>5, <2>6 DEF HoldInv, RefsExact, One
  <2>. QED  BY <2>4, <2>7 DEF HoldInv
<1>5. ASSUME ReaderSleep
      PROVE  HoldInv'
  <2>1. UNCHANGED <<reqs, preqs, kept>>
    BY <1>5 DEF ReaderSleep, connVars, srvVars, thrVars
  <2>2. \A s \in Reqs, b \in Actors : Has(b, s)' <=> Has(b, s)
    BY <1>0, <1>5 DEF ReaderSleep, thrVars, Go, Has, PcInv
  <2>3. \A s \in Reqs : rq'[s].refs = rq[s].refs
    BY <1>0, <1>5 DEF ReaderSleep, PcInv
  <2>. QED  BY <2>1, <2>2, <2>3, HoldSame
<1>6. ASSUME ReaderAdd
      PROVE  HoldInv'
  <2>. DEFINE r == req[Reader]
  <2>1. CASE resetting
    <3>1. r \in Reqs /\ rq[r].refs > 0
      BY <1>6, HeldRefs DEF ReaderAdd, PcInv, RefsHeld
    <3>2. Has(Reader, r)
      BY <1>6 DEF ReaderAdd, Has
    <3>3. /\ UNCHANGED <<reqs, preqs, kept>>
          /\ \A s \in Reqs, b \in Actors : Has(b, s)' <=> Has(b, s) /\ s # r
      BY <1>0, <1>6, <2>1 DEF ReaderAdd, srvVars, Go, Has, HoldInv, OneOwner
    <3>4. \A s \in Reqs : rq'[s].refs = rq[s].refs - (IF s = r THEN 1 ELSE 0)
      BY <1>6, <2>1, <3>1, UnrefIs DEF ReaderAdd
    <3>. HIDE DEF r
    <3>5. OneOwner'
      BY <3>1, <3>3 DEF HoldInv, OneOwner
    <3>6. Owned(r) /\ (\A s \in Reqs : (Owned(s)' <=> Owned(s) /\ s # r) /\ Keepers(s)' = Keepers(s))
      BY <1>0, <3>1, <3>2, <3>3 DEF Owned, Keepers, HoldInv, OneOwner
    <3>7. \A s \in Reqs : Cardinality(Keepers(s)) \in Nat
      BY Finite
    <3>8. RefsExact'
      BY <3>1, <3>4, <3>6, <3>7 DEF HoldInv, RefsExact, One
    <3>. QED  BY <3>5, <3>8 DEF HoldInv
  <2>2. CASE ~resetting
    <3>1. r \in Reqs /\ Has(Reader, r)
      BY <1>0, <1>6 DEF ReaderAdd, PcInv, Has
    <3>2. reqs' = Append(reqs, r) /\ UNCHANGED <<rq, preqs, kept>>
      BY <1>6, <2>2 DEF ReaderAdd
    <3>3. \A s \in Reqs, b \in Actors : Has(b, s)' <=> Has(b, s) /\ s # r
      BY <1>0, <1>6, <2>2 DEF ReaderAdd, Go, Has, HoldInv, OneOwner
    <3>4. ToSet(reqs') = ToSet(reqs) \cup {r}
      BY <1>0, <3>1, <3>2, AppendOf
    <3>. HIDE DEF r
    <3>5. r \notin ToSet(reqs) /\ \A b \in Actors : r \notin preqs[b]
      BY <3>1 DEF HoldInv, OneOwner
    <3>6. \A i, j \in DOMAIN reqs' : reqs'[i] = reqs'[j] => i = j
      <4>1. \A i \in DOMAIN reqs : reqs[i] # r
        BY <1>0, <3>5, QueueOf
      <4>. QED  BY <1>0, <3>1, <3>2, <4>1, AppendOf DEF HoldInv, OneOwner
    <3>7. OneOwner'
      BY <3>1, <3>2, <3>3, <3>4, <3>5, <3>6 DEF HoldInv, OneOwner
    <3>8. \A s \in Reqs : (Owned(s)' <=> Owned(s)) /\ Keepers(s)' = Keepers(s)
      BY <3>1, <3>2, <3>3, <3>4 DEF Owned, Keepers
    <3>9. RefsExact'
      BY <3>2, <3>8 DEF HoldInv, RefsExact, One
    <3>. QED  BY <3>7, <3>9 DEF HoldInv
  <2>. QED  BY <2>1, <2>2
<1>7. ASSUME ReaderEnd
      PROVE  HoldInv'
  <2>1. UNCHANGED <<reqs, preqs, kept>>
    BY <1>7 DEF ReaderEnd, connVars, srvVars, thrVars
  <2>2. \A s \in Reqs, b \in Actors : Has(b, s)' <=> Has(b, s)
    BY <1>0, <1>7 DEF ReaderEnd, thrVars, Go, Has, PcInv
  <2>3. \A s \in Reqs : rq'[s].refs = rq[s].refs
    BY <1>0, <1>7 DEF ReaderEnd, PcInv
  <2>. QED  BY <2>1, <2>2, <2>3, HoldSame
<1>8. ASSUME ReaderExit
      PROVE  HoldInv'
  <2>1. UNCHANGED <<reqs, preqs, kept>>
    BY <1>8 DEF ReaderExit, TakeTrans, connVars, srvVars, thrVars
  <2>2. \A s \in Reqs, b \in Actors : Has(b, s)' <=> Has(b, s)
    BY <1>0, <1>8 DEF ReaderExit, TakeTrans, thrVars, Go, Has, PcInv
  <2>3. \A s \in Reqs : rq'[s].refs = rq[s].refs
    BY <1>0, <1>8 DEF ReaderExit, TakeTrans, PcInv
  <2>. QED  BY <2>1, <2>2, <2>3, HoldSame
<1>9. ASSUME np_srv_remove_conn
      PROVE  HoldInv'
  <2>1. UNCHANGED <<reqs, preqs, kept>>
    BY <1>9 DEF np_srv_remove_conn, np_conn_decref, connVars, srvVars, thrVars
  <2>2. \A s \in Reqs, b \in Actors : Has(b, s)' <=> Has(b, s)
    BY <1>0, <1>9 DEF np_srv_remove_conn, np_conn_decref, thrVars, Go, Has, PcInv
  <2>3. \A s \in Reqs : rq'[s].refs = rq[s].refs
    BY <1>0, <1>9 DEF np_srv_remove_conn, np_conn_decref, PcInv
  <2>. QED  BY <2>1, <2>2, <2>3, HoldSame
<1>10. ASSUME ReaderBye
      PROVE  HoldInv'
  <2>1. UNCHANGED <<reqs, preqs, kept>>
    BY <1>10 DEF ReaderBye, np_trans_destroy, connVars, srvVars, thrVars
  <2>2. \A s \in Reqs, b \in Actors : Has(b, s)' <=> Has(b, s)
    BY <1>0, <1>10 DEF ReaderBye, np_trans_destroy, thrVars, Go, Has, PcInv
  <2>3. \A s \in Reqs : rq'[s].refs = rq[s].refs
    BY <1>0, <1>10 DEF ReaderBye, np_trans_destroy, PcInv
  <2>. QED  BY <2>1, <2>2, <2>3, HoldSame
<1>11. ASSUME ReaderLast
      PROVE  HoldInv'
  <2>1. UNCHANGED <<reqs, preqs, kept>>
    BY <1>11 DEF ReaderLast, np_conn_decref, connVars, srvVars, thrVars
  <2>2. \A s \in Reqs, b \in Actors : Has(b, s)' <=> Has(b, s)
    BY <1>0, <1>11 DEF ReaderLast, np_conn_decref, thrVars, Go, Has, PcInv
  <2>3. \A s \in Reqs : rq'[s].refs = rq[s].refs
    BY <1>0, <1>11 DEF ReaderLast, np_conn_decref, PcInv
  <2>. QED  BY <2>1, <2>2, <2>3, HoldSame
<1>12. ASSUME NEW a \in Workers \cup {Reader}, ResetBegin(a)
      PROVE  HoldInv'
  <2>1. UNCHANGED <<reqs, preqs, kept>>
    BY <1>12 DEF ResetBegin, connVars, srvVars, thrVars
  <2>2. \A s \in Reqs, b \in Actors : Has(b, s)' <=> Has(b, s)
    BY <1>0, <1>12 DEF ResetBegin, thrVars, Go, Has, PcInv
  <2>3. \A s \in Reqs : rq'[s].refs = rq[s].refs
    BY <1>0, <1>12 DEF ResetBegin, PcInv
  <2>. QED  BY <2>1, <2>2, <2>3, HoldSame
<1>13. ASSUME NEW a \in Workers \cup {Reader}, ResetCollect(a)
      PROVE  HoldInv'
  <2>1. kept[a] = {} /\ preqs[a] = {}
    BY <1>13 DEF ResetCollect, PcInv
  <2>2. /\ reqs' = <<>>
        /\ \A s \in Reqs, b \in Actors : Has(b, s)' <=> Has(b, s)
        /\ \A b \in Actors : preqs'[b] = IF b = a THEN ToSet(reqs) ELSE preqs[b]
        /\ \A b \in Actors : kept'[b] = IF b = a THEN Awaited(a) ELSE kept[b]
    BY <1>0, <1>13 DEF ResetCollect, Go, Has
  <2>3. \A s \in Reqs : rq'[s].refs = rq[s].refs + (IF s \in Awaited(a) THEN 1 ELSE 0)
    BY <1>0, <1>13 DEF ResetCollect
  <2>4. ToSet(reqs') = {} /\ DOMAIN reqs' = {}
    BY <1>0, <2>2, QueueOf
  <2>5. OneOwner'
    BY <2>1, <2>2, <2>4 DEF HoldInv, OneOwner
  <2>6. \A s \in Reqs : Owned(s)' <=> Owned(s)
    BY <2>1, <2>2, <2>4 DEF Owned
  <2>7. ASSUME NEW s \in Reqs
        PROVE  Cardinality(Keepers(s))' = Cardinality(Keepers(s)) + (IF s \in Awaited(a) THEN 1 ELSE 0)
               /\ Cardinality(Keepers(s)) \in Nat
    <3>1. CASE s \in Awaited(a)
      <4>1. Keepers(s)' = Keepers(s) \cup {a} /\ s \notin kept[a]
        BY <2>1, <2>2, <3>1 DEF Keepers
      <4>. QED  BY <3>1, <4>1, KeepersStep, Finite
    <3>2. CASE s \notin Awaited(a)
      <4>1. Keepers(s)' = Keepers(s)
        BY <2>1, <2>2, <3>2 DEF Keepers
      <4>. QED  BY <3>2, <4>1, Finite
    <3>. QED  BY <3>1, <3>2
  <2>8. RefsExact'
    BY <2>3, <2>6, <2>7 DEF HoldInv, RefsExact, One
  <2>. QED  BY <2>5, <2>8 DEF HoldInv
<1>14. ASSUME NEW a \in Workers \cup {Reader}, ResetDrop(a)
      PROVE  HoldInv'
  <2>1. preqs[a] \in SUBSET Reqs /\ \A s \in preqs[a] : rq[s].refs > 0
    BY HeldRefs DEF RefsHeld
  <2>2. /\ UNCHANGED <<reqs, kept>>
        /\ \A s \in Reqs, b \in Actors : Has(b, s)' <=> Has(b, s)
        /\ \A b \in Actors : preqs'[b] = IF b = a THEN {} ELSE preqs[b]
    BY <1>0, <1>14 DEF ResetDrop, srvVars, Go, Has
  <2>3. \A s \in Reqs : rq'[s].refs = rq[s].refs - (IF s \in preqs[a] THEN 1 ELSE 0)
    BY <1>14, <2>1, UnrefIs DEF ResetDrop
  <2>4. OneOwner'
    BY <2>2 DEF HoldInv, OneOwner
  <2>5. \A s \in Reqs : (Owned(s)' <=> Owned(s) /\ s \notin preqs[a]) /\ Keepers(s)' = Keepers(s)
    BY <2>2 DEF Owned, Keepers, HoldInv, OneOwner
  <2>6. \A s \in Reqs : Cardinality(Keepers(s)) \in Nat /\ (s \in preqs[a] => Owned(s))
    BY Finite DEF Owned
  <2>7. RefsExact'
    BY <2>3, <2>5, <2>6 DEF HoldInv, RefsExact, One
  <2>. QED  BY <2>4, <2>7 DEF HoldInv
<1>15. ASSUME NEW a \in Workers \cup {Reader}, ResetWait(a)
      PROVE  HoldInv'
  <2>1. UNCHANGED <<reqs, preqs, kept>>
    BY <1>15 DEF ResetWait, connVars, srvVars, thrVars
  <2>2. \A s \in Reqs, b \in Actors : Has(b, s)' <=> Has(b, s)
    BY <1>0, <1>15 DEF ResetWait, thrVars, Go, Has, PcInv
  <2>3. \A s \in Reqs : rq'[s].refs = rq[s].refs
    BY <1>0, <1>15 DEF ResetWait, PcInv
  <2>. QED  BY <2>1, <2>2, <2>3, HoldSame
<1>16. ASSUME NEW a \in Workers \cup {Reader}, ResetDestroy(a)
      PROVE  HoldInv'
  <2>1. UNCHANGED <<reqs, preqs, kept>>
    BY <1>16 DEF ResetDestroy, connVars, srvVars, thrVars
  <2>2. \A s \in Reqs, b \in Actors : Has(b, s)' <=> Has(b, s)
    BY <1>0, <1>16 DEF ResetDestroy, thrVars, Go, Has, PcInv
  <2>3. \A s \in Reqs : rq'[s].refs = rq[s].refs
    BY <1>0, <1>16 DEF ResetDestroy, PcInv
  <2>. QED  BY <2>1, <2>2, <2>3, HoldSame
<1>17. ASSUME NEW a \in Workers \cup {Reader}, ResetRenew(a)
      PROVE  HoldInv'
  <2>1. UNCHANGED <<reqs, preqs, kept>>
    BY <1>17 DEF ResetRenew, connVars, srvVars, thrVars
  <2>2. \A s \in Reqs, b \in Actors : Has(b, s)' <=> Has(b, s)
    BY <1>0, <1>17 DEF ResetRenew, thrVars, Go, Has, PcInv
  <2>3. \A s \in Reqs : rq'[s].refs = rq[s].refs
    BY <1>0, <1>17 DEF ResetRenew, PcInv
  <2>. QED  BY <2>1, <2>2, <2>3, HoldSame
<1>18. ASSUME NEW a \in Workers \cup {Reader}, ResetPool(a)
      PROVE  HoldInv'
  <2>1. UNCHANGED <<reqs, preqs, kept>>
    BY <1>18 DEF ResetPool, connVars, srvVars, thrVars
  <2>2. \A s \in Reqs, b \in Actors : Has(b, s)' <=> Has(b, s)
    BY <1>0, <1>18 DEF ResetPool, thrVars, Go, Has, PcInv
  <2>3. \A s \in Reqs : rq'[s].refs = rq[s].refs
    BY <1>0, <1>18 DEF ResetPool, PcInv
  <2>. QED  BY <2>1, <2>2, <2>3, HoldSame
<1>19. ASSUME NEW a \in Workers \cup {Reader}, ResetReopen(a)
      PROVE  HoldInv'
  <2>1. UNCHANGED <<reqs, preqs, kept>>
    BY <1>19 DEF ResetReopen, connVars, srvVars, thrVars
  <2>2. \A s \in Reqs, b \in Actors : Has(b, s)' <=> Has(b, s)
    BY <1>0, <1>19 DEF ResetReopen, thrVars, Go, Has, PcInv
  <2>3. \A s \in Reqs : rq'[s].refs = rq[s].refs
    BY <1>0, <1>19 DEF ResetReopen, PcInv
  <2>. QED  BY <2>1, <2>2, <2>3, HoldSame
<1>20. ASSUME NEW a \in Workers \cup {Reader}, ResetUnkeep(a)
      PROVE  HoldInv'
  <2>1. kept[a] \in SUBSET Reqs /\ \A s \in kept[a] : rq[s].refs > 0
    BY HeldRefs DEF RefsHeld
  <2>2. /\ UNCHANGED <<reqs, preqs>>
        /\ \A s \in Reqs, b \in Actors : Has(b, s)' <=> Has(b, s)
        /\ \A b \in Actors : kept'[b] = IF b = a THEN {} ELSE kept[b]
    BY <1>0, <1>20 DEF ResetUnkeep, srvVars, Go, Has
  <2>3. \A s \in Reqs : rq'[s].refs = rq[s].refs - (IF s \in kept[a] THEN 1 ELSE 0)
    BY <1>20, <2>1, UnrefIs DEF ResetUnkeep
  <2>4. OneOwner'
    BY <2>2 DEF HoldInv, OneOwner
  <2>5. ASSUME NEW s \in Reqs
        PROVE  Cardinality(Keepers(s))' = Cardinality(Keepers(s)) - (IF s \in kept[a] THEN 1 ELSE 0)
               /\ Cardinality(Keepers(s)) \in Nat
    <3>1. Keepers(s)' = Keepers(s) \ {a}
      BY <2>2 DEF Keepers
    <3>2. CASE s \in kept[a]
      BY <3>1, <3>2, KeepersStep, Finite
    <3>3. CASE s \notin kept[a]
      <4>1. Keepers(s) \ {a} = Keepers(s)
        BY <3>3 DEF Keepers
      <4>. QED  BY <3>1, <3>3, <4>1, Finite
    <3>. QED  BY <3>2, <3>3
  <2>6. \A s \in Reqs : Owned(s)' <=> Owned(s)
    BY <2>2 DEF Owned
  <2>7. RefsExact'
    BY <2>3, <2>5, <2>6 DEF HoldInv, RefsExact, One
  <2>. QED  BY <2>4, <2>7 DEF HoldInv
<1>21. ASSUME NEW w \in Workers, WorkerTake(w)
      PROVE  HoldInv'
  <2>. DEFINE r == Head(reqs)
  <2>1. r \in Reqs /\ r \in ToSet(reqs) /\ ToSet(reqs) = ToSet(reqs') \cup {r} /\ r \notin ToSet(reqs')
        /\ \A i, j \in DOMAIN reqs' : reqs'[i] = reqs'[j] => i = j
    BY <1>0, <1>21, TailOf DEF WorkerTake, HoldInv, OneOwner
  <2>2. /\ UNCHANGED <<rq, preqs, kept>>
        /\ \A s \in Reqs, b \in Actors : Has(b, s)' <=> Has(b, s) \/ (b = w /\ s = r)
    BY <1>0, <1>21, <2>1 DEF WorkerTake, Go, Has, PcInv
  <2>. HIDE DEF r
  <2>3. OneOwner'
    BY <2>1, <2>2 DEF HoldInv, OneOwner
  <2>4. \A s \in Reqs : (Owned(s)' <=> Owned(s)) /\ Keepers(s)' = Keepers(s)
    BY <2>1, <2>2 DEF Owned, Keepers
  <2>5. RefsExact'
    BY <2>2, <2>4 DEF HoldInv, RefsExact, One
  <2>. QED  BY <2>3, <2>5 DEF HoldInv
<1>22. ASSUME NEW w \in Workers, Process(w)
      PROVE  HoldInv'
  <2>1. UNCHANGED <<reqs, preqs, kept>>
    BY <1>22 DEF Process, connVars, srvVars, thrVars
  <2>2. \A s \in Reqs, b \in Actors : Has(b, s)' <=> Has(b, s)
    BY <1>0, <1>22 DEF Process, thrVars, Go, Has, PcInv
  <2>3. \A s \in Reqs : rq'[s].refs = rq[s].refs
    BY <1>0, <1>22 DEF Process, PcInv
  <2>. QED  BY <2>1, <2>2, <2>3, HoldSame
<1>23. ASSUME NEW w \in Workers, np_version(w)
      PROVE  HoldInv'
  <2>1. UNCHANGED <<reqs, preqs, kept>>
    BY <1>23 DEF np_version, connVars, srvVars, thrVars
  <2>2. \A s \in Reqs, b \in Actors : Has(b, s)' <=> Has(b, s)
    BY <1>0, <1>23 DEF np_version, thrVars, Go, Has, PcInv
  <2>3. \A s \in Reqs : rq'[s].refs = rq[s].refs
    BY <1>0, <1>23 DEF np_version, PcInv
  <2>. QED  BY <2>1, <2>2, <2>3, HoldSame
<1>24. ASSUME NEW w \in Workers, RespondUnlink(w)
      PROVE  HoldInv'
  <2>1. UNCHANGED <<reqs, preqs, kept>>
    BY <1>24 DEF RespondUnlink, connVars, srvVars, thrVars
  <2>2. \A s \in Reqs, b \in Actors : Has(b, s)' <=> Has(b, s)
    BY <1>0, <1>24 DEF RespondUnlink, thrVars, Go, Has, PcInv
  <2>3. \A s \in Reqs : rq'[s].refs = rq[s].refs
    BY <1>0, <1>24 DEF RespondUnlink, PcInv
  <2>. QED  BY <2>1, <2>2, <2>3, HoldSame
<1>25. ASSUME NEW w \in Workers, RespondFid(w)
      PROVE  HoldInv'
  <2>1. UNCHANGED <<reqs, preqs, kept>>
    BY <1>25 DEF RespondFid, connVars, srvVars, thrVars
  <2>2. \A s \in Reqs, b \in Actors : Has(b, s)' <=> Has(b, s)
    BY <1>0, <1>25 DEF RespondFid, thrVars, Go, Has, PcInv
  <2>3. \A s \in Reqs : rq'[s].refs = rq[s].refs
    BY <1>0, <1>25 DEF RespondFid, PcInv
  <2>. QED  BY <2>1, <2>2, <2>3, HoldSame
<1>26. ASSUME NEW w \in Workers, RespondSend(w)
      PROVE  HoldInv'
  <2>1. UNCHANGED <<reqs, preqs, kept>>
    BY <1>26 DEF RespondSend, connVars, srvVars, thrVars
  <2>2. \A s \in Reqs, b \in Actors : Has(b, s)' <=> Has(b, s)
    BY <1>0, <1>26 DEF RespondSend, thrVars, Go, Has, PcInv
  <2>3. \A s \in Reqs : rq'[s].refs = rq[s].refs
    BY <1>0, <1>26 DEF RespondSend, PcInv
  <2>. QED  BY <2>1, <2>2, <2>3, HoldSame
<1>27. ASSUME NEW w \in Workers, RespondWrite(w)
      PROVE  HoldInv'
  <2>1. UNCHANGED <<reqs, preqs, kept>>
    BY <1>27 DEF RespondWrite, TakeTrans, connVars, srvVars, thrVars
  <2>2. \A s \in Reqs, b \in Actors : Has(b, s)' <=> Has(b, s)
    BY <1>0, <1>27 DEF RespondWrite, TakeTrans, thrVars, Go, Has, PcInv
  <2>3. \A s \in Reqs : rq'[s].refs = rq[s].refs
    BY <1>0, <1>27 DEF RespondWrite, TakeTrans, PcInv
  <2>. QED  BY <2>1, <2>2, <2>3, HoldSame
<1>28. ASSUME NEW w \in Workers, RespondSignal(w)
      PROVE  HoldInv'
  <2>1. UNCHANGED <<reqs, preqs, kept>>
    BY <1>28 DEF RespondSignal, np_trans_destroy, connVars, srvVars, thrVars
  <2>2. \A s \in Reqs, b \in Actors : Has(b, s)' <=> Has(b, s)
    BY <1>0, <1>28 DEF RespondSignal, np_trans_destroy, thrVars, Go, Has, PcInv
  <2>3. \A s \in Reqs : rq'[s].refs = rq[s].refs
    BY <1>0, <1>28 DEF RespondSignal, np_trans_destroy, PcInv
  <2>. QED  BY <2>1, <2>2, <2>3, HoldSame
<1>29. ASSUME NEW w \in Workers, RespondUnref(w)
      PROVE  HoldInv'
  <2>. DEFINE r == req[w]
  <2>1. r \in Reqs /\ rq[r].refs > 0
    BY <1>29, HeldRefs DEF RespondUnref, PcInv, RefsHeld
  <2>2. Has(w, r)
    BY <1>29 DEF RespondUnref, Has
  <2>3. /\ UNCHANGED <<reqs, preqs, kept>>
        /\ \A s \in Reqs, b \in Actors : Has(b, s)' <=> Has(b, s) /\ s # r
    BY <1>0, <1>29 DEF RespondUnref, srvVars, Go, Has, HoldInv, OneOwner
  <2>4. \A s \in Reqs : rq'[s].refs = rq[s].refs - (IF s = r THEN 1 ELSE 0)
    BY <1>29, <2>1, UnrefIs DEF RespondUnref
  <2>. HIDE DEF r
  <2>5. OneOwner'
    BY <2>1, <2>3 DEF HoldInv, OneOwner
  <2>6. Owned(r) /\ (\A s \in Reqs : (Owned(s)' <=> Owned(s) /\ s # r) /\ Keepers(s)' = Keepers(s))
    BY <1>0, <2>1, <2>2, <2>3 DEF Owned, Keepers, HoldInv, OneOwner
  <2>7. \A s \in Reqs : Cardinality(Keepers(s)) \in Nat
    BY Finite
  <2>8. RefsExact'
    BY <2>1, <2>4, <2>6, <2>7 DEF HoldInv, RefsExact, One
  <2>. QED  BY <2>5, <2>8 DEF HoldInv
<1>30. ASSUME NEW shutconns \in BOOLEAN, np_srv_shutdown(shutconns)
      PROVE  HoldInv'
  <2>1. UNCHANGED <<reqs, preqs, kept>>
    BY <1>30 DEF np_srv_shutdown, connVars, srvVars, thrVars
  <2>2. \A s \in Reqs, b \in Actors : Has(b, s)' <=> Has(b, s)
    BY <1>0, <1>30 DEF np_srv_shutdown, thrVars, Go, Has, PcInv
  <2>3. \A s \in Reqs : rq'[s].refs = rq[s].refs
    BY <1>0, <1>30 DEF np_srv_shutdown, PcInv
  <2>. QED  BY <2>1, <2>2, <2>3, HoldSame
<1>31. ASSUME np_conn_shutdown
      PROVE  HoldInv'
  <2>1. UNCHANGED <<reqs, preqs, kept>>
    BY <1>31 DEF np_conn_shutdown, connVars, srvVars, thrVars
  <2>2. \A s \in Reqs, b \in Actors : Has(b, s)' <=> Has(b, s)
    BY <1>0, <1>31 DEF np_conn_shutdown, thrVars, Go, Has, PcInv
  <2>3. \A s \in Reqs : rq'[s].refs = rq[s].refs
    BY <1>0, <1>31 DEF np_conn_shutdown, PcInv
  <2>. QED  BY <2>1, <2>2, <2>3, HoldSame
<1>32. ASSUME StopperDecref
      PROVE  HoldInv'
  <2>1. UNCHANGED <<reqs, preqs, kept>>
    BY <1>32 DEF StopperDecref, np_conn_decref, connVars, srvVars, thrVars
  <2>2. \A s \in Reqs, b \in Actors : Has(b, s)' <=> Has(b, s)
    BY <1>0, <1>32 DEF StopperDecref, np_conn_decref, thrVars, Go, Has, PcInv
  <2>3. \A s \in Reqs : rq'[s].refs = rq[s].refs
    BY <1>0, <1>32 DEF StopperDecref, np_conn_decref, PcInv
  <2>. QED  BY <2>1, <2>2, <2>3, HoldSame
<1>. QED
  BY <1>1, <1>2, <1>3, <1>4, <1>5, <1>6, <1>7, <1>8, <1>9, <1>10, <1>11, <1>12,
     <1>13, <1>14, <1>15, <1>16, <1>17, <1>18, <1>19, <1>20, <1>21, <1>22,
     <1>23, <1>24, <1>25, <1>26, <1>27, <1>28, <1>29, <1>30, <1>31, <1>32
     DEF Next, np_conn_read_proc, Worker, np_conn_reset

\* A request that stays referenced stays what it is.
LEMMA KindKept ==
    ASSUME TypeOK, PcInv, HoldInv, ReaderInv, Next, NEW r \in Reqs, rq[r].refs > 0, rq'[r].refs > 0
    PROVE  rq'[r].kind = rq[r].kind /\ rq'[r].born = rq[r].born
<1>. USE NpConnAssumption DEF Actors
<1>0. /\ pc \in [Actors -> Locations] /\ req \in [Actors -> Reqs \cup {None}]
      /\ reqs \in Seq(Reqs) /\ workreqs \in SUBSET Reqs /\ rq \in [Reqs -> Requests]
  BY DEF TypeOK, Requests
<1>1. ASSUME ReaderStart
      PROVE  rq'[r].kind = rq[r].kind /\ rq'[r].born = rq[r].born
  BY <1>1 DEF ReaderStart
<1>2. ASSUME NEW x \in Reqs, NEW kind \in Kinds, ReaderRecv(x, kind)
      PROVE  rq'[r].kind = rq[r].kind /\ rq'[r].born = rq[r].born
  BY <1>0, <1>2 DEF ReaderRecv, Requests
<1>3. ASSUME ReaderCheck
      PROVE  rq'[r].kind = rq[r].kind /\ rq'[r].born = rq[r].born
  <2>1. req[Reader] \in Reqs /\ req[Reader] # r
    BY <1>0, <1>3 DEF ReaderCheck, PcInv, ReaderInv
  <2>. QED  BY <1>0, <1>3, <2>1 DEF ReaderCheck
<1>4. ASSUME ReaderAlloc
      PROVE  rq'[r].kind = rq[r].kind /\ rq'[r].born = rq[r].born
  <2>1. req[Reader] \in Reqs /\ req[Reader] # r
    BY <1>0, <1>4 DEF ReaderAlloc, PcInv, ReaderInv
  <2>. QED  BY <1>0, <1>4, <2>1 DEF ReaderAlloc
<1>5. ASSUME ReaderSleep
      PROVE  rq'[r].kind = rq[r].kind /\ rq'[r].born = rq[r].born
  BY <1>5 DEF ReaderSleep
<1>6. ASSUME ReaderAdd
      PROVE  rq'[r].kind = rq[r].kind /\ rq'[r].born = rq[r].born
  <2>1. CASE resetting
    <3>1. {req[Reader]} \in SUBSET Reqs /\ \A s \in {req[Reader]} : rq[s].refs > 0
      BY <1>6, HeldRefs DEF RefsHeld, PcInv, ReaderAdd
    <3>. QED  BY <1>6, <2>1, <3>1, UnrefIs DEF ReaderAdd
  <2>2. CASE ~resetting
    BY <1>6, <2>2 DEF ReaderAdd
  <2>. QED  BY <2>1, <2>2
<1>7. ASSUME ReaderEnd
      PROVE  rq'[r].kind = rq[r].kind /\ rq'[r].born = rq[r].born
  BY <1>7 DEF ReaderEnd
<1>8. ASSUME ReaderExit
      PROVE  rq'[r].kind = rq[r].kind /\ rq'[r].born = rq[r].born
  BY <1>8 DEF ReaderExit, TakeTrans
<1>9. ASSUME np_srv_remove_conn
      PROVE  rq'[r].kind = rq[r].kind /\ rq'[r].born = rq[r].born
  BY <1>9 DEF np_srv_remove_conn, np_conn_decref
<1>10. ASSUME ReaderBye
      PROVE  rq'[r].kind = rq[r].kind /\ rq'[r].born = rq[r].born
  BY <1>10 DEF ReaderBye, np_trans_destroy
<1>11. ASSUME ReaderLast
      PROVE  rq'[r].kind = rq[r].kind /\ rq'[r].born = rq[r].born
  BY <1>11 DEF ReaderLast, np_conn_decref
<1>12. ASSUME NEW a \in Workers \cup {Reader}, ResetBegin(a)
      PROVE  rq'[r].kind = rq[r].kind /\ rq'[r].born = rq[r].born
  BY <1>12 DEF ResetBegin
<1>13. ASSUME NEW a \in Workers \cup {Reader}, ResetCollect(a)
      PROVE  rq'[r].kind = rq[r].kind /\ rq'[r].born = rq[r].born
  BY <1>0, <1>13 DEF ResetCollect, Requests
<1>14. ASSUME NEW a \in Workers \cup {Reader}, ResetDrop(a)
      PROVE  rq'[r].kind = rq[r].kind /\ rq'[r].born = rq[r].born
  <2>1. preqs[a] \in SUBSET Reqs /\ \A s \in preqs[a] : rq[s].refs > 0
    BY <1>14, HeldRefs DEF RefsHeld, PcInv, ResetDrop
  <2>. QED  BY <1>14, <2>1, UnrefIs DEF ResetDrop
<1>15. ASSUME NEW a \in Workers \cup {Reader}, ResetWait(a)
      PROVE  rq'[r].kind = rq[r].kind /\ rq'[r].born = rq[r].born
  BY <1>15 DEF ResetWait
<1>16. ASSUME NEW a \in Workers \cup {Reader}, ResetDestroy(a)
      PROVE  rq'[r].kind = rq[r].kind /\ rq'[r].born = rq[r].born
  BY <1>16 DEF ResetDestroy
<1>17. ASSUME NEW a \in Workers \cup {Reader}, ResetRenew(a)
      PROVE  rq'[r].kind = rq[r].kind /\ rq'[r].born = rq[r].born
  BY <1>17 DEF ResetRenew
<1>18. ASSUME NEW a \in Workers \cup {Reader}, ResetPool(a)
      PROVE  rq'[r].kind = rq[r].kind /\ rq'[r].born = rq[r].born
  BY <1>18 DEF ResetPool
<1>19. ASSUME NEW a \in Workers \cup {Reader}, ResetReopen(a)
      PROVE  rq'[r].kind = rq[r].kind /\ rq'[r].born = rq[r].born
  BY <1>19 DEF ResetReopen
<1>20. ASSUME NEW a \in Workers \cup {Reader}, ResetUnkeep(a)
      PROVE  rq'[r].kind = rq[r].kind /\ rq'[r].born = rq[r].born
  <2>1. kept[a] \in SUBSET Reqs /\ \A s \in kept[a] : rq[s].refs > 0
    BY <1>20, HeldRefs DEF RefsHeld, PcInv, ResetUnkeep
  <2>. QED  BY <1>20, <2>1, UnrefIs DEF ResetUnkeep
<1>21. ASSUME NEW w \in Workers, WorkerTake(w)
      PROVE  rq'[r].kind = rq[r].kind /\ rq'[r].born = rq[r].born
  BY <1>21 DEF WorkerTake
<1>22. ASSUME NEW w \in Workers, Process(w)
      PROVE  rq'[r].kind = rq[r].kind /\ rq'[r].born = rq[r].born
  BY <1>0, <1>22 DEF Process, Requests, PcInv
<1>23. ASSUME NEW w \in Workers, np_version(w)
      PROVE  rq'[r].kind = rq[r].kind /\ rq'[r].born = rq[r].born
  BY <1>23 DEF np_version
<1>24. ASSUME NEW w \in Workers, RespondUnlink(w)
      PROVE  rq'[r].kind = rq[r].kind /\ rq'[r].born = rq[r].born
  BY <1>24 DEF RespondUnlink
<1>25. ASSUME NEW w \in Workers, RespondFid(w)
      PROVE  rq'[r].kind = rq[r].kind /\ rq'[r].born = rq[r].born
  BY <1>0, <1>25 DEF RespondFid, Requests, PcInv
<1>26. ASSUME NEW w \in Workers, RespondSend(w)
      PROVE  rq'[r].kind = rq[r].kind /\ rq'[r].born = rq[r].born
  BY <1>26 DEF RespondSend
<1>27. ASSUME NEW w \in Workers, RespondWrite(w)
      PROVE  rq'[r].kind = rq[r].kind /\ rq'[r].born = rq[r].born
  BY <1>27 DEF RespondWrite, TakeTrans
<1>28. ASSUME NEW w \in Workers, RespondSignal(w)
      PROVE  rq'[r].kind = rq[r].kind /\ rq'[r].born = rq[r].born
  BY <1>28 DEF RespondSignal, np_trans_destroy
<1>29. ASSUME NEW w \in Workers, RespondUnref(w)
      PROVE  rq'[r].kind = rq[r].kind /\ rq'[r].born = rq[r].born
  <2>1. {req[w]} \in SUBSET Reqs /\ \A s \in {req[w]} : rq[s].refs > 0
    BY <1>29, HeldRefs DEF RefsHeld, PcInv, RespondUnref
  <2>. QED  BY <1>29, <2>1, UnrefIs DEF RespondUnref
<1>30. ASSUME NEW shutconns \in BOOLEAN, np_srv_shutdown(shutconns)
      PROVE  rq'[r].kind = rq[r].kind /\ rq'[r].born = rq[r].born
  BY <1>30 DEF np_srv_shutdown
<1>31. ASSUME np_conn_shutdown
      PROVE  rq'[r].kind = rq[r].kind /\ rq'[r].born = rq[r].born
  BY <1>31 DEF np_conn_shutdown
<1>32. ASSUME StopperDecref
      PROVE  rq'[r].kind = rq[r].kind /\ rq'[r].born = rq[r].born
  BY <1>32 DEF StopperDecref, np_conn_decref
<1>. QED
  BY <1>1, <1>2, <1>3, <1>4, <1>5, <1>6, <1>7, <1>8, <1>9, <1>10, <1>11, <1>12,
     <1>13, <1>14, <1>15, <1>16, <1>17, <1>18, <1>19, <1>20, <1>21, <1>22,
     <1>23, <1>24, <1>25, <1>26, <1>27, <1>28, <1>29, <1>30, <1>31, <1>32
     DEF Next, np_conn_read_proc, Worker, np_conn_reset

\* Workers that stay where they were, as far as workreqs goes, keep WorkInv.
LEMMA WorkSame ==
    ASSUME TypeOK, PcInv, HoldInv, ReaderInv, WorkInv, Next, TypeOK', PcInv', HoldInv', UNCHANGED workreqs,
           \A v \in Workers : req'[v] = req[v] /\ (pc'[v] \in Working <=> pc[v] \in Working),
           \A v \in Workers : pc'[v] \in InReset \cup {"renew", "newpool"} => pc[v] \in InReset \cup {"renew", "newpool"}
    PROVE  WorkInv'
<1>1. ASSUME NEW v \in Workers, pc'[v] \in InReset \cup {"renew", "newpool"}
      PROVE  rq'[req'[v]].kind = "version"
  <2>1. pc[v] \in InReset \cup {"renew", "newpool"} /\ req'[v] = req[v] /\ pc[v] # "idle" /\ pc[v] \notin {"check", "alloc"}
        /\ pc'[v] \notin {"check", "alloc"} /\ rq[req[v]].kind = "version"
    BY <1>1 DEF InReset, WorkInv
  <2>2. req[v] \in Reqs /\ rq[req[v]].refs > 0 /\ rq'[req[v]].refs > 0
    BY <2>1, HeldRefs, HeldRefsNext DEF RefsHeld, Actors, PcInv
  <2>. QED  BY <2>1, <2>2, KindKept
<1>2. \A r \in Reqs : r \in workreqs' <=> \E v \in Workers : req'[v] = r /\ pc'[v] \in Working
  BY DEF WorkInv
<1>. QED  BY <1>1, <1>2 DEF WorkInv

\* Every step keeps WorkInv.
LEMMA WorkKeeps ==
    ASSUME TypeOK, PcInv, HoldInv, ReaderInv, WorkInv, TypeOK', PcInv', HoldInv', Next
    PROVE  WorkInv'
<1>. USE NpConnAssumption DEF Actors
<1>0. /\ pc \in [Actors -> Locations] /\ req \in [Actors -> Reqs \cup {None}]
      /\ reqs \in Seq(Reqs) /\ workreqs \in SUBSET Reqs /\ rq \in [Reqs -> Requests]
  BY DEF TypeOK, Requests
<1>1. ASSUME ReaderStart
      PROVE  WorkInv'
  <2>1. UNCHANGED workreqs /\ \A v \in Workers : req'[v] = req[v] /\ (pc'[v] \in Working <=> pc[v] \in Working)
    BY <1>0, <1>1 DEF ReaderStart, srvVars, thrVars, Go, Working, InReset, PcInv, AtExit
  <2>2. \A v \in Workers : pc'[v] \in InReset \cup {"renew", "newpool"} => pc[v] \in InReset \cup {"renew", "newpool"}
    BY <1>0, <1>1 DEF ReaderStart, Go, InReset
  <2>. QED  BY <2>1, <2>2, WorkSame
<1>2. ASSUME NEW r \in Reqs, NEW kind \in Kinds, ReaderRecv(r, kind)
      PROVE  WorkInv'
  <2>1. UNCHANGED workreqs /\ \A v \in Workers : req'[v] = req[v] /\ (pc'[v] \in Working <=> pc[v] \in Working)
    BY <1>0, <1>2 DEF ReaderRecv, srvVars, thrVars, Go, Working, InReset, PcInv, AtExit
  <2>2. \A v \in Workers : pc'[v] \in InReset \cup {"renew", "newpool"} => pc[v] \in InReset \cup {"renew", "newpool"}
    BY <1>0, <1>2 DEF ReaderRecv, Go, InReset
  <2>. QED  BY <2>1, <2>2, WorkSame
<1>3. ASSUME ReaderCheck
      PROVE  WorkInv'
  <2>1. UNCHANGED workreqs /\ \A v \in Workers : req'[v] = req[v] /\ (pc'[v] \in Working <=> pc[v] \in Working)
    BY <1>0, <1>3 DEF ReaderCheck, srvVars, thrVars, Go, Working, InReset, PcInv, AtExit
  <2>2. \A v \in Workers : pc'[v] \in InReset \cup {"renew", "newpool"} => pc[v] \in InReset \cup {"renew", "newpool"}
    BY <1>0, <1>3 DEF ReaderCheck, Go, InReset
  <2>. QED  BY <2>1, <2>2, WorkSame
<1>4. ASSUME ReaderAlloc
      PROVE  WorkInv'
  <2>1. UNCHANGED workreqs /\ \A v \in Workers : req'[v] = req[v] /\ (pc'[v] \in Working <=> pc[v] \in Working)
    BY <1>0, <1>4 DEF ReaderAlloc, srvVars, thrVars, Go, Working, InReset, PcInv, AtExit
  <2>2. \A v \in Workers : pc'[v] \in InReset \cup {"renew", "newpool"} => pc[v] \in InReset \cup {"renew", "newpool"}
    BY <1>0, <1>4 DEF ReaderAlloc, Go, InReset
  <2>. QED  BY <2>1, <2>2, WorkSame
<1>5. ASSUME ReaderSleep
      PROVE  WorkInv'
  <2>1. UNCHANGED workreqs /\ \A v \in Workers : req'[v] = req[v] /\ (pc'[v] \in Working <=> pc[v] \in Working)
    BY <1>0, <1>5 DEF ReaderSleep, srvVars, thrVars, Go, Working, InReset, PcInv, AtExit
  <2>2. \A v \in Workers : pc'[v] \in InReset \cup {"renew", "newpool"} => pc[v] \in InReset \cup {"renew", "newpool"}
    BY <1>0, <1>5 DEF ReaderSleep, Go, InReset
  <2>. QED  BY <2>1, <2>2, WorkSame
<1>6. ASSUME ReaderAdd
      PROVE  WorkInv'
  <2>1. UNCHANGED workreqs /\ \A v \in Workers : req'[v] = req[v] /\ (pc'[v] \in Working <=> pc[v] \in Working)
    BY <1>0, <1>6 DEF ReaderAdd, srvVars, thrVars, Go, Working, InReset, PcInv, AtExit
  <2>2. \A v \in Workers : pc'[v] \in InReset \cup {"renew", "newpool"} => pc[v] \in InReset \cup {"renew", "newpool"}
    BY <1>0, <1>6 DEF ReaderAdd, Go, InReset
  <2>. QED  BY <2>1, <2>2, WorkSame
<1>7. ASSUME ReaderEnd
      PROVE  WorkInv'
  <2>1. UNCHANGED workreqs /\ \A v \in Workers : req'[v] = req[v] /\ (pc'[v] \in Working <=> pc[v] \in Working)
    BY <1>0, <1>7 DEF ReaderEnd, srvVars, thrVars, Go, Working, InReset, PcInv, AtExit
  <2>2. \A v \in Workers : pc'[v] \in InReset \cup {"renew", "newpool"} => pc[v] \in InReset \cup {"renew", "newpool"}
    BY <1>0, <1>7 DEF ReaderEnd, Go, InReset
  <2>. QED  BY <2>1, <2>2, WorkSame
<1>8. ASSUME ReaderExit
      PROVE  WorkInv'
  <2>1. UNCHANGED workreqs /\ \A v \in Workers : req'[v] = req[v] /\ (pc'[v] \in Working <=> pc[v] \in Working)
    BY <1>0, <1>8 DEF ReaderExit, TakeTrans, srvVars, thrVars, Go, Working, InReset, PcInv, AtExit
  <2>2. \A v \in Workers : pc'[v] \in InReset \cup {"renew", "newpool"} => pc[v] \in InReset \cup {"renew", "newpool"}
    BY <1>0, <1>8 DEF ReaderExit, TakeTrans, Go, InReset
  <2>. QED  BY <2>1, <2>2, WorkSame
<1>9. ASSUME np_srv_remove_conn
      PROVE  WorkInv'
  <2>1. UNCHANGED workreqs /\ \A v \in Workers : req'[v] = req[v] /\ (pc'[v] \in Working <=> pc[v] \in Working)
    BY <1>0, <1>9 DEF np_srv_remove_conn, np_conn_decref, srvVars, thrVars, Go, Working, InReset, PcInv, AtExit
  <2>2. \A v \in Workers : pc'[v] \in InReset \cup {"renew", "newpool"} => pc[v] \in InReset \cup {"renew", "newpool"}
    BY <1>0, <1>9 DEF np_srv_remove_conn, np_conn_decref, Go, InReset
  <2>. QED  BY <2>1, <2>2, WorkSame
<1>10. ASSUME ReaderBye
      PROVE  WorkInv'
  <2>1. UNCHANGED workreqs /\ \A v \in Workers : req'[v] = req[v] /\ (pc'[v] \in Working <=> pc[v] \in Working)
    BY <1>0, <1>10 DEF ReaderBye, np_trans_destroy, srvVars, thrVars, Go, Working, InReset, PcInv, AtExit
  <2>2. \A v \in Workers : pc'[v] \in InReset \cup {"renew", "newpool"} => pc[v] \in InReset \cup {"renew", "newpool"}
    BY <1>0, <1>10 DEF ReaderBye, np_trans_destroy, Go, InReset
  <2>. QED  BY <2>1, <2>2, WorkSame
<1>11. ASSUME ReaderLast
      PROVE  WorkInv'
  <2>1. UNCHANGED workreqs /\ \A v \in Workers : req'[v] = req[v] /\ (pc'[v] \in Working <=> pc[v] \in Working)
    BY <1>0, <1>11 DEF ReaderLast, np_conn_decref, srvVars, thrVars, Go, Working, InReset, PcInv, AtExit
  <2>2. \A v \in Workers : pc'[v] \in InReset \cup {"renew", "newpool"} => pc[v] \in InReset \cup {"renew", "newpool"}
    BY <1>0, <1>11 DEF ReaderLast, np_conn_decref, Go, InReset
  <2>. QED  BY <2>1, <2>2, WorkSame
<1>12. ASSUME NEW a \in Workers \cup {Reader}, ResetBegin(a)
      PROVE  WorkInv'
  <2>1. UNCHANGED workreqs /\ \A v \in Workers : req'[v] = req[v] /\ (pc'[v] \in Working <=> pc[v] \in Working)
    BY <1>0, <1>12 DEF ResetBegin, srvVars, thrVars, Go, Working, InReset, PcInv, AtExit
  <2>2. \A v \in Workers : pc'[v] \in InReset \cup {"renew", "newpool"} => pc[v] \in InReset \cup {"renew", "newpool"}
    BY <1>0, <1>12 DEF ResetBegin, Go, InReset
  <2>. QED  BY <2>1, <2>2, WorkSame
<1>13. ASSUME NEW a \in Workers \cup {Reader}, ResetCollect(a)
      PROVE  WorkInv'
  <2>1. UNCHANGED workreqs /\ \A v \in Workers : req'[v] = req[v] /\ (pc'[v] \in Working <=> pc[v] \in Working)
    BY <1>0, <1>13 DEF ResetCollect, srvVars, thrVars, Go, Working, InReset, PcInv, AtExit
  <2>2. \A v \in Workers : pc'[v] \in InReset \cup {"renew", "newpool"} => pc[v] \in InReset \cup {"renew", "newpool"}
    BY <1>0, <1>13 DEF ResetCollect, Go, InReset
  <2>. QED  BY <2>1, <2>2, WorkSame
<1>14. ASSUME NEW a \in Workers \cup {Reader}, ResetDrop(a)
      PROVE  WorkInv'
  <2>1. UNCHANGED workreqs /\ \A v \in Workers : req'[v] = req[v] /\ (pc'[v] \in Working <=> pc[v] \in Working)
    BY <1>0, <1>14 DEF ResetDrop, srvVars, thrVars, Go, Working, InReset, PcInv, AtExit
  <2>2. \A v \in Workers : pc'[v] \in InReset \cup {"renew", "newpool"} => pc[v] \in InReset \cup {"renew", "newpool"}
    BY <1>0, <1>14 DEF ResetDrop, Go, InReset
  <2>. QED  BY <2>1, <2>2, WorkSame
<1>15. ASSUME NEW a \in Workers \cup {Reader}, ResetWait(a)
      PROVE  WorkInv'
  <2>1. UNCHANGED workreqs /\ \A v \in Workers : req'[v] = req[v] /\ (pc'[v] \in Working <=> pc[v] \in Working)
    BY <1>0, <1>15 DEF ResetWait, srvVars, thrVars, Go, Working, InReset, PcInv, AtExit
  <2>2. \A v \in Workers : pc'[v] \in InReset \cup {"renew", "newpool"} => pc[v] \in InReset \cup {"renew", "newpool"}
    BY <1>0, <1>15 DEF ResetWait, Go, InReset
  <2>. QED  BY <2>1, <2>2, WorkSame
<1>16. ASSUME NEW a \in Workers \cup {Reader}, ResetDestroy(a)
      PROVE  WorkInv'
  <2>1. UNCHANGED workreqs /\ \A v \in Workers : req'[v] = req[v] /\ (pc'[v] \in Working <=> pc[v] \in Working)
    BY <1>0, <1>16 DEF ResetDestroy, srvVars, thrVars, Go, Working, InReset, PcInv, AtExit
  <2>2. \A v \in Workers : pc'[v] \in InReset \cup {"renew", "newpool"} => pc[v] \in InReset \cup {"renew", "newpool"}
    BY <1>0, <1>16 DEF ResetDestroy, Go, InReset
  <2>. QED  BY <2>1, <2>2, WorkSame
<1>17. ASSUME NEW a \in Workers \cup {Reader}, ResetRenew(a)
      PROVE  WorkInv'
  <2>1. UNCHANGED workreqs /\ \A v \in Workers : req'[v] = req[v] /\ (pc'[v] \in Working <=> pc[v] \in Working)
    BY <1>0, <1>17 DEF ResetRenew, srvVars, thrVars, Go, Working, InReset, PcInv, AtExit
  <2>2. \A v \in Workers : pc'[v] \in InReset \cup {"renew", "newpool"} => pc[v] \in InReset \cup {"renew", "newpool"}
    BY <1>0, <1>17 DEF ResetRenew, Go, InReset
  <2>. QED  BY <2>1, <2>2, WorkSame
<1>18. ASSUME NEW a \in Workers \cup {Reader}, ResetPool(a)
      PROVE  WorkInv'
  <2>1. UNCHANGED workreqs /\ \A v \in Workers : req'[v] = req[v] /\ (pc'[v] \in Working <=> pc[v] \in Working)
    BY <1>0, <1>18 DEF ResetPool, srvVars, thrVars, Go, Working, InReset, PcInv, AtExit
  <2>2. \A v \in Workers : pc'[v] \in InReset \cup {"renew", "newpool"} => pc[v] \in InReset \cup {"renew", "newpool"}
    BY <1>0, <1>18 DEF ResetPool, Go, InReset
  <2>. QED  BY <2>1, <2>2, WorkSame
<1>19. ASSUME NEW a \in Workers \cup {Reader}, ResetReopen(a)
      PROVE  WorkInv'
  <2>1. UNCHANGED workreqs /\ \A v \in Workers : req'[v] = req[v] /\ (pc'[v] \in Working <=> pc[v] \in Working)
    BY <1>0, <1>19 DEF ResetReopen, srvVars, thrVars, Go, Working, InReset, PcInv, AtExit
  <2>2. \A v \in Workers : pc'[v] \in InReset \cup {"renew", "newpool"} => pc[v] \in InReset \cup {"renew", "newpool"}
    BY <1>0, <1>19 DEF ResetReopen, Go, InReset
  <2>. QED  BY <2>1, <2>2, WorkSame
<1>20. ASSUME NEW a \in Workers \cup {Reader}, ResetUnkeep(a)
      PROVE  WorkInv'
  <2>1. UNCHANGED workreqs /\ \A v \in Workers : req'[v] = req[v] /\ (pc'[v] \in Working <=> pc[v] \in Working)
    BY <1>0, <1>20 DEF ResetUnkeep, srvVars, thrVars, Go, Working, InReset, PcInv, AtExit
  <2>2. \A v \in Workers : pc'[v] \in InReset \cup {"renew", "newpool"} => pc[v] \in InReset \cup {"renew", "newpool"}
    BY <1>0, <1>20 DEF ResetUnkeep, Go, InReset
  <2>. QED  BY <2>1, <2>2, WorkSame
<1>21. ASSUME NEW w \in Workers, WorkerTake(w)
      PROVE  WorkInv'
  <2>1. /\ workreqs' = workreqs \cup {req'[w]} /\ pc'[w] = "process" /\ req'[w] = Head(reqs) /\ rq' = rq
        /\ \A v \in Workers \ {w} : req'[v] = req[v] /\ pc'[v] = pc[v]
    BY <1>0, <1>21 DEF WorkerTake, Go
  <2>2. pc[w] = "idle" /\ pc[w] \notin Working
    BY <1>21 DEF WorkerTake, Working, InReset
  <2>. QED  BY <2>1, <2>2 DEF WorkInv, Working, InReset
<1>22. ASSUME NEW w \in Workers, Process(w)
      PROVE  WorkInv'
  <2>1. UNCHANGED workreqs /\ \A v \in Workers : req'[v] = req[v] /\ (pc'[v] \in Working <=> pc[v] \in Working)
    BY <1>0, <1>22 DEF Process, srvVars, thrVars, Go, Working, InReset, PcInv, AtExit
  <2>2. \A v \in Workers : pc'[v] \in InReset \cup {"renew", "newpool"} => pc[v] \in InReset \cup {"renew", "newpool"}
    BY <1>0, <1>22 DEF Process, Go, InReset
  <2>. QED  BY <2>1, <2>2, WorkSame
<1>23. ASSUME NEW w \in Workers, np_version(w)
      PROVE  WorkInv'
  <2>1. UNCHANGED <<workreqs, req, rq>> /\ (pc'[w] = "reset" \/ pc'[w] = "unlink") /\ rq[req[w]].kind = "version"
        /\ pc[w] = "process" /\ \A v \in Workers \ {w} : pc'[v] = pc[v]
    BY <1>0, <1>23 DEF np_version, Go, srvVars, thrVars
  <2>. QED  BY <2>1 DEF WorkInv, Working, InReset
<1>24. ASSUME NEW w \in Workers, RespondUnlink(w)
      PROVE  WorkInv'
  <2>1. /\ workreqs' = workreqs \ {req[w]} /\ pc'[w] = "fid" /\ req' = req /\ rq' = rq
        /\ \A v \in Workers \ {w} : pc'[v] = pc[v]
    BY <1>0, <1>24 DEF RespondUnlink, Go, thrVars
  <2>2. \A v \in Workers \ {w} : pc[v] \in Working => req[v] # req[w]
    <3>1. Has(w, req[w]) /\ req[w] \in Reqs
      BY <1>0, <1>24 DEF RespondUnlink, Has, PcInv
    <3>. QED  BY <3>1 DEF Working, InReset, HoldInv, OneOwner, Has
  <2>3. "fid" \notin Working
    BY DEF Working, InReset
  <2>4. \A r \in Reqs : r \in workreqs' <=> \E v \in Workers : req'[v] = r /\ pc'[v] \in Working
    BY <2>1, <2>2, <2>3 DEF WorkInv
  <2>. QED  BY <2>1, <2>4 DEF WorkInv, Working, InReset
<1>25. ASSUME NEW w \in Workers, RespondFid(w)
      PROVE  WorkInv'
  <2>1. UNCHANGED workreqs /\ \A v \in Workers : req'[v] = req[v] /\ (pc'[v] \in Working <=> pc[v] \in Working)
    BY <1>0, <1>25 DEF RespondFid, srvVars, thrVars, Go, Working, InReset, PcInv, AtExit
  <2>2. \A v \in Workers : pc'[v] \in InReset \cup {"renew", "newpool"} => pc[v] \in InReset \cup {"renew", "newpool"}
    BY <1>0, <1>25 DEF RespondFid, Go, InReset
  <2>. QED  BY <2>1, <2>2, WorkSame
<1>26. ASSUME NEW w \in Workers, RespondSend(w)
      PROVE  WorkInv'
  <2>1. UNCHANGED workreqs /\ \A v \in Workers : req'[v] = req[v] /\ (pc'[v] \in Working <=> pc[v] \in Working)
    BY <1>0, <1>26 DEF RespondSend, srvVars, thrVars, Go, Working, InReset, PcInv, AtExit
  <2>2. \A v \in Workers : pc'[v] \in InReset \cup {"renew", "newpool"} => pc[v] \in InReset \cup {"renew", "newpool"}
    BY <1>0, <1>26 DEF RespondSend, Go, InReset
  <2>. QED  BY <2>1, <2>2, WorkSame
<1>27. ASSUME NEW w \in Workers, RespondWrite(w)
      PROVE  WorkInv'
  <2>1. UNCHANGED workreqs /\ \A v \in Workers : req'[v] = req[v] /\ (pc'[v] \in Working <=> pc[v] \in Working)
    BY <1>0, <1>27 DEF RespondWrite, TakeTrans, srvVars, thrVars, Go, Working, InReset, PcInv, AtExit
  <2>2. \A v \in Workers : pc'[v] \in InReset \cup {"renew", "newpool"} => pc[v] \in InReset \cup {"renew", "newpool"}
    BY <1>0, <1>27 DEF RespondWrite, TakeTrans, Go, InReset
  <2>. QED  BY <2>1, <2>2, WorkSame
<1>28. ASSUME NEW w \in Workers, RespondSignal(w)
      PROVE  WorkInv'
  <2>1. UNCHANGED workreqs /\ \A v \in Workers : req'[v] = req[v] /\ (pc'[v] \in Working <=> pc[v] \in Working)
    BY <1>0, <1>28 DEF RespondSignal, np_trans_destroy, srvVars, thrVars, Go, Working, InReset, PcInv, AtExit
  <2>2. \A v \in Workers : pc'[v] \in InReset \cup {"renew", "newpool"} => pc[v] \in InReset \cup {"renew", "newpool"}
    BY <1>0, <1>28 DEF RespondSignal, np_trans_destroy, Go, InReset
  <2>. QED  BY <2>1, <2>2, WorkSame
<1>29. ASSUME NEW w \in Workers, RespondUnref(w)
      PROVE  WorkInv'
  <2>1. UNCHANGED workreqs /\ pc[w] = "unref" /\ pc'[w] = "idle"
        /\ \A v \in Workers \ {w} : req'[v] = req[v] /\ pc'[v] = pc[v]
    BY <1>0, <1>29 DEF RespondUnref, srvVars, Go
  <2>2. ASSUME NEW v \in Workers, pc'[v] \in InReset \cup {"renew", "newpool"} PROVE rq'[req'[v]].kind = "version"
    <3>1. v # w /\ req'[v] = req[v] /\ pc'[v] = pc[v] /\ pc[v] # "idle" /\ pc[v] \notin {"check", "alloc"}
      BY <2>1, <2>2 DEF InReset
    <3>2. req[v] \in Reqs /\ rq[req[v]].refs > 0 /\ rq'[req[v]].refs > 0
      BY <3>1, HeldRefs, HeldRefsNext DEF RefsHeld, PcInv
    <3>. QED  BY <2>2, <3>1, <3>2, KindKept DEF WorkInv
  <2>3. \A r \in Reqs : r \in workreqs' <=> \E v \in Workers : req'[v] = r /\ pc'[v] \in Working
    BY <2>1 DEF WorkInv, Working, InReset
  <2>. QED  BY <2>2, <2>3 DEF WorkInv
<1>30. ASSUME NEW shutconns \in BOOLEAN, np_srv_shutdown(shutconns)
      PROVE  WorkInv'
  <2>1. UNCHANGED workreqs /\ \A v \in Workers : req'[v] = req[v] /\ (pc'[v] \in Working <=> pc[v] \in Working)
    BY <1>0, <1>30 DEF np_srv_shutdown, srvVars, thrVars, Go, Working, InReset, PcInv, AtExit
  <2>2. \A v \in Workers : pc'[v] \in InReset \cup {"renew", "newpool"} => pc[v] \in InReset \cup {"renew", "newpool"}
    BY <1>0, <1>30 DEF np_srv_shutdown, Go, InReset
  <2>. QED  BY <2>1, <2>2, WorkSame
<1>31. ASSUME np_conn_shutdown
      PROVE  WorkInv'
  <2>1. UNCHANGED workreqs /\ \A v \in Workers : req'[v] = req[v] /\ (pc'[v] \in Working <=> pc[v] \in Working)
    BY <1>0, <1>31 DEF np_conn_shutdown, srvVars, thrVars, Go, Working, InReset, PcInv, AtExit
  <2>2. \A v \in Workers : pc'[v] \in InReset \cup {"renew", "newpool"} => pc[v] \in InReset \cup {"renew", "newpool"}
    BY <1>0, <1>31 DEF np_conn_shutdown, Go, InReset
  <2>. QED  BY <2>1, <2>2, WorkSame
<1>32. ASSUME StopperDecref
      PROVE  WorkInv'
  <2>1. UNCHANGED workreqs /\ \A v \in Workers : req'[v] = req[v] /\ (pc'[v] \in Working <=> pc[v] \in Working)
    BY <1>0, <1>32 DEF StopperDecref, np_conn_decref, srvVars, thrVars, Go, Working, InReset, PcInv, AtExit
  <2>2. \A v \in Workers : pc'[v] \in InReset \cup {"renew", "newpool"} => pc[v] \in InReset \cup {"renew", "newpool"}
    BY <1>0, <1>32 DEF StopperDecref, np_conn_decref, Go, InReset
  <2>. QED  BY <2>1, <2>2, WorkSame
<1>. QED
  BY <1>1, <1>2, <1>3, <1>4, <1>5, <1>6, <1>7, <1>8, <1>9, <1>10, <1>11, <1>12,
     <1>13, <1>14, <1>15, <1>16, <1>17, <1>18, <1>19, <1>20, <1>21, <1>22,
     <1>23, <1>24, <1>25, <1>26, <1>27, <1>28, <1>29, <1>30, <1>31, <1>32
     DEF Next, np_conn_read_proc, Worker, np_conn_reset

----------------------------------------------------------------------------
(* The reader, and the count of the connection *)

\* The request that has just been read has no references, and none of the others gives it one.
LEMMA FreshKeeps ==
    ASSUME TypeOK, PcInv, HoldInv, ReaderInv, WorkInv, Next, pc[Reader] \in {"check", "alloc"},
           pc'[Reader] \in {"check", "alloc"}
    PROVE  rq'[req'[Reader]].refs = 0
<1>. USE NpConnAssumption DEF Actors
<1>0. /\ pc \in [Actors -> Locations] /\ req \in [Actors -> Reqs \cup {None}]
      /\ reqs \in Seq(Reqs) /\ workreqs \in SUBSET Reqs /\ rq \in [Reqs -> Requests]
      /\ trans \in BOOLEAN /\ listed \in BOOLEAN /\ refcount \in Nat /\ Cardinality(Live) \in Nat
  BY Finite DEF TypeOK, Requests
<1>99. req[Reader] \in Reqs /\ rq[req[Reader]].refs = 0 /\ pc[Reader] \in {"check", "alloc"}
  BY <1>0 DEF PcInv, ReaderInv
<1>1. ASSUME ReaderStart
      PROVE  rq'[req'[Reader]].refs = 0
  BY <1>0, <1>1, <1>99 DEF ReaderStart, PcInv, Go, thrVars
<1>2. ASSUME NEW r \in Reqs, NEW kind \in Kinds, ReaderRecv(r, kind)
      PROVE  rq'[req'[Reader]].refs = 0
  BY <1>0, <1>2, <1>99 DEF ReaderRecv, PcInv, Go, thrVars
<1>3. ASSUME ReaderCheck
      PROVE  rq'[req'[Reader]].refs = 0
  BY <1>0, <1>3, <1>99 DEF ReaderCheck, PcInv, Go, thrVars
<1>4. ASSUME ReaderAlloc
      PROVE  rq'[req'[Reader]].refs = 0
  BY <1>0, <1>4, <1>99 DEF ReaderAlloc, PcInv, Go, thrVars
<1>5. ASSUME ReaderSleep
      PROVE  rq'[req'[Reader]].refs = 0
  BY <1>0, <1>5, <1>99 DEF ReaderSleep, PcInv, Go, thrVars
<1>6. ASSUME ReaderAdd
      PROVE  rq'[req'[Reader]].refs = 0
  BY <1>0, <1>6, <1>99 DEF ReaderAdd, PcInv, Go, thrVars
<1>7. ASSUME ReaderEnd
      PROVE  rq'[req'[Reader]].refs = 0
  BY <1>0, <1>7, <1>99 DEF ReaderEnd, PcInv, Go, thrVars
<1>8. ASSUME ReaderExit
      PROVE  rq'[req'[Reader]].refs = 0
  BY <1>0, <1>8, <1>99 DEF ReaderExit, TakeTrans, PcInv, Go, thrVars
<1>9. ASSUME np_srv_remove_conn
      PROVE  rq'[req'[Reader]].refs = 0
  BY <1>0, <1>9, <1>99 DEF np_srv_remove_conn, np_conn_decref, PcInv, Go, thrVars
<1>10. ASSUME ReaderBye
      PROVE  rq'[req'[Reader]].refs = 0
  BY <1>0, <1>10, <1>99 DEF ReaderBye, np_trans_destroy, PcInv, Go, thrVars
<1>11. ASSUME ReaderLast
      PROVE  rq'[req'[Reader]].refs = 0
  BY <1>0, <1>11, <1>99 DEF ReaderLast, np_conn_decref, PcInv, Go, thrVars
<1>12. ASSUME NEW a \in Workers \cup {Reader}, ResetBegin(a)
      PROVE  rq'[req'[Reader]].refs = 0
  BY <1>0, <1>12, <1>99 DEF ResetBegin, PcInv, Go, thrVars
<1>13. ASSUME NEW a \in Workers \cup {Reader}, ResetCollect(a)
      PROVE  rq'[req'[Reader]].refs = 0
  <2>1. req[Reader] \notin workreqs
    <3>1. ASSUME req[Reader] \in workreqs PROVE FALSE
      <4>1. PICK v \in Workers : req[v] = req[Reader] /\ pc[v] \in Working
        BY <1>99, <3>1 DEF WorkInv
      <4>. QED  BY <1>99, <4>1, HeldRefs DEF RefsHeld, PcInv, Working, InReset
    <3>. QED  BY <3>1
  <2>. QED  BY <1>0, <1>13, <1>99, <2>1 DEF ResetCollect, Awaited
<1>14. ASSUME NEW a \in Workers \cup {Reader}, ResetDrop(a)
      PROVE  rq'[req'[Reader]].refs = 0
  <2>1. preqs[a] \in SUBSET Reqs /\ \A s \in preqs[a] : rq[s].refs > 0
    BY <1>14, HeldRefs DEF RefsHeld, PcInv, ResetDrop
  <2>2. req'[Reader] \notin preqs[a] /\ req'[Reader] \in Reqs /\ rq[req'[Reader]].refs = 0
    BY <1>0, <1>14, <1>99, <2>1 DEF ResetDrop
  <2>. QED  BY <1>14, <2>1, <2>2, UnrefIs DEF ResetDrop
<1>15. ASSUME NEW a \in Workers \cup {Reader}, ResetWait(a)
      PROVE  rq'[req'[Reader]].refs = 0
  BY <1>0, <1>15, <1>99 DEF ResetWait, PcInv, Go, thrVars
<1>16. ASSUME NEW a \in Workers \cup {Reader}, ResetDestroy(a)
      PROVE  rq'[req'[Reader]].refs = 0
  BY <1>0, <1>16, <1>99 DEF ResetDestroy, PcInv, Go, thrVars
<1>17. ASSUME NEW a \in Workers \cup {Reader}, ResetRenew(a)
      PROVE  rq'[req'[Reader]].refs = 0
  BY <1>0, <1>17, <1>99 DEF ResetRenew, PcInv, Go, thrVars
<1>18. ASSUME NEW a \in Workers \cup {Reader}, ResetPool(a)
      PROVE  rq'[req'[Reader]].refs = 0
  BY <1>0, <1>18, <1>99 DEF ResetPool, PcInv, Go, thrVars
<1>19. ASSUME NEW a \in Workers \cup {Reader}, ResetReopen(a)
      PROVE  rq'[req'[Reader]].refs = 0
  BY <1>0, <1>19, <1>99 DEF ResetReopen, PcInv, Go, thrVars
<1>20. ASSUME NEW a \in Workers \cup {Reader}, ResetUnkeep(a)
      PROVE  rq'[req'[Reader]].refs = 0
  <2>1. kept[a] \in SUBSET Reqs /\ \A s \in kept[a] : rq[s].refs > 0
    BY <1>20, HeldRefs DEF RefsHeld, PcInv, ResetUnkeep
  <2>2. req'[Reader] \notin kept[a] /\ req'[Reader] \in Reqs /\ rq[req'[Reader]].refs = 0
    BY <1>0, <1>20, <1>99, <2>1 DEF ResetUnkeep
  <2>. QED  BY <1>20, <2>1, <2>2, UnrefIs DEF ResetUnkeep
<1>21. ASSUME NEW w \in Workers, WorkerTake(w)
      PROVE  rq'[req'[Reader]].refs = 0
  BY <1>0, <1>21, <1>99 DEF WorkerTake, PcInv, Go, thrVars
<1>22. ASSUME NEW w \in Workers, Process(w)
      PROVE  rq'[req'[Reader]].refs = 0
  <2>1. req[w] \in Reqs /\ rq[req[w]] \in Requests
    BY <1>0, <1>22 DEF Process, PcInv
  <2>. QED  BY <1>0, <1>22, <1>99, <2>1 DEF Process, thrVars, Requests
<1>23. ASSUME NEW w \in Workers, np_version(w)
      PROVE  rq'[req'[Reader]].refs = 0
  BY <1>0, <1>23, <1>99 DEF np_version, PcInv, Go, thrVars
<1>24. ASSUME NEW w \in Workers, RespondUnlink(w)
      PROVE  rq'[req'[Reader]].refs = 0
  BY <1>0, <1>24, <1>99 DEF RespondUnlink, PcInv, Go, thrVars
<1>25. ASSUME NEW w \in Workers, RespondFid(w)
      PROVE  rq'[req'[Reader]].refs = 0
  <2>1. req[w] \in Reqs /\ rq[req[w]] \in Requests
    BY <1>0, <1>25 DEF RespondFid, PcInv
  <2>. QED  BY <1>0, <1>25, <1>99, <2>1 DEF RespondFid, thrVars, Requests
<1>26. ASSUME NEW w \in Workers, RespondSend(w)
      PROVE  rq'[req'[Reader]].refs = 0
  BY <1>0, <1>26, <1>99 DEF RespondSend, PcInv, Go, thrVars
<1>27. ASSUME NEW w \in Workers, RespondWrite(w)
      PROVE  rq'[req'[Reader]].refs = 0
  BY <1>0, <1>27, <1>99 DEF RespondWrite, TakeTrans, PcInv, Go, thrVars
<1>28. ASSUME NEW w \in Workers, RespondSignal(w)
      PROVE  rq'[req'[Reader]].refs = 0
  BY <1>0, <1>28, <1>99 DEF RespondSignal, np_trans_destroy, PcInv, Go, thrVars
<1>29. ASSUME NEW w \in Workers, RespondUnref(w)
      PROVE  rq'[req'[Reader]].refs = 0
  <2>1. {req[w]} \in SUBSET Reqs /\ \A s \in {req[w]} : rq[s].refs > 0
    BY <1>29, HeldRefs DEF RefsHeld, PcInv, RespondUnref
  <2>2. req'[Reader] \notin {req[w]} /\ req'[Reader] \in Reqs /\ rq[req'[Reader]].refs = 0
    BY <1>0, <1>29, <1>99, <2>1 DEF RespondUnref
  <2>. QED  BY <1>29, <2>1, <2>2, UnrefIs DEF RespondUnref
<1>30. ASSUME NEW shutconns \in BOOLEAN, np_srv_shutdown(shutconns)
      PROVE  rq'[req'[Reader]].refs = 0
  BY <1>0, <1>30, <1>99 DEF np_srv_shutdown, PcInv, Go, thrVars
<1>31. ASSUME np_conn_shutdown
      PROVE  rq'[req'[Reader]].refs = 0
  BY <1>0, <1>31, <1>99 DEF np_conn_shutdown, PcInv, Go, thrVars
<1>32. ASSUME StopperDecref
      PROVE  rq'[req'[Reader]].refs = 0
  BY <1>0, <1>32, <1>99 DEF StopperDecref, np_conn_decref, PcInv, Go, thrVars
<1>. QED
  BY <1>1, <1>2, <1>3, <1>4, <1>5, <1>6, <1>7, <1>8, <1>9, <1>10, <1>11, <1>12,
     <1>13, <1>14, <1>15, <1>16, <1>17, <1>18, <1>19, <1>20, <1>21, <1>22,
     <1>23, <1>24, <1>25, <1>26, <1>27, <1>28, <1>29, <1>30, <1>31, <1>32
     DEF Next, np_conn_read_proc, Worker, np_conn_reset

\* Every step keeps ReaderInv.
LEMMA ReaderKeeps ==
    ASSUME TypeOK, PcInv, HoldInv, WorkInv, ReaderInv, Next
    PROVE  ReaderInv'
<1>. USE NpConnAssumption DEF Actors
<1>0. /\ pc \in [Actors -> Locations] /\ req \in [Actors -> Reqs \cup {None}]
      /\ reqs \in Seq(Reqs) /\ workreqs \in SUBSET Reqs /\ rq \in [Reqs -> Requests]
      /\ trans \in BOOLEAN /\ listed \in BOOLEAN /\ refcount \in Nat /\ Cardinality(Live) \in Nat
  BY Finite DEF TypeOK, Requests
<1>1. ASSUME ReaderStart
      PROVE  ReaderInv'
  <2>1. pc'[Reader] = "start" =>
          reqs' = <<>> /\ (\A v \in Workers : pc'[v] = "idle") /\ (EarlyShutdown \/ pc'[Stopper] = "idle")
    BY <1>0, <1>1 DEF ReaderStart, Go, ReaderInv, PcInv, srvVars
  <2>2. pc'[Reader] \in {"check", "alloc"} => rq'[req'[Reader]].refs = 0
    BY <1>0, <1>1, FreshKeeps DEF ReaderStart, Go
  <2>3. pc'[Reader] \in AtExit \cup {"last", "gone"} => ~trans'
    BY <1>0, <1>1 DEF ReaderStart, Go, ReaderInv, AtExit, InReset, connVars
  <2>4. pc'[Reader] \in (AtExit \ {"remove", "reset", "collect"}) \cup {"last", "gone"} => reqs' = <<>>
    BY <1>0, <1>1 DEF ReaderStart, Go, ReaderInv, AtExit, InReset, srvVars
  <2>5. pc'[Reader] \in {"destroy", "reopen", "unkeep", "bye", "last", "gone"} => workreqs' = {}
    BY <1>0, <1>1 DEF ReaderStart, Go, ReaderInv, AtExit, InReset, srvVars
  <2>. QED  BY <2>1, <2>2, <2>3, <2>4, <2>5 DEF ReaderInv
<1>2. ASSUME NEW r \in Reqs, NEW kind \in Kinds, ReaderRecv(r, kind)
      PROVE  ReaderInv'
  <2>1. pc'[Reader] = "start" =>
          reqs' = <<>> /\ (\A v \in Workers : pc'[v] = "idle") /\ (EarlyShutdown \/ pc'[Stopper] = "idle")
    BY <1>0, <1>2 DEF ReaderRecv, Go, ReaderInv, PcInv, srvVars
  <2>2. pc'[Reader] \in {"check", "alloc"} => rq'[req'[Reader]].refs = 0
    BY <1>0, <1>2, FreshKeeps DEF Requests, ReaderRecv, Go
  <2>3. pc'[Reader] \in AtExit \cup {"last", "gone"} => ~trans'
    BY <1>0, <1>2 DEF ReaderRecv, Go, ReaderInv, AtExit, InReset, connVars
  <2>4. pc'[Reader] \in (AtExit \ {"remove", "reset", "collect"}) \cup {"last", "gone"} => reqs' = <<>>
    BY <1>0, <1>2 DEF ReaderRecv, Go, ReaderInv, AtExit, InReset, srvVars
  <2>5. pc'[Reader] \in {"destroy", "reopen", "unkeep", "bye", "last", "gone"} => workreqs' = {}
    BY <1>0, <1>2 DEF ReaderRecv, Go, ReaderInv, AtExit, InReset, srvVars
  <2>. QED  BY <2>1, <2>2, <2>3, <2>4, <2>5 DEF ReaderInv
<1>3. ASSUME ReaderCheck
      PROVE  ReaderInv'
  <2>1. pc'[Reader] = "start" =>
          reqs' = <<>> /\ (\A v \in Workers : pc'[v] = "idle") /\ (EarlyShutdown \/ pc'[Stopper] = "idle")
    BY <1>0, <1>3 DEF ReaderCheck, Go, ReaderInv, PcInv, srvVars
  <2>2. pc'[Reader] \in {"check", "alloc"} => rq'[req'[Reader]].refs = 0
    BY <1>0, <1>3, FreshKeeps DEF ReaderCheck, Go
  <2>3. pc'[Reader] \in AtExit \cup {"last", "gone"} => ~trans'
    BY <1>0, <1>3 DEF ReaderCheck, Go, ReaderInv, AtExit, InReset, connVars
  <2>4. pc'[Reader] \in (AtExit \ {"remove", "reset", "collect"}) \cup {"last", "gone"} => reqs' = <<>>
    BY <1>0, <1>3 DEF ReaderCheck, Go, ReaderInv, AtExit, InReset, srvVars
  <2>5. pc'[Reader] \in {"destroy", "reopen", "unkeep", "bye", "last", "gone"} => workreqs' = {}
    BY <1>0, <1>3 DEF ReaderCheck, Go, ReaderInv, AtExit, InReset, srvVars
  <2>. QED  BY <2>1, <2>2, <2>3, <2>4, <2>5 DEF ReaderInv
<1>4. ASSUME ReaderAlloc
      PROVE  ReaderInv'
  <2>1. pc'[Reader] = "start" =>
          reqs' = <<>> /\ (\A v \in Workers : pc'[v] = "idle") /\ (EarlyShutdown \/ pc'[Stopper] = "idle")
    BY <1>0, <1>4 DEF ReaderAlloc, Go, ReaderInv, PcInv, srvVars
  <2>2. pc'[Reader] \in {"check", "alloc"} => rq'[req'[Reader]].refs = 0
    BY <1>0, <1>4, FreshKeeps DEF ReaderAlloc, Go
  <2>3. pc'[Reader] \in AtExit \cup {"last", "gone"} => ~trans'
    BY <1>0, <1>4 DEF ReaderAlloc, Go, ReaderInv, AtExit, InReset, connVars
  <2>4. pc'[Reader] \in (AtExit \ {"remove", "reset", "collect"}) \cup {"last", "gone"} => reqs' = <<>>
    BY <1>0, <1>4 DEF ReaderAlloc, Go, ReaderInv, AtExit, InReset, srvVars
  <2>5. pc'[Reader] \in {"destroy", "reopen", "unkeep", "bye", "last", "gone"} => workreqs' = {}
    BY <1>0, <1>4 DEF ReaderAlloc, Go, ReaderInv, AtExit, InReset, srvVars
  <2>. QED  BY <2>1, <2>2, <2>3, <2>4, <2>5 DEF ReaderInv
<1>5. ASSUME ReaderSleep
      PROVE  ReaderInv'
  <2>1. pc'[Reader] = "start" =>
          reqs' = <<>> /\ (\A v \in Workers : pc'[v] = "idle") /\ (EarlyShutdown \/ pc'[Stopper] = "idle")
    BY <1>0, <1>5 DEF ReaderSleep, Go, ReaderInv, PcInv, srvVars
  <2>2. pc'[Reader] \in {"check", "alloc"} => rq'[req'[Reader]].refs = 0
    BY <1>0, <1>5, FreshKeeps DEF ReaderSleep, Go
  <2>3. pc'[Reader] \in AtExit \cup {"last", "gone"} => ~trans'
    BY <1>0, <1>5 DEF ReaderSleep, Go, ReaderInv, AtExit, InReset, connVars
  <2>4. pc'[Reader] \in (AtExit \ {"remove", "reset", "collect"}) \cup {"last", "gone"} => reqs' = <<>>
    BY <1>0, <1>5 DEF ReaderSleep, Go, ReaderInv, AtExit, InReset, srvVars
  <2>5. pc'[Reader] \in {"destroy", "reopen", "unkeep", "bye", "last", "gone"} => workreqs' = {}
    BY <1>0, <1>5 DEF ReaderSleep, Go, ReaderInv, AtExit, InReset, srvVars
  <2>. QED  BY <2>1, <2>2, <2>3, <2>4, <2>5 DEF ReaderInv
<1>6. ASSUME ReaderAdd
      PROVE  ReaderInv'
  <2>1. pc'[Reader] = "start" =>
          reqs' = <<>> /\ (\A v \in Workers : pc'[v] = "idle") /\ (EarlyShutdown \/ pc'[Stopper] = "idle")
    BY <1>0, <1>6 DEF ReaderAdd, Go, ReaderInv, PcInv, srvVars
  <2>2. pc'[Reader] \in {"check", "alloc"} => rq'[req'[Reader]].refs = 0
    BY <1>0, <1>6, FreshKeeps DEF ReaderAdd, Go
  <2>3. pc'[Reader] \in AtExit \cup {"last", "gone"} => ~trans'
    BY <1>0, <1>6 DEF ReaderAdd, Go, ReaderInv, AtExit, InReset, connVars
  <2>4. pc'[Reader] \in (AtExit \ {"remove", "reset", "collect"}) \cup {"last", "gone"} => reqs' = <<>>
    BY <1>0, <1>6 DEF ReaderAdd, Go, ReaderInv, AtExit, InReset, srvVars
  <2>5. pc'[Reader] \in {"destroy", "reopen", "unkeep", "bye", "last", "gone"} => workreqs' = {}
    BY <1>0, <1>6 DEF ReaderAdd, Go, ReaderInv, AtExit, InReset, srvVars
  <2>. QED  BY <2>1, <2>2, <2>3, <2>4, <2>5 DEF ReaderInv
<1>7. ASSUME ReaderEnd
      PROVE  ReaderInv'
  <2>1. pc'[Reader] = "start" =>
          reqs' = <<>> /\ (\A v \in Workers : pc'[v] = "idle") /\ (EarlyShutdown \/ pc'[Stopper] = "idle")
    BY <1>0, <1>7 DEF ReaderEnd, Go, ReaderInv, PcInv, srvVars
  <2>2. pc'[Reader] \in {"check", "alloc"} => rq'[req'[Reader]].refs = 0
    BY <1>0, <1>7, FreshKeeps DEF ReaderEnd, Go
  <2>3. pc'[Reader] \in AtExit \cup {"last", "gone"} => ~trans'
    BY <1>0, <1>7 DEF ReaderEnd, Go, ReaderInv, AtExit, InReset, connVars
  <2>4. pc'[Reader] \in (AtExit \ {"remove", "reset", "collect"}) \cup {"last", "gone"} => reqs' = <<>>
    BY <1>0, <1>7 DEF ReaderEnd, Go, ReaderInv, AtExit, InReset, srvVars
  <2>5. pc'[Reader] \in {"destroy", "reopen", "unkeep", "bye", "last", "gone"} => workreqs' = {}
    BY <1>0, <1>7 DEF ReaderEnd, Go, ReaderInv, AtExit, InReset, srvVars
  <2>. QED  BY <2>1, <2>2, <2>3, <2>4, <2>5 DEF ReaderInv
<1>8. ASSUME ReaderExit
      PROVE  ReaderInv'
  <2>1. pc'[Reader] = "start" =>
          reqs' = <<>> /\ (\A v \in Workers : pc'[v] = "idle") /\ (EarlyShutdown \/ pc'[Stopper] = "idle")
    BY <1>0, <1>8 DEF ReaderExit, TakeTrans, Go, ReaderInv, PcInv, srvVars
  <2>2. pc'[Reader] \in {"check", "alloc"} => rq'[req'[Reader]].refs = 0
    BY <1>0, <1>8, FreshKeeps DEF ReaderExit, TakeTrans, Go
  <2>3. pc'[Reader] \in AtExit \cup {"last", "gone"} => ~trans'
    BY <1>0, <1>8 DEF ReaderExit, TakeTrans, Go, ReaderInv, AtExit, InReset, connVars
  <2>4. pc'[Reader] \in (AtExit \ {"remove", "reset", "collect"}) \cup {"last", "gone"} => reqs' = <<>>
    BY <1>0, <1>8 DEF ReaderExit, TakeTrans, Go, ReaderInv, AtExit, InReset, srvVars
  <2>5. pc'[Reader] \in {"destroy", "reopen", "unkeep", "bye", "last", "gone"} => workreqs' = {}
    BY <1>0, <1>8 DEF ReaderExit, TakeTrans, Go, ReaderInv, AtExit, InReset, srvVars
  <2>. QED  BY <2>1, <2>2, <2>3, <2>4, <2>5 DEF ReaderInv
<1>9. ASSUME np_srv_remove_conn
      PROVE  ReaderInv'
  <2>1. pc'[Reader] = "start" =>
          reqs' = <<>> /\ (\A v \in Workers : pc'[v] = "idle") /\ (EarlyShutdown \/ pc'[Stopper] = "idle")
    BY <1>0, <1>9 DEF np_srv_remove_conn, np_conn_decref, Go, ReaderInv, PcInv, srvVars
  <2>2. pc'[Reader] \in {"check", "alloc"} => rq'[req'[Reader]].refs = 0
    BY <1>0, <1>9, FreshKeeps DEF np_srv_remove_conn, np_conn_decref, Go
  <2>3. pc'[Reader] \in AtExit \cup {"last", "gone"} => ~trans'
    BY <1>0, <1>9 DEF np_srv_remove_conn, np_conn_decref, Go, ReaderInv, AtExit, InReset, connVars
  <2>4. pc'[Reader] \in (AtExit \ {"remove", "reset", "collect"}) \cup {"last", "gone"} => reqs' = <<>>
    BY <1>0, <1>9 DEF np_srv_remove_conn, np_conn_decref, Go, ReaderInv, AtExit, InReset, srvVars
  <2>5. pc'[Reader] \in {"destroy", "reopen", "unkeep", "bye", "last", "gone"} => workreqs' = {}
    BY <1>0, <1>9 DEF np_srv_remove_conn, np_conn_decref, Go, ReaderInv, AtExit, InReset, srvVars
  <2>. QED  BY <2>1, <2>2, <2>3, <2>4, <2>5 DEF ReaderInv
<1>10. ASSUME ReaderBye
      PROVE  ReaderInv'
  <2>1. pc'[Reader] = "start" =>
          reqs' = <<>> /\ (\A v \in Workers : pc'[v] = "idle") /\ (EarlyShutdown \/ pc'[Stopper] = "idle")
    BY <1>0, <1>10 DEF ReaderBye, np_trans_destroy, Go, ReaderInv, PcInv, srvVars
  <2>2. pc'[Reader] \in {"check", "alloc"} => rq'[req'[Reader]].refs = 0
    BY <1>0, <1>10, FreshKeeps DEF ReaderBye, np_trans_destroy, Go
  <2>3. pc'[Reader] \in AtExit \cup {"last", "gone"} => ~trans'
    BY <1>0, <1>10 DEF ReaderBye, np_trans_destroy, Go, ReaderInv, AtExit, InReset, connVars
  <2>4. pc'[Reader] \in (AtExit \ {"remove", "reset", "collect"}) \cup {"last", "gone"} => reqs' = <<>>
    BY <1>0, <1>10 DEF ReaderBye, np_trans_destroy, Go, ReaderInv, AtExit, InReset, srvVars
  <2>5. pc'[Reader] \in {"destroy", "reopen", "unkeep", "bye", "last", "gone"} => workreqs' = {}
    BY <1>0, <1>10 DEF ReaderBye, np_trans_destroy, Go, ReaderInv, AtExit, InReset, srvVars
  <2>. QED  BY <2>1, <2>2, <2>3, <2>4, <2>5 DEF ReaderInv
<1>11. ASSUME ReaderLast
      PROVE  ReaderInv'
  <2>1. pc'[Reader] = "start" =>
          reqs' = <<>> /\ (\A v \in Workers : pc'[v] = "idle") /\ (EarlyShutdown \/ pc'[Stopper] = "idle")
    BY <1>0, <1>11 DEF ReaderLast, np_conn_decref, Go, ReaderInv, PcInv, srvVars
  <2>2. pc'[Reader] \in {"check", "alloc"} => rq'[req'[Reader]].refs = 0
    BY <1>0, <1>11, FreshKeeps DEF ReaderLast, np_conn_decref, Go
  <2>3. pc'[Reader] \in AtExit \cup {"last", "gone"} => ~trans'
    BY <1>0, <1>11 DEF ReaderLast, np_conn_decref, Go, ReaderInv, AtExit, InReset, connVars
  <2>4. pc'[Reader] \in (AtExit \ {"remove", "reset", "collect"}) \cup {"last", "gone"} => reqs' = <<>>
    BY <1>0, <1>11 DEF ReaderLast, np_conn_decref, Go, ReaderInv, AtExit, InReset, srvVars
  <2>5. pc'[Reader] \in {"destroy", "reopen", "unkeep", "bye", "last", "gone"} => workreqs' = {}
    BY <1>0, <1>11 DEF ReaderLast, np_conn_decref, Go, ReaderInv, AtExit, InReset, srvVars
  <2>. QED  BY <2>1, <2>2, <2>3, <2>4, <2>5 DEF ReaderInv
<1>12. ASSUME NEW a \in Workers \cup {Reader}, ResetBegin(a)
      PROVE  ReaderInv'
  <2>1. pc'[Reader] = "start" =>
          reqs' = <<>> /\ (\A v \in Workers : pc'[v] = "idle") /\ (EarlyShutdown \/ pc'[Stopper] = "idle")
    BY <1>0, <1>12 DEF ResetBegin, Go, ReaderInv, PcInv, srvVars
  <2>2. pc'[Reader] \in {"check", "alloc"} => rq'[req'[Reader]].refs = 0
    BY <1>0, <1>12, FreshKeeps DEF ResetBegin, Go
  <2>3. pc'[Reader] \in AtExit \cup {"last", "gone"} => ~trans'
    BY <1>0, <1>12 DEF ResetBegin, Go, ReaderInv, AtExit, InReset, connVars
  <2>4. pc'[Reader] \in (AtExit \ {"remove", "reset", "collect"}) \cup {"last", "gone"} => reqs' = <<>>
    BY <1>0, <1>12 DEF ResetBegin, Go, ReaderInv, AtExit, InReset, srvVars
  <2>5. pc'[Reader] \in {"destroy", "reopen", "unkeep", "bye", "last", "gone"} => workreqs' = {}
    BY <1>0, <1>12 DEF ResetBegin, Go, ReaderInv, AtExit, InReset, srvVars
  <2>. QED  BY <2>1, <2>2, <2>3, <2>4, <2>5 DEF ReaderInv
<1>13. ASSUME NEW a \in Workers \cup {Reader}, ResetCollect(a)
      PROVE  ReaderInv'
  <2>1. pc'[Reader] = "start" =>
          reqs' = <<>> /\ (\A v \in Workers : pc'[v] = "idle") /\ (EarlyShutdown \/ pc'[Stopper] = "idle")
    BY <1>0, <1>13 DEF ResetCollect, Go, ReaderInv, PcInv, srvVars
  <2>2. pc'[Reader] \in {"check", "alloc"} => rq'[req'[Reader]].refs = 0
    BY <1>0, <1>13, FreshKeeps DEF ResetCollect, Go
  <2>3. pc'[Reader] \in AtExit \cup {"last", "gone"} => ~trans'
    BY <1>0, <1>13 DEF ResetCollect, Go, ReaderInv, AtExit, InReset, connVars
  <2>4. pc'[Reader] \in (AtExit \ {"remove", "reset", "collect"}) \cup {"last", "gone"} => reqs' = <<>>
    BY <1>0, <1>13 DEF ResetCollect, Go, ReaderInv, AtExit, InReset, srvVars
  <2>5. pc'[Reader] \in {"destroy", "reopen", "unkeep", "bye", "last", "gone"} => workreqs' = {}
    BY <1>0, <1>13 DEF ResetCollect, Go, ReaderInv, AtExit, InReset, srvVars
  <2>. QED  BY <2>1, <2>2, <2>3, <2>4, <2>5 DEF ReaderInv
<1>14. ASSUME NEW a \in Workers \cup {Reader}, ResetDrop(a)
      PROVE  ReaderInv'
  <2>1. pc'[Reader] = "start" =>
          reqs' = <<>> /\ (\A v \in Workers : pc'[v] = "idle") /\ (EarlyShutdown \/ pc'[Stopper] = "idle")
    BY <1>0, <1>14 DEF ResetDrop, Go, ReaderInv, PcInv, srvVars
  <2>2. pc'[Reader] \in {"check", "alloc"} => rq'[req'[Reader]].refs = 0
    BY <1>0, <1>14, FreshKeeps DEF ResetDrop, Go
  <2>3. pc'[Reader] \in AtExit \cup {"last", "gone"} => ~trans'
    BY <1>0, <1>14 DEF ResetDrop, Go, ReaderInv, AtExit, InReset, connVars
  <2>4. pc'[Reader] \in (AtExit \ {"remove", "reset", "collect"}) \cup {"last", "gone"} => reqs' = <<>>
    BY <1>0, <1>14 DEF ResetDrop, Go, ReaderInv, AtExit, InReset, srvVars
  <2>5. pc'[Reader] \in {"destroy", "reopen", "unkeep", "bye", "last", "gone"} => workreqs' = {}
    BY <1>0, <1>14 DEF ResetDrop, Go, ReaderInv, AtExit, InReset, srvVars
  <2>. QED  BY <2>1, <2>2, <2>3, <2>4, <2>5 DEF ReaderInv
<1>15. ASSUME NEW a \in Workers \cup {Reader}, ResetWait(a)
      PROVE  ReaderInv'
  <2>1. pc'[Reader] = "start" =>
          reqs' = <<>> /\ (\A v \in Workers : pc'[v] = "idle") /\ (EarlyShutdown \/ pc'[Stopper] = "idle")
    BY <1>0, <1>15 DEF ResetWait, Go, ReaderInv, PcInv, srvVars
  <2>2. pc'[Reader] \in {"check", "alloc"} => rq'[req'[Reader]].refs = 0
    BY <1>0, <1>15, FreshKeeps DEF ResetWait, Go
  <2>3. pc'[Reader] \in AtExit \cup {"last", "gone"} => ~trans'
    BY <1>0, <1>15 DEF ResetWait, Go, ReaderInv, AtExit, InReset, connVars
  <2>4. pc'[Reader] \in (AtExit \ {"remove", "reset", "collect"}) \cup {"last", "gone"} => reqs' = <<>>
    BY <1>0, <1>15 DEF ResetWait, Go, ReaderInv, AtExit, InReset, srvVars
  <2>5. pc'[Reader] \in {"destroy", "reopen", "unkeep", "bye", "last", "gone"} => workreqs' = {}
    BY <1>0, <1>15 DEF ResetWait, Go, ReaderInv, AtExit, InReset, srvVars, Awaited
  <2>. QED  BY <2>1, <2>2, <2>3, <2>4, <2>5 DEF ReaderInv
<1>16. ASSUME NEW a \in Workers \cup {Reader}, ResetDestroy(a)
      PROVE  ReaderInv'
  <2>1. pc'[Reader] = "start" =>
          reqs' = <<>> /\ (\A v \in Workers : pc'[v] = "idle") /\ (EarlyShutdown \/ pc'[Stopper] = "idle")
    BY <1>0, <1>16 DEF ResetDestroy, Go, ReaderInv, PcInv, srvVars
  <2>2. pc'[Reader] \in {"check", "alloc"} => rq'[req'[Reader]].refs = 0
    BY <1>0, <1>16, FreshKeeps DEF ResetDestroy, Go
  <2>3. pc'[Reader] \in AtExit \cup {"last", "gone"} => ~trans'
    BY <1>0, <1>16 DEF ResetDestroy, Go, ReaderInv, AtExit, InReset, connVars
  <2>4. pc'[Reader] \in (AtExit \ {"remove", "reset", "collect"}) \cup {"last", "gone"} => reqs' = <<>>
    BY <1>0, <1>16 DEF ResetDestroy, Go, ReaderInv, AtExit, InReset, srvVars
  <2>5. pc'[Reader] \in {"destroy", "reopen", "unkeep", "bye", "last", "gone"} => workreqs' = {}
    BY <1>0, <1>16 DEF ResetDestroy, Go, ReaderInv, AtExit, InReset, srvVars
  <2>. QED  BY <2>1, <2>2, <2>3, <2>4, <2>5 DEF ReaderInv
<1>17. ASSUME NEW a \in Workers \cup {Reader}, ResetRenew(a)
      PROVE  ReaderInv'
  <2>1. pc'[Reader] = "start" =>
          reqs' = <<>> /\ (\A v \in Workers : pc'[v] = "idle") /\ (EarlyShutdown \/ pc'[Stopper] = "idle")
    BY <1>0, <1>17 DEF ResetRenew, Go, ReaderInv, PcInv, srvVars
  <2>2. pc'[Reader] \in {"check", "alloc"} => rq'[req'[Reader]].refs = 0
    BY <1>0, <1>17, FreshKeeps DEF ResetRenew, Go
  <2>3. pc'[Reader] \in AtExit \cup {"last", "gone"} => ~trans'
    BY <1>0, <1>17 DEF ResetRenew, Go, ReaderInv, AtExit, InReset, connVars
  <2>4. pc'[Reader] \in (AtExit \ {"remove", "reset", "collect"}) \cup {"last", "gone"} => reqs' = <<>>
    BY <1>0, <1>17 DEF ResetRenew, Go, ReaderInv, AtExit, InReset, srvVars
  <2>5. pc'[Reader] \in {"destroy", "reopen", "unkeep", "bye", "last", "gone"} => workreqs' = {}
    BY <1>0, <1>17 DEF ResetRenew, Go, ReaderInv, AtExit, InReset, srvVars
  <2>. QED  BY <2>1, <2>2, <2>3, <2>4, <2>5 DEF ReaderInv
<1>18. ASSUME NEW a \in Workers \cup {Reader}, ResetPool(a)
      PROVE  ReaderInv'
  <2>1. pc'[Reader] = "start" =>
          reqs' = <<>> /\ (\A v \in Workers : pc'[v] = "idle") /\ (EarlyShutdown \/ pc'[Stopper] = "idle")
    BY <1>0, <1>18 DEF ResetPool, Go, ReaderInv, PcInv, srvVars
  <2>2. pc'[Reader] \in {"check", "alloc"} => rq'[req'[Reader]].refs = 0
    BY <1>0, <1>18, FreshKeeps DEF ResetPool, Go
  <2>3. pc'[Reader] \in AtExit \cup {"last", "gone"} => ~trans'
    BY <1>0, <1>18 DEF ResetPool, Go, ReaderInv, AtExit, InReset, connVars
  <2>4. pc'[Reader] \in (AtExit \ {"remove", "reset", "collect"}) \cup {"last", "gone"} => reqs' = <<>>
    BY <1>0, <1>18 DEF ResetPool, Go, ReaderInv, AtExit, InReset, srvVars
  <2>5. pc'[Reader] \in {"destroy", "reopen", "unkeep", "bye", "last", "gone"} => workreqs' = {}
    BY <1>0, <1>18 DEF ResetPool, Go, ReaderInv, AtExit, InReset, srvVars
  <2>. QED  BY <2>1, <2>2, <2>3, <2>4, <2>5 DEF ReaderInv
<1>19. ASSUME NEW a \in Workers \cup {Reader}, ResetReopen(a)
      PROVE  ReaderInv'
  <2>1. pc'[Reader] = "start" =>
          reqs' = <<>> /\ (\A v \in Workers : pc'[v] = "idle") /\ (EarlyShutdown \/ pc'[Stopper] = "idle")
    BY <1>0, <1>19 DEF ResetReopen, Go, ReaderInv, PcInv, srvVars
  <2>2. pc'[Reader] \in {"check", "alloc"} => rq'[req'[Reader]].refs = 0
    BY <1>0, <1>19, FreshKeeps DEF ResetReopen, Go
  <2>3. pc'[Reader] \in AtExit \cup {"last", "gone"} => ~trans'
    BY <1>0, <1>19 DEF ResetReopen, Go, ReaderInv, AtExit, InReset, connVars
  <2>4. pc'[Reader] \in (AtExit \ {"remove", "reset", "collect"}) \cup {"last", "gone"} => reqs' = <<>>
    BY <1>0, <1>19 DEF ResetReopen, Go, ReaderInv, AtExit, InReset, srvVars
  <2>5. pc'[Reader] \in {"destroy", "reopen", "unkeep", "bye", "last", "gone"} => workreqs' = {}
    BY <1>0, <1>19 DEF ResetReopen, Go, ReaderInv, AtExit, InReset, srvVars
  <2>. QED  BY <2>1, <2>2, <2>3, <2>4, <2>5 DEF ReaderInv
<1>20. ASSUME NEW a \in Workers \cup {Reader}, ResetUnkeep(a)
      PROVE  ReaderInv'
  <2>1. pc'[Reader] = "start" =>
          reqs' = <<>> /\ (\A v \in Workers : pc'[v] = "idle") /\ (EarlyShutdown \/ pc'[Stopper] = "idle")
    BY <1>0, <1>20 DEF ResetUnkeep, Go, ReaderInv, PcInv, srvVars
  <2>2. pc'[Reader] \in {"check", "alloc"} => rq'[req'[Reader]].refs = 0
    BY <1>0, <1>20, FreshKeeps DEF ResetUnkeep, Go
  <2>3. pc'[Reader] \in AtExit \cup {"last", "gone"} => ~trans'
    BY <1>0, <1>20 DEF ResetUnkeep, Go, ReaderInv, AtExit, InReset, connVars
  <2>4. pc'[Reader] \in (AtExit \ {"remove", "reset", "collect"}) \cup {"last", "gone"} => reqs' = <<>>
    BY <1>0, <1>20 DEF ResetUnkeep, Go, ReaderInv, AtExit, InReset, srvVars
  <2>5. pc'[Reader] \in {"destroy", "reopen", "unkeep", "bye", "last", "gone"} => workreqs' = {}
    BY <1>0, <1>20 DEF ResetUnkeep, Go, ReaderInv, AtExit, InReset, srvVars
  <2>. QED  BY <2>1, <2>2, <2>3, <2>4, <2>5 DEF ReaderInv
<1>21. ASSUME NEW w \in Workers, WorkerTake(w)
      PROVE  ReaderInv'
  <2>1. pc'[Reader] = "start" =>
          reqs' = <<>> /\ (\A v \in Workers : pc'[v] = "idle") /\ (EarlyShutdown \/ pc'[Stopper] = "idle")
    BY <1>0, <1>21 DEF WorkerTake, Go, ReaderInv, PcInv, srvVars
  <2>2. pc'[Reader] \in {"check", "alloc"} => rq'[req'[Reader]].refs = 0
    BY <1>0, <1>21, FreshKeeps DEF WorkerTake, Go
  <2>3. pc'[Reader] \in AtExit \cup {"last", "gone"} => ~trans'
    BY <1>0, <1>21 DEF WorkerTake, Go, ReaderInv, AtExit, InReset, connVars
  <2>4. pc'[Reader] \in (AtExit \ {"remove", "reset", "collect"}) \cup {"last", "gone"} => reqs' = <<>>
    BY <1>0, <1>21 DEF WorkerTake, Go, ReaderInv, AtExit, InReset, srvVars
  <2>5. pc'[Reader] \in {"destroy", "reopen", "unkeep", "bye", "last", "gone"} => workreqs' = {}
    BY <1>0, <1>21 DEF WorkerTake, Go, ReaderInv, AtExit, InReset, srvVars
  <2>. QED  BY <2>1, <2>2, <2>3, <2>4, <2>5 DEF ReaderInv
<1>22. ASSUME NEW w \in Workers, Process(w)
      PROVE  ReaderInv'
  <2>1. pc'[Reader] = "start" =>
          reqs' = <<>> /\ (\A v \in Workers : pc'[v] = "idle") /\ (EarlyShutdown \/ pc'[Stopper] = "idle")
    BY <1>0, <1>22 DEF Process, Go, ReaderInv, PcInv, srvVars
  <2>2. pc'[Reader] \in {"check", "alloc"} => rq'[req'[Reader]].refs = 0
    BY <1>0, <1>22, FreshKeeps DEF Process, Go
  <2>3. pc'[Reader] \in AtExit \cup {"last", "gone"} => ~trans'
    BY <1>0, <1>22 DEF Process, Go, ReaderInv, AtExit, InReset, connVars
  <2>4. pc'[Reader] \in (AtExit \ {"remove", "reset", "collect"}) \cup {"last", "gone"} => reqs' = <<>>
    BY <1>0, <1>22 DEF Process, Go, ReaderInv, AtExit, InReset, srvVars
  <2>5. pc'[Reader] \in {"destroy", "reopen", "unkeep", "bye", "last", "gone"} => workreqs' = {}
    BY <1>0, <1>22 DEF Process, Go, ReaderInv, AtExit, InReset, srvVars
  <2>. QED  BY <2>1, <2>2, <2>3, <2>4, <2>5 DEF ReaderInv
<1>23. ASSUME NEW w \in Workers, np_version(w)
      PROVE  ReaderInv'
  <2>1. pc'[Reader] = "start" =>
          reqs' = <<>> /\ (\A v \in Workers : pc'[v] = "idle") /\ (EarlyShutdown \/ pc'[Stopper] = "idle")
    BY <1>0, <1>23 DEF np_version, Go, ReaderInv, PcInv, srvVars
  <2>2. pc'[Reader] \in {"check", "alloc"} => rq'[req'[Reader]].refs = 0
    BY <1>0, <1>23, FreshKeeps DEF np_version, Go
  <2>3. pc'[Reader] \in AtExit \cup {"last", "gone"} => ~trans'
    BY <1>0, <1>23 DEF np_version, Go, ReaderInv, AtExit, InReset, connVars
  <2>4. pc'[Reader] \in (AtExit \ {"remove", "reset", "collect"}) \cup {"last", "gone"} => reqs' = <<>>
    BY <1>0, <1>23 DEF np_version, Go, ReaderInv, AtExit, InReset, srvVars
  <2>5. pc'[Reader] \in {"destroy", "reopen", "unkeep", "bye", "last", "gone"} => workreqs' = {}
    BY <1>0, <1>23 DEF np_version, Go, ReaderInv, AtExit, InReset, srvVars
  <2>. QED  BY <2>1, <2>2, <2>3, <2>4, <2>5 DEF ReaderInv
<1>24. ASSUME NEW w \in Workers, RespondUnlink(w)
      PROVE  ReaderInv'
  <2>1. pc'[Reader] = "start" =>
          reqs' = <<>> /\ (\A v \in Workers : pc'[v] = "idle") /\ (EarlyShutdown \/ pc'[Stopper] = "idle")
    BY <1>0, <1>24 DEF RespondUnlink, Go, ReaderInv, PcInv, srvVars
  <2>2. pc'[Reader] \in {"check", "alloc"} => rq'[req'[Reader]].refs = 0
    BY <1>0, <1>24, FreshKeeps DEF RespondUnlink, Go
  <2>3. pc'[Reader] \in AtExit \cup {"last", "gone"} => ~trans'
    BY <1>0, <1>24 DEF RespondUnlink, Go, ReaderInv, AtExit, InReset, connVars
  <2>4. pc'[Reader] \in (AtExit \ {"remove", "reset", "collect"}) \cup {"last", "gone"} => reqs' = <<>>
    BY <1>0, <1>24 DEF RespondUnlink, Go, ReaderInv, AtExit, InReset, srvVars
  <2>5. pc'[Reader] \in {"destroy", "reopen", "unkeep", "bye", "last", "gone"} => workreqs' = {}
    BY <1>0, <1>24 DEF RespondUnlink, Go, ReaderInv, AtExit, InReset, srvVars
  <2>. QED  BY <2>1, <2>2, <2>3, <2>4, <2>5 DEF ReaderInv
<1>25. ASSUME NEW w \in Workers, RespondFid(w)
      PROVE  ReaderInv'
  <2>1. pc'[Reader] = "start" =>
          reqs' = <<>> /\ (\A v \in Workers : pc'[v] = "idle") /\ (EarlyShutdown \/ pc'[Stopper] = "idle")
    BY <1>0, <1>25 DEF RespondFid, Go, ReaderInv, PcInv, srvVars
  <2>2. pc'[Reader] \in {"check", "alloc"} => rq'[req'[Reader]].refs = 0
    BY <1>0, <1>25, FreshKeeps DEF RespondFid, Go
  <2>3. pc'[Reader] \in AtExit \cup {"last", "gone"} => ~trans'
    BY <1>0, <1>25 DEF RespondFid, Go, ReaderInv, AtExit, InReset, connVars
  <2>4. pc'[Reader] \in (AtExit \ {"remove", "reset", "collect"}) \cup {"last", "gone"} => reqs' = <<>>
    BY <1>0, <1>25 DEF RespondFid, Go, ReaderInv, AtExit, InReset, srvVars
  <2>5. pc'[Reader] \in {"destroy", "reopen", "unkeep", "bye", "last", "gone"} => workreqs' = {}
    BY <1>0, <1>25 DEF RespondFid, Go, ReaderInv, AtExit, InReset, srvVars
  <2>. QED  BY <2>1, <2>2, <2>3, <2>4, <2>5 DEF ReaderInv
<1>26. ASSUME NEW w \in Workers, RespondSend(w)
      PROVE  ReaderInv'
  <2>1. pc'[Reader] = "start" =>
          reqs' = <<>> /\ (\A v \in Workers : pc'[v] = "idle") /\ (EarlyShutdown \/ pc'[Stopper] = "idle")
    BY <1>0, <1>26 DEF RespondSend, Go, ReaderInv, PcInv, srvVars
  <2>2. pc'[Reader] \in {"check", "alloc"} => rq'[req'[Reader]].refs = 0
    BY <1>0, <1>26, FreshKeeps DEF RespondSend, Go
  <2>3. pc'[Reader] \in AtExit \cup {"last", "gone"} => ~trans'
    BY <1>0, <1>26 DEF RespondSend, Go, ReaderInv, AtExit, InReset, connVars
  <2>4. pc'[Reader] \in (AtExit \ {"remove", "reset", "collect"}) \cup {"last", "gone"} => reqs' = <<>>
    BY <1>0, <1>26 DEF RespondSend, Go, ReaderInv, AtExit, InReset, srvVars
  <2>5. pc'[Reader] \in {"destroy", "reopen", "unkeep", "bye", "last", "gone"} => workreqs' = {}
    BY <1>0, <1>26 DEF RespondSend, Go, ReaderInv, AtExit, InReset, srvVars
  <2>. QED  BY <2>1, <2>2, <2>3, <2>4, <2>5 DEF ReaderInv
<1>27. ASSUME NEW w \in Workers, RespondWrite(w)
      PROVE  ReaderInv'
  <2>1. pc'[Reader] = "start" =>
          reqs' = <<>> /\ (\A v \in Workers : pc'[v] = "idle") /\ (EarlyShutdown \/ pc'[Stopper] = "idle")
    BY <1>0, <1>27 DEF RespondWrite, TakeTrans, Go, ReaderInv, PcInv, srvVars
  <2>2. pc'[Reader] \in {"check", "alloc"} => rq'[req'[Reader]].refs = 0
    BY <1>0, <1>27, FreshKeeps DEF RespondWrite, TakeTrans, Go
  <2>3. pc'[Reader] \in AtExit \cup {"last", "gone"} => ~trans'
    BY <1>0, <1>27 DEF RespondWrite, TakeTrans, Go, ReaderInv, AtExit, InReset, connVars
  <2>4. pc'[Reader] \in (AtExit \ {"remove", "reset", "collect"}) \cup {"last", "gone"} => reqs' = <<>>
    BY <1>0, <1>27 DEF RespondWrite, TakeTrans, Go, ReaderInv, AtExit, InReset, srvVars
  <2>5. pc'[Reader] \in {"destroy", "reopen", "unkeep", "bye", "last", "gone"} => workreqs' = {}
    BY <1>0, <1>27 DEF RespondWrite, TakeTrans, Go, ReaderInv, AtExit, InReset, srvVars
  <2>. QED  BY <2>1, <2>2, <2>3, <2>4, <2>5 DEF ReaderInv
<1>28. ASSUME NEW w \in Workers, RespondSignal(w)
      PROVE  ReaderInv'
  <2>1. pc'[Reader] = "start" =>
          reqs' = <<>> /\ (\A v \in Workers : pc'[v] = "idle") /\ (EarlyShutdown \/ pc'[Stopper] = "idle")
    BY <1>0, <1>28 DEF RespondSignal, np_trans_destroy, Go, ReaderInv, PcInv, srvVars
  <2>2. pc'[Reader] \in {"check", "alloc"} => rq'[req'[Reader]].refs = 0
    BY <1>0, <1>28, FreshKeeps DEF RespondSignal, np_trans_destroy, Go
  <2>3. pc'[Reader] \in AtExit \cup {"last", "gone"} => ~trans'
    BY <1>0, <1>28 DEF RespondSignal, np_trans_destroy, Go, ReaderInv, AtExit, InReset, connVars
  <2>4. pc'[Reader] \in (AtExit \ {"remove", "reset", "collect"}) \cup {"last", "gone"} => reqs' = <<>>
    BY <1>0, <1>28 DEF RespondSignal, np_trans_destroy, Go, ReaderInv, AtExit, InReset, srvVars
  <2>5. pc'[Reader] \in {"destroy", "reopen", "unkeep", "bye", "last", "gone"} => workreqs' = {}
    BY <1>0, <1>28 DEF RespondSignal, np_trans_destroy, Go, ReaderInv, AtExit, InReset, srvVars
  <2>. QED  BY <2>1, <2>2, <2>3, <2>4, <2>5 DEF ReaderInv
<1>29. ASSUME NEW w \in Workers, RespondUnref(w)
      PROVE  ReaderInv'
  <2>1. pc'[Reader] = "start" =>
          reqs' = <<>> /\ (\A v \in Workers : pc'[v] = "idle") /\ (EarlyShutdown \/ pc'[Stopper] = "idle")
    BY <1>0, <1>29 DEF RespondUnref, Go, ReaderInv, PcInv, srvVars
  <2>2. pc'[Reader] \in {"check", "alloc"} => rq'[req'[Reader]].refs = 0
    BY <1>0, <1>29, FreshKeeps DEF RespondUnref, Go
  <2>3. pc'[Reader] \in AtExit \cup {"last", "gone"} => ~trans'
    BY <1>0, <1>29 DEF RespondUnref, Go, ReaderInv, AtExit, InReset, connVars
  <2>4. pc'[Reader] \in (AtExit \ {"remove", "reset", "collect"}) \cup {"last", "gone"} => reqs' = <<>>
    BY <1>0, <1>29 DEF RespondUnref, Go, ReaderInv, AtExit, InReset, srvVars
  <2>5. pc'[Reader] \in {"destroy", "reopen", "unkeep", "bye", "last", "gone"} => workreqs' = {}
    BY <1>0, <1>29 DEF RespondUnref, Go, ReaderInv, AtExit, InReset, srvVars
  <2>. QED  BY <2>1, <2>2, <2>3, <2>4, <2>5 DEF ReaderInv
<1>30. ASSUME NEW shutconns \in BOOLEAN, np_srv_shutdown(shutconns)
      PROVE  ReaderInv'
  <2>1. pc'[Reader] = "start" =>
          reqs' = <<>> /\ (\A v \in Workers : pc'[v] = "idle") /\ (EarlyShutdown \/ pc'[Stopper] = "idle")
    BY <1>0, <1>30 DEF np_srv_shutdown, Go, ReaderInv, PcInv, srvVars
  <2>2. pc'[Reader] \in {"check", "alloc"} => rq'[req'[Reader]].refs = 0
    BY <1>0, <1>30, FreshKeeps DEF np_srv_shutdown, Go
  <2>3. pc'[Reader] \in AtExit \cup {"last", "gone"} => ~trans'
    BY <1>0, <1>30 DEF np_srv_shutdown, Go, ReaderInv, AtExit, InReset, connVars
  <2>4. pc'[Reader] \in (AtExit \ {"remove", "reset", "collect"}) \cup {"last", "gone"} => reqs' = <<>>
    BY <1>0, <1>30 DEF np_srv_shutdown, Go, ReaderInv, AtExit, InReset, srvVars
  <2>5. pc'[Reader] \in {"destroy", "reopen", "unkeep", "bye", "last", "gone"} => workreqs' = {}
    BY <1>0, <1>30 DEF np_srv_shutdown, Go, ReaderInv, AtExit, InReset, srvVars
  <2>. QED  BY <2>1, <2>2, <2>3, <2>4, <2>5 DEF ReaderInv
<1>31. ASSUME np_conn_shutdown
      PROVE  ReaderInv'
  <2>1. pc'[Reader] = "start" =>
          reqs' = <<>> /\ (\A v \in Workers : pc'[v] = "idle") /\ (EarlyShutdown \/ pc'[Stopper] = "idle")
    BY <1>0, <1>31 DEF np_conn_shutdown, Go, ReaderInv, PcInv, srvVars
  <2>2. pc'[Reader] \in {"check", "alloc"} => rq'[req'[Reader]].refs = 0
    BY <1>0, <1>31, FreshKeeps DEF np_conn_shutdown, Go
  <2>3. pc'[Reader] \in AtExit \cup {"last", "gone"} => ~trans'
    BY <1>0, <1>31 DEF np_conn_shutdown, Go, ReaderInv, AtExit, InReset, connVars
  <2>4. pc'[Reader] \in (AtExit \ {"remove", "reset", "collect"}) \cup {"last", "gone"} => reqs' = <<>>
    BY <1>0, <1>31 DEF np_conn_shutdown, Go, ReaderInv, AtExit, InReset, srvVars
  <2>5. pc'[Reader] \in {"destroy", "reopen", "unkeep", "bye", "last", "gone"} => workreqs' = {}
    BY <1>0, <1>31 DEF np_conn_shutdown, Go, ReaderInv, AtExit, InReset, srvVars
  <2>. QED  BY <2>1, <2>2, <2>3, <2>4, <2>5 DEF ReaderInv
<1>32. ASSUME StopperDecref
      PROVE  ReaderInv'
  <2>1. pc'[Reader] = "start" =>
          reqs' = <<>> /\ (\A v \in Workers : pc'[v] = "idle") /\ (EarlyShutdown \/ pc'[Stopper] = "idle")
    BY <1>0, <1>32 DEF StopperDecref, np_conn_decref, Go, ReaderInv, PcInv, srvVars
  <2>2. pc'[Reader] \in {"check", "alloc"} => rq'[req'[Reader]].refs = 0
    BY <1>0, <1>32, FreshKeeps DEF StopperDecref, np_conn_decref, Go
  <2>3. pc'[Reader] \in AtExit \cup {"last", "gone"} => ~trans'
    BY <1>0, <1>32 DEF StopperDecref, np_conn_decref, Go, ReaderInv, AtExit, InReset, connVars
  <2>4. pc'[Reader] \in (AtExit \ {"remove", "reset", "collect"}) \cup {"last", "gone"} => reqs' = <<>>
    BY <1>0, <1>32 DEF StopperDecref, np_conn_decref, Go, ReaderInv, AtExit, InReset, srvVars
  <2>5. pc'[Reader] \in {"destroy", "reopen", "unkeep", "bye", "last", "gone"} => workreqs' = {}
    BY <1>0, <1>32 DEF StopperDecref, np_conn_decref, Go, ReaderInv, AtExit, InReset, srvVars
  <2>. QED  BY <2>1, <2>2, <2>3, <2>4, <2>5 DEF ReaderInv
<1>. QED
  BY <1>1, <1>2, <1>3, <1>4, <1>5, <1>6, <1>7, <1>8, <1>9, <1>10, <1>11, <1>12,
     <1>13, <1>14, <1>15, <1>16, <1>17, <1>18, <1>19, <1>20, <1>21, <1>22,
     <1>23, <1>24, <1>25, <1>26, <1>27, <1>28, <1>29, <1>30, <1>31, <1>32
     DEF Next, np_conn_read_proc, Worker, np_conn_reset

\* A step that leaves the holders of the connection alone keeps CountInv.
LEMMA CountSame ==
    ASSUME CountInv, UNCHANGED <<refcount, listed>>,
           pc'[Stopper] \in {"close", "decref"} <=> pc[Stopper] \in {"close", "decref"},
           pc'[Reader] \in {"start", "gone"} <=> pc[Reader] \in {"start", "gone"},
           \A r \in Reqs : rq'[r].refs > 0 <=> rq[r].refs > 0
    PROVE  CountInv'
<1>1. Live' = Live
  BY DEF Live
<1>. QED  BY <1>1 DEF CountInv, One

\* So does one that gives up the references of requests.
LEMMA CountUnref ==
    ASSUME TypeOK, CountInv, UNCHANGED listed, pc'[Stopper] = pc[Stopper],
           pc'[Reader] \in {"start", "gone"} <=> pc[Reader] \in {"start", "gone"},
           NEW S \in SUBSET Reqs, \A r \in S : rq[r].refs > 0, np_req_unref(S)
    PROVE  CountInv'
<1>1. Cardinality(Live) \in Nat /\ refcount \in Nat
  BY Finite DEF TypeOK
<1>2. /\ refcount' = refcount - (Cardinality(Live) - Cardinality(Live)')
      /\ Cardinality(Live)' \in Nat
  BY UnrefIs DEF np_conn_decref
<1>. QED  BY <1>1, <1>2 DEF CountInv, One

\* Every step keeps CountInv.
LEMMA CountKeeps ==
    ASSUME TypeOK, PcInv, HoldInv, WorkInv, ReaderInv, CountInv, Next
    PROVE  CountInv'
<1>. USE NpConnAssumption DEF Actors
<1>0. /\ pc \in [Actors -> Locations] /\ req \in [Actors -> Reqs \cup {None}]
      /\ reqs \in Seq(Reqs) /\ workreqs \in SUBSET Reqs /\ rq \in [Reqs -> Requests]
      /\ trans \in BOOLEAN /\ listed \in BOOLEAN /\ refcount \in Nat /\ Cardinality(Live) \in Nat
  BY Finite DEF TypeOK, Requests
<1>1. ASSUME ReaderStart
      PROVE  CountInv'
  <2>1. refcount' = refcount + 1 /\ UNCHANGED <<listed, rq>> /\ pc[Reader] = "start"
        /\ pc'[Reader] = "read" /\ pc'[Stopper] = pc[Stopper]
    BY <1>0, <1>1 DEF ReaderStart, Go
  <2>2. Live' = Live
    BY <2>1 DEF Live
  <2>. QED  BY <1>0, <2>1, <2>2 DEF CountInv, One
<1>2. ASSUME NEW r \in Reqs, NEW kind \in Kinds, ReaderRecv(r, kind)
      PROVE  CountInv'
  <2>1. UNCHANGED <<refcount, listed>>
    BY <1>2 DEF ReaderRecv, connVars
  <2>2. /\ pc'[Stopper] \in {"close", "decref"} <=> pc[Stopper] \in {"close", "decref"}
        /\ pc'[Reader] \in {"start", "gone"} <=> pc[Reader] \in {"start", "gone"}
    BY <1>0, <1>2 DEF ReaderRecv, Go, PcInv
  <2>3. \A s \in Reqs : rq'[s].refs > 0 <=> rq[s].refs > 0
    BY <1>0, <1>2 DEF ReaderRecv, PcInv, Requests
  <2>. QED  BY <2>1, <2>2, <2>3, CountSame
<1>3. ASSUME ReaderCheck
      PROVE  CountInv'
  <2>1. UNCHANGED <<refcount, listed>>
    BY <1>3 DEF ReaderCheck, connVars
  <2>2. /\ pc'[Stopper] \in {"close", "decref"} <=> pc[Stopper] \in {"close", "decref"}
        /\ pc'[Reader] \in {"start", "gone"} <=> pc[Reader] \in {"start", "gone"}
    BY <1>0, <1>3 DEF ReaderCheck, Go, PcInv
  <2>3. \A s \in Reqs : rq'[s].refs > 0 <=> rq[s].refs > 0
    BY <1>0, <1>3 DEF ReaderCheck, PcInv, ReaderInv, NoReq
  <2>. QED  BY <2>1, <2>2, <2>3, CountSame
<1>4. ASSUME ReaderAlloc
      PROVE  CountInv'
  <2>1. req[Reader] \in Reqs /\ rq[req[Reader]] \in Requests /\ rq[req[Reader]].refs = 0
    BY <1>0, <1>4 DEF ReaderAlloc, PcInv, ReaderInv
  <2>2. \A s \in Reqs : rq'[s].refs = IF s = req[Reader] THEN 1 ELSE rq[s].refs
    BY <1>0, <1>4, <2>1 DEF ReaderAlloc, Requests
  <2>3. Live' = Live \cup {req[Reader]} /\ req[Reader] \notin Live
    BY <2>1, <2>2 DEF Live
  <2>4. Cardinality(Live)' = Cardinality(Live) + 1
    BY <2>3, Finite, CardStep
  <2>5. refcount' = refcount + 1 /\ UNCHANGED listed /\ pc[Reader] = "alloc" /\ pc'[Reader] = "add"
        /\ pc'[Stopper] = pc[Stopper]
    BY <1>0, <1>4 DEF ReaderAlloc, Go
  <2>. QED  BY <1>0, <2>4, <2>5 DEF CountInv, One
<1>5. ASSUME ReaderSleep
      PROVE  CountInv'
  <2>1. UNCHANGED <<refcount, listed>>
    BY <1>5 DEF ReaderSleep, connVars
  <2>2. /\ pc'[Stopper] \in {"close", "decref"} <=> pc[Stopper] \in {"close", "decref"}
        /\ pc'[Reader] \in {"start", "gone"} <=> pc[Reader] \in {"start", "gone"}
    BY <1>0, <1>5 DEF ReaderSleep, Go, PcInv
  <2>3. \A s \in Reqs : rq'[s].refs > 0 <=> rq[s].refs > 0
    BY <1>0, <1>5 DEF ReaderSleep, PcInv, Requests
  <2>. QED  BY <2>1, <2>2, <2>3, CountSame
<1>6. ASSUME ReaderAdd
      PROVE  CountInv'
  <2>0. CASE resetting
    <3>1. {req[Reader]} \in SUBSET Reqs /\ \A s \in {req[Reader]} : rq[s].refs > 0
      BY <1>6, <2>0, HeldRefs DEF RefsHeld, PcInv, ReaderAdd
    <3>2. /\ UNCHANGED listed /\ pc'[Stopper] = pc[Stopper]
          /\ pc'[Reader] \in {"start", "gone"} <=> pc[Reader] \in {"start", "gone"}
      BY <1>0, <1>6, <2>0 DEF ReaderAdd, Go
    <3>. QED  BY <1>6, <2>0, <3>1, <3>2, CountUnref DEF ReaderAdd
  <2>9. CASE ~resetting
    <3>1. UNCHANGED <<refcount, listed>>
      BY <1>6, <2>9 DEF ReaderAdd, connVars
    <3>2. /\ pc'[Stopper] \in {"close", "decref"} <=> pc[Stopper] \in {"close", "decref"}
          /\ pc'[Reader] \in {"start", "gone"} <=> pc[Reader] \in {"start", "gone"}
      BY <1>0, <1>6, <2>9 DEF ReaderAdd, Go, PcInv
    <3>3. \A s \in Reqs : rq'[s].refs > 0 <=> rq[s].refs > 0
      BY <1>0, <1>6, <2>9 DEF ReaderAdd, PcInv, Requests
    <3>. QED  BY <3>1, <3>2, <3>3, CountSame
  <2>. QED  BY <2>0, <2>9
<1>7. ASSUME ReaderEnd
      PROVE  CountInv'
  <2>1. UNCHANGED <<refcount, listed>>
    BY <1>7 DEF ReaderEnd, connVars
  <2>2. /\ pc'[Stopper] \in {"close", "decref"} <=> pc[Stopper] \in {"close", "decref"}
        /\ pc'[Reader] \in {"start", "gone"} <=> pc[Reader] \in {"start", "gone"}
    BY <1>0, <1>7 DEF ReaderEnd, Go, PcInv
  <2>3. \A s \in Reqs : rq'[s].refs > 0 <=> rq[s].refs > 0
    BY <1>0, <1>7 DEF ReaderEnd, PcInv, Requests
  <2>. QED  BY <2>1, <2>2, <2>3, CountSame
<1>8. ASSUME ReaderExit
      PROVE  CountInv'
  <2>1. UNCHANGED <<refcount, listed>>
    BY <1>8 DEF ReaderExit, TakeTrans, connVars
  <2>2. /\ pc'[Stopper] \in {"close", "decref"} <=> pc[Stopper] \in {"close", "decref"}
        /\ pc'[Reader] \in {"start", "gone"} <=> pc[Reader] \in {"start", "gone"}
    BY <1>0, <1>8 DEF ReaderExit, TakeTrans, Go, PcInv
  <2>3. \A s \in Reqs : rq'[s].refs > 0 <=> rq[s].refs > 0
    BY <1>0, <1>8 DEF ReaderExit, TakeTrans, PcInv, Requests
  <2>. QED  BY <2>1, <2>2, <2>3, CountSame
<1>9. ASSUME np_srv_remove_conn
      PROVE  CountInv'
  <2>1. /\ refcount' = refcount - (IF listed THEN 1 ELSE 0) /\ UNCHANGED rq /\ ~listed'
        /\ pc[Reader] = "remove" /\ pc'[Reader] = "reset" /\ pc'[Stopper] = pc[Stopper]
    BY <1>0, <1>9 DEF np_srv_remove_conn, np_conn_decref, Go
  <2>2. Live' = Live
    BY <2>1 DEF Live
  <2>. QED  BY <1>0, <2>1, <2>2 DEF CountInv, One
<1>10. ASSUME ReaderBye
      PROVE  CountInv'
  <2>1. UNCHANGED <<refcount, listed>>
    BY <1>10 DEF ReaderBye, np_trans_destroy, connVars
  <2>2. /\ pc'[Stopper] \in {"close", "decref"} <=> pc[Stopper] \in {"close", "decref"}
        /\ pc'[Reader] \in {"start", "gone"} <=> pc[Reader] \in {"start", "gone"}
    BY <1>0, <1>10 DEF ReaderBye, np_trans_destroy, Go, PcInv
  <2>3. \A s \in Reqs : rq'[s].refs > 0 <=> rq[s].refs > 0
    BY <1>0, <1>10 DEF ReaderBye, np_trans_destroy, PcInv, Requests
  <2>. QED  BY <2>1, <2>2, <2>3, CountSame
<1>11. ASSUME ReaderLast
      PROVE  CountInv'
  <2>1. /\ refcount' = refcount - 1 /\ UNCHANGED <<listed, rq>>
        /\ pc[Reader] = "last" /\ pc'[Reader] = "gone" /\ pc'[Stopper] = pc[Stopper]
    BY <1>0, <1>11 DEF ReaderLast, np_conn_decref, Go
  <2>2. Live' = Live
    BY <2>1 DEF Live
  <2>. QED  BY <1>0, <2>1, <2>2 DEF CountInv, One
<1>12. ASSUME NEW a \in Workers \cup {Reader}, ResetBegin(a)
      PROVE  CountInv'
  <2>1. UNCHANGED <<refcount, listed>>
    BY <1>12 DEF ResetBegin, connVars
  <2>2. /\ pc'[Stopper] \in {"close", "decref"} <=> pc[Stopper] \in {"close", "decref"}
        /\ pc'[Reader] \in {"start", "gone"} <=> pc[Reader] \in {"start", "gone"}
    BY <1>0, <1>12 DEF ResetBegin, Go, PcInv
  <2>3. \A s \in Reqs : rq'[s].refs > 0 <=> rq[s].refs > 0
    BY <1>0, <1>12 DEF ResetBegin, PcInv, Requests
  <2>. QED  BY <2>1, <2>2, <2>3, CountSame
<1>13. ASSUME NEW a \in Workers \cup {Reader}, ResetCollect(a)
      PROVE  CountInv'
  <2>1. UNCHANGED <<refcount, listed>>
    BY <1>13 DEF ResetCollect, connVars
  <2>2. /\ pc'[Stopper] \in {"close", "decref"} <=> pc[Stopper] \in {"close", "decref"}
        /\ pc'[Reader] \in {"start", "gone"} <=> pc[Reader] \in {"start", "gone"}
    BY <1>0, <1>13 DEF ResetCollect, Go, PcInv
  <2>3. \A s \in Reqs : rq'[s].refs > 0 <=> rq[s].refs > 0
    <3>1. ASSUME NEW s \in workreqs PROVE rq[s].refs > 0
      <4>1. PICK v \in Workers : req[v] = s /\ pc[v] \in Working
        BY <1>0 DEF WorkInv
      <4>. QED  BY <4>1, HeldRefs DEF RefsHeld, PcInv, Working, InReset
    <3>2. \A s \in Reqs : rq'[s].refs = IF s \in Awaited(a) THEN rq[s].refs + 1 ELSE rq[s].refs
      BY <1>0, <1>13 DEF ResetCollect, Requests
    <3>3. \A s \in Reqs : rq[s].refs \in Nat
      BY <1>0 DEF Requests
    <3>. QED  BY <3>1, <3>2, <3>3 DEF Awaited
  <2>. QED  BY <2>1, <2>2, <2>3, CountSame
<1>14. ASSUME NEW a \in Workers \cup {Reader}, ResetDrop(a)
      PROVE  CountInv'
  <2>1. preqs[a] \in SUBSET Reqs /\ \A s \in preqs[a] : rq[s].refs > 0
    BY <1>14, HeldRefs DEF RefsHeld, PcInv, ResetDrop
  <2>2. /\ UNCHANGED listed /\ pc'[Stopper] = pc[Stopper]
        /\ pc'[Reader] \in {"start", "gone"} <=> pc[Reader] \in {"start", "gone"}
    BY <1>0, <1>14 DEF ResetDrop, Go
  <2>. QED  BY <1>14, <2>1, <2>2, CountUnref DEF ResetDrop
<1>15. ASSUME NEW a \in Workers \cup {Reader}, ResetWait(a)
      PROVE  CountInv'
  <2>1. UNCHANGED <<refcount, listed>>
    BY <1>15 DEF ResetWait, connVars
  <2>2. /\ pc'[Stopper] \in {"close", "decref"} <=> pc[Stopper] \in {"close", "decref"}
        /\ pc'[Reader] \in {"start", "gone"} <=> pc[Reader] \in {"start", "gone"}
    BY <1>0, <1>15 DEF ResetWait, Go, PcInv
  <2>3. \A s \in Reqs : rq'[s].refs > 0 <=> rq[s].refs > 0
    BY <1>0, <1>15 DEF ResetWait, PcInv, Requests
  <2>. QED  BY <2>1, <2>2, <2>3, CountSame
<1>16. ASSUME NEW a \in Workers \cup {Reader}, ResetDestroy(a)
      PROVE  CountInv'
  <2>1. UNCHANGED <<refcount, listed>>
    BY <1>16 DEF ResetDestroy, connVars
  <2>2. /\ pc'[Stopper] \in {"close", "decref"} <=> pc[Stopper] \in {"close", "decref"}
        /\ pc'[Reader] \in {"start", "gone"} <=> pc[Reader] \in {"start", "gone"}
    BY <1>0, <1>16 DEF ResetDestroy, Go, PcInv
  <2>3. \A s \in Reqs : rq'[s].refs > 0 <=> rq[s].refs > 0
    BY <1>0, <1>16 DEF ResetDestroy, PcInv, Requests
  <2>. QED  BY <2>1, <2>2, <2>3, CountSame
<1>17. ASSUME NEW a \in Workers \cup {Reader}, ResetRenew(a)
      PROVE  CountInv'
  <2>1. UNCHANGED <<refcount, listed>>
    BY <1>17 DEF ResetRenew, connVars
  <2>2. /\ pc'[Stopper] \in {"close", "decref"} <=> pc[Stopper] \in {"close", "decref"}
        /\ pc'[Reader] \in {"start", "gone"} <=> pc[Reader] \in {"start", "gone"}
    BY <1>0, <1>17 DEF ResetRenew, Go, PcInv
  <2>3. \A s \in Reqs : rq'[s].refs > 0 <=> rq[s].refs > 0
    BY <1>0, <1>17 DEF ResetRenew, PcInv, Requests
  <2>. QED  BY <2>1, <2>2, <2>3, CountSame
<1>18. ASSUME NEW a \in Workers \cup {Reader}, ResetPool(a)
      PROVE  CountInv'
  <2>1. UNCHANGED <<refcount, listed>>
    BY <1>18 DEF ResetPool, connVars
  <2>2. /\ pc'[Stopper] \in {"close", "decref"} <=> pc[Stopper] \in {"close", "decref"}
        /\ pc'[Reader] \in {"start", "gone"} <=> pc[Reader] \in {"start", "gone"}
    BY <1>0, <1>18 DEF ResetPool, Go, PcInv
  <2>3. \A s \in Reqs : rq'[s].refs > 0 <=> rq[s].refs > 0
    BY <1>0, <1>18 DEF ResetPool, PcInv, Requests
  <2>. QED  BY <2>1, <2>2, <2>3, CountSame
<1>19. ASSUME NEW a \in Workers \cup {Reader}, ResetReopen(a)
      PROVE  CountInv'
  <2>1. UNCHANGED <<refcount, listed>>
    BY <1>19 DEF ResetReopen, connVars
  <2>2. /\ pc'[Stopper] \in {"close", "decref"} <=> pc[Stopper] \in {"close", "decref"}
        /\ pc'[Reader] \in {"start", "gone"} <=> pc[Reader] \in {"start", "gone"}
    BY <1>0, <1>19 DEF ResetReopen, Go, PcInv
  <2>3. \A s \in Reqs : rq'[s].refs > 0 <=> rq[s].refs > 0
    BY <1>0, <1>19 DEF ResetReopen, PcInv, Requests
  <2>. QED  BY <2>1, <2>2, <2>3, CountSame
<1>20. ASSUME NEW a \in Workers \cup {Reader}, ResetUnkeep(a)
      PROVE  CountInv'
  <2>1. kept[a] \in SUBSET Reqs /\ \A s \in kept[a] : rq[s].refs > 0
    BY <1>20, HeldRefs DEF RefsHeld, PcInv, ResetUnkeep
  <2>2. /\ UNCHANGED listed /\ pc'[Stopper] = pc[Stopper]
        /\ pc'[Reader] \in {"start", "gone"} <=> pc[Reader] \in {"start", "gone"}
    BY <1>0, <1>20 DEF ResetUnkeep, Go
  <2>. QED  BY <1>20, <2>1, <2>2, CountUnref DEF ResetUnkeep
<1>21. ASSUME NEW w \in Workers, WorkerTake(w)
      PROVE  CountInv'
  <2>1. UNCHANGED <<refcount, listed>>
    BY <1>21 DEF WorkerTake, connVars
  <2>2. /\ pc'[Stopper] \in {"close", "decref"} <=> pc[Stopper] \in {"close", "decref"}
        /\ pc'[Reader] \in {"start", "gone"} <=> pc[Reader] \in {"start", "gone"}
    BY <1>0, <1>21 DEF WorkerTake, Go, PcInv
  <2>3. \A s \in Reqs : rq'[s].refs > 0 <=> rq[s].refs > 0
    BY <1>0, <1>21 DEF WorkerTake, PcInv, Requests
  <2>. QED  BY <2>1, <2>2, <2>3, CountSame
<1>22. ASSUME NEW w \in Workers, Process(w)
      PROVE  CountInv'
  <2>1. UNCHANGED <<refcount, listed>>
    BY <1>22 DEF Process, connVars
  <2>2. /\ pc'[Stopper] \in {"close", "decref"} <=> pc[Stopper] \in {"close", "decref"}
        /\ pc'[Reader] \in {"start", "gone"} <=> pc[Reader] \in {"start", "gone"}
    BY <1>0, <1>22 DEF Process, Go, PcInv
  <2>3. \A s \in Reqs : rq'[s].refs > 0 <=> rq[s].refs > 0
    BY <1>0, <1>22 DEF Process, PcInv, Requests
  <2>. QED  BY <2>1, <2>2, <2>3, CountSame
<1>23. ASSUME NEW w \in Workers, np_version(w)
      PROVE  CountInv'
  <2>1. UNCHANGED <<refcount, listed>>
    BY <1>23 DEF np_version, connVars
  <2>2. /\ pc'[Stopper] \in {"close", "decref"} <=> pc[Stopper] \in {"close", "decref"}
        /\ pc'[Reader] \in {"start", "gone"} <=> pc[Reader] \in {"start", "gone"}
    BY <1>0, <1>23 DEF np_version, Go, PcInv
  <2>3. \A s \in Reqs : rq'[s].refs > 0 <=> rq[s].refs > 0
    BY <1>0, <1>23 DEF np_version, PcInv, Requests
  <2>. QED  BY <2>1, <2>2, <2>3, CountSame
<1>24. ASSUME NEW w \in Workers, RespondUnlink(w)
      PROVE  CountInv'
  <2>1. UNCHANGED <<refcount, listed>>
    BY <1>24 DEF RespondUnlink, connVars
  <2>2. /\ pc'[Stopper] \in {"close", "decref"} <=> pc[Stopper] \in {"close", "decref"}
        /\ pc'[Reader] \in {"start", "gone"} <=> pc[Reader] \in {"start", "gone"}
    BY <1>0, <1>24 DEF RespondUnlink, Go, PcInv
  <2>3. \A s \in Reqs : rq'[s].refs > 0 <=> rq[s].refs > 0
    BY <1>0, <1>24 DEF RespondUnlink, PcInv, Requests
  <2>. QED  BY <2>1, <2>2, <2>3, CountSame
<1>25. ASSUME NEW w \in Workers, RespondFid(w)
      PROVE  CountInv'
  <2>1. UNCHANGED <<refcount, listed>>
    BY <1>25 DEF RespondFid, connVars
  <2>2. /\ pc'[Stopper] \in {"close", "decref"} <=> pc[Stopper] \in {"close", "decref"}
        /\ pc'[Reader] \in {"start", "gone"} <=> pc[Reader] \in {"start", "gone"}
    BY <1>0, <1>25 DEF RespondFid, Go, PcInv
  <2>3. \A s \in Reqs : rq'[s].refs > 0 <=> rq[s].refs > 0
    BY <1>0, <1>25 DEF RespondFid, PcInv, Requests
  <2>. QED  BY <2>1, <2>2, <2>3, CountSame
<1>26. ASSUME NEW w \in Workers, RespondSend(w)
      PROVE  CountInv'
  <2>1. UNCHANGED <<refcount, listed>>
    BY <1>26 DEF RespondSend, connVars
  <2>2. /\ pc'[Stopper] \in {"close", "decref"} <=> pc[Stopper] \in {"close", "decref"}
        /\ pc'[Reader] \in {"start", "gone"} <=> pc[Reader] \in {"start", "gone"}
    BY <1>0, <1>26 DEF RespondSend, Go, PcInv
  <2>3. \A s \in Reqs : rq'[s].refs > 0 <=> rq[s].refs > 0
    BY <1>0, <1>26 DEF RespondSend, PcInv, Requests
  <2>. QED  BY <2>1, <2>2, <2>3, CountSame
<1>27. ASSUME NEW w \in Workers, RespondWrite(w)
      PROVE  CountInv'
  <2>1. UNCHANGED <<refcount, listed>>
    BY <1>27 DEF RespondWrite, TakeTrans, connVars
  <2>2. /\ pc'[Stopper] \in {"close", "decref"} <=> pc[Stopper] \in {"close", "decref"}
        /\ pc'[Reader] \in {"start", "gone"} <=> pc[Reader] \in {"start", "gone"}
    BY <1>0, <1>27 DEF RespondWrite, TakeTrans, Go, PcInv
  <2>3. \A s \in Reqs : rq'[s].refs > 0 <=> rq[s].refs > 0
    BY <1>0, <1>27 DEF RespondWrite, TakeTrans, PcInv, Requests
  <2>. QED  BY <2>1, <2>2, <2>3, CountSame
<1>28. ASSUME NEW w \in Workers, RespondSignal(w)
      PROVE  CountInv'
  <2>1. UNCHANGED <<refcount, listed>>
    BY <1>28 DEF RespondSignal, np_trans_destroy, connVars
  <2>2. /\ pc'[Stopper] \in {"close", "decref"} <=> pc[Stopper] \in {"close", "decref"}
        /\ pc'[Reader] \in {"start", "gone"} <=> pc[Reader] \in {"start", "gone"}
    BY <1>0, <1>28 DEF RespondSignal, np_trans_destroy, Go, PcInv
  <2>3. \A s \in Reqs : rq'[s].refs > 0 <=> rq[s].refs > 0
    BY <1>0, <1>28 DEF RespondSignal, np_trans_destroy, PcInv, Requests
  <2>. QED  BY <2>1, <2>2, <2>3, CountSame
<1>29. ASSUME NEW w \in Workers, RespondUnref(w)
      PROVE  CountInv'
  <2>1. {req[w]} \in SUBSET Reqs /\ \A s \in {req[w]} : rq[s].refs > 0
    BY <1>29, HeldRefs DEF RefsHeld, PcInv, RespondUnref
  <2>2. /\ UNCHANGED listed /\ pc'[Stopper] = pc[Stopper]
        /\ pc'[Reader] \in {"start", "gone"} <=> pc[Reader] \in {"start", "gone"}
    BY <1>0, <1>29 DEF RespondUnref, Go
  <2>. QED  BY <1>29, <2>1, <2>2, CountUnref DEF RespondUnref
<1>30. ASSUME NEW shutconns \in BOOLEAN, np_srv_shutdown(shutconns)
      PROVE  CountInv'
  <2>1. /\ UNCHANGED <<refcount, rq>> /\ listed' = (listed /\ ~shutconns)
        /\ pc[Stopper] = "idle" /\ pc'[Stopper] = (IF listed /\ shutconns THEN "close" ELSE "gone")
        /\ pc'[Reader] = pc[Reader]
    BY <1>0, <1>30 DEF np_srv_shutdown, Go
  <2>2. Live' = Live
    BY <2>1 DEF Live
  <2>3. CASE listed /\ shutconns
    <3>1. listed /\ ~listed' /\ pc'[Stopper] = "close"
      BY <1>0, <2>1, <2>3
    <3>. QED  BY <1>0, <2>1, <2>2, <3>1 DEF CountInv, One
  <2>4. CASE ~(listed /\ shutconns)
    <3>1. listed' = listed
      BY <1>0, <2>1, <2>4
    <3>. QED  BY <1>0, <2>1, <2>2, <2>4, <3>1 DEF CountInv, One
  <2>. QED  BY <2>3, <2>4
<1>31. ASSUME np_conn_shutdown
      PROVE  CountInv'
  <2>1. UNCHANGED <<refcount, listed>>
    BY <1>31 DEF np_conn_shutdown, connVars
  <2>2. /\ pc'[Stopper] \in {"close", "decref"} <=> pc[Stopper] \in {"close", "decref"}
        /\ pc'[Reader] \in {"start", "gone"} <=> pc[Reader] \in {"start", "gone"}
    BY <1>0, <1>31 DEF np_conn_shutdown, Go, PcInv
  <2>3. \A s \in Reqs : rq'[s].refs > 0 <=> rq[s].refs > 0
    BY <1>0, <1>31 DEF np_conn_shutdown, PcInv, Requests
  <2>. QED  BY <2>1, <2>2, <2>3, CountSame
<1>32. ASSUME StopperDecref
      PROVE  CountInv'
  <2>1. /\ refcount' = refcount - 1 /\ UNCHANGED <<listed, rq>>
        /\ pc[Stopper] = "decref" /\ pc'[Stopper] = "gone" /\ pc'[Reader] = pc[Reader]
    BY <1>0, <1>32 DEF StopperDecref, np_conn_decref, Go
  <2>2. Live' = Live
    BY <2>1 DEF Live
  <2>. QED  BY <1>0, <2>1, <2>2 DEF CountInv, One
<1>. QED
  BY <1>1, <1>2, <1>3, <1>4, <1>5, <1>6, <1>7, <1>8, <1>9, <1>10, <1>11, <1>12,
     <1>13, <1>14, <1>15, <1>16, <1>17, <1>18, <1>19, <1>20, <1>21, <1>22,
     <1>23, <1>24, <1>25, <1>26, <1>27, <1>28, <1>29, <1>30, <1>31, <1>32
     DEF Next, np_conn_read_proc, Worker, np_conn_reset

\* The referenced requests are countable in the next state, too.
LiveCounted == Cardinality(Live) \in Nat

LEMMA LiveCount == TypeOK => LiveCounted
BY Finite DEF LiveCounted

LEMMA LiveCountNext == TypeOK' => LiveCounted'
BY LiveCount, PTL

\* Giving up n references of a connection whose count is exact keeps FreeInv.
LEMMA FreeDecref ==
    ASSUME TypeOK, FreeInv, TypeOK', CountInv', NEW n \in Nat, np_conn_decref(n),
           n > 0 => pc'[Reader] # "start",
           pc[Reader] = "gone" => pc'[Reader] = "gone",
           pc'[Reader] = "gone" => pc[Reader] = "gone" \/ n > 0
    PROVE  FreeInv'
<1>. SUFFICES ASSUME ~EarlyShutdown
             PROVE  freed' <=> refcount' = 0 /\ pc'[Reader] = "gone"
  BY DEF FreeInv
<1>1. refcount \in Nat /\ refcount' \in Nat /\ refcount' = refcount - n
      /\ (freed' <=> freed \/ (n > 0 /\ refcount = n))
  BY DEF TypeOK, np_conn_decref
<1>2. freed <=> refcount = 0 /\ pc[Reader] = "gone"
  BY DEF FreeInv
<1>3. refcount' = 0 => pc'[Reader] \in {"start", "gone"}
  BY LiveCountNext DEF LiveCounted, CountInv, One
<1>. QED  BY <1>1, <1>2, <1>3

\* Every step keeps FreeInv.
LEMMA FreeKeeps ==
    ASSUME TypeOK, PcInv, HoldInv, ReaderInv, FreeInv, TypeOK', CountInv', Next
    PROVE  FreeInv'
<1>. USE NpConnAssumption DEF Actors
<1>0. /\ pc \in [Actors -> Locations] /\ req \in [Actors -> Reqs \cup {None}]
      /\ reqs \in Seq(Reqs) /\ workreqs \in SUBSET Reqs /\ rq \in [Reqs -> Requests]
      /\ trans \in BOOLEAN /\ listed \in BOOLEAN /\ refcount \in Nat /\ Cardinality(Live) \in Nat
  BY Finite DEF TypeOK, Requests
<1>1. ASSUME ReaderStart
      PROVE  FreeInv'
  <2>1. pc[Reader] # "gone" /\ pc'[Reader] # "gone" /\ freed' = freed
    BY <1>0, <1>1 DEF ReaderStart, Go
  <2>. QED  BY <2>1 DEF FreeInv
<1>2. ASSUME NEW r \in Reqs, NEW kind \in Kinds, ReaderRecv(r, kind)
      PROVE  FreeInv'
  <2>1. UNCHANGED <<freed, refcount>>
    BY <1>2 DEF ReaderRecv, connVars
  <2>2. pc'[Reader] = "gone" <=> pc[Reader] = "gone"
    BY <1>0, <1>2 DEF ReaderRecv, Go
  <2>. QED  BY <2>1, <2>2 DEF FreeInv
<1>3. ASSUME ReaderCheck
      PROVE  FreeInv'
  <2>1. UNCHANGED <<freed, refcount>>
    BY <1>3 DEF ReaderCheck, connVars
  <2>2. pc'[Reader] = "gone" <=> pc[Reader] = "gone"
    BY <1>0, <1>3 DEF ReaderCheck, Go
  <2>. QED  BY <2>1, <2>2 DEF FreeInv
<1>4. ASSUME ReaderAlloc
      PROVE  FreeInv'
  <2>1. pc[Reader] # "gone" /\ pc'[Reader] # "gone" /\ freed' = freed
    BY <1>0, <1>4 DEF ReaderAlloc, Go
  <2>. QED  BY <2>1 DEF FreeInv
<1>5. ASSUME ReaderSleep
      PROVE  FreeInv'
  <2>1. UNCHANGED <<freed, refcount>>
    BY <1>5 DEF ReaderSleep, connVars
  <2>2. pc'[Reader] = "gone" <=> pc[Reader] = "gone"
    BY <1>0, <1>5 DEF ReaderSleep, Go
  <2>. QED  BY <2>1, <2>2 DEF FreeInv
<1>6. ASSUME ReaderAdd
      PROVE  FreeInv'
  <2>0. CASE resetting
    <3>. DEFINE n == Cardinality(Live) - Cardinality(Live)'
    <3>1. {req[Reader]} \in SUBSET Reqs /\ \A s \in {req[Reader]} : rq[s].refs > 0
      BY <1>6, <2>0, HeldRefs DEF RefsHeld, PcInv, ReaderAdd
    <3>2. n \in Nat /\ np_conn_decref(n)
      BY <1>6, <2>0, <3>1, UnrefIs DEF ReaderAdd
    <3>. HIDE DEF n
    <3>3. /\ pc'[Reader] # "start"
          /\ pc[Reader] = "gone" => pc'[Reader] = "gone"
          /\ pc'[Reader] = "gone" => pc[Reader] = "gone"
      BY <1>0, <1>6, <2>0 DEF ReaderAdd, Go, ReaderInv
    <3>. QED  BY <3>2, <3>3, FreeDecref
  <2>9. CASE ~resetting
    <3>1. UNCHANGED <<freed, refcount>>
      BY <1>6, <2>9 DEF ReaderAdd, connVars
    <3>2. pc'[Reader] = "gone" <=> pc[Reader] = "gone"
      BY <1>0, <1>6, <2>9 DEF ReaderAdd, Go
    <3>. QED  BY <3>1, <3>2 DEF FreeInv
  <2>. QED  BY <2>0, <2>9
<1>7. ASSUME ReaderEnd
      PROVE  FreeInv'
  <2>1. UNCHANGED <<freed, refcount>>
    BY <1>7 DEF ReaderEnd, connVars
  <2>2. pc'[Reader] = "gone" <=> pc[Reader] = "gone"
    BY <1>0, <1>7 DEF ReaderEnd, Go
  <2>. QED  BY <2>1, <2>2 DEF FreeInv
<1>8. ASSUME ReaderExit
      PROVE  FreeInv'
  <2>1. UNCHANGED <<freed, refcount>>
    BY <1>8 DEF ReaderExit, TakeTrans, connVars
  <2>2. pc'[Reader] = "gone" <=> pc[Reader] = "gone"
    BY <1>0, <1>8 DEF ReaderExit, TakeTrans, Go
  <2>. QED  BY <2>1, <2>2 DEF FreeInv
<1>9. ASSUME np_srv_remove_conn
      PROVE  FreeInv'
  <2>1. (IF listed THEN 1 ELSE 0) \in Nat /\ np_conn_decref((IF listed THEN 1 ELSE 0))
    BY <1>9 DEF np_srv_remove_conn
  <2>2. /\ pc'[Reader] # "start"
        /\ pc[Reader] = "gone" => pc'[Reader] = "gone"
        /\ pc'[Reader] = "gone" => pc[Reader] = "gone" \/ (IF listed THEN 1 ELSE 0) > 0
    BY <1>0, <1>9 DEF np_srv_remove_conn, Go, ReaderInv
  <2>. QED  BY <2>1, <2>2, FreeDecref
<1>10. ASSUME ReaderBye
      PROVE  FreeInv'
  <2>1. UNCHANGED <<freed, refcount>>
    BY <1>10 DEF ReaderBye, np_trans_destroy, connVars
  <2>2. pc'[Reader] = "gone" <=> pc[Reader] = "gone"
    BY <1>0, <1>10 DEF ReaderBye, np_trans_destroy, Go
  <2>. QED  BY <2>1, <2>2 DEF FreeInv
<1>11. ASSUME ReaderLast
      PROVE  FreeInv'
  <2>1. 1 \in Nat /\ np_conn_decref(1)
    BY <1>11 DEF ReaderLast
  <2>2. /\ pc'[Reader] # "start"
        /\ pc[Reader] = "gone" => pc'[Reader] = "gone"
        /\ pc'[Reader] = "gone" => pc[Reader] = "gone" \/ 1 > 0
    BY <1>0, <1>11 DEF ReaderLast, Go, ReaderInv
  <2>. QED  BY <2>1, <2>2, FreeDecref
<1>12. ASSUME NEW a \in Workers \cup {Reader}, ResetBegin(a)
      PROVE  FreeInv'
  <2>1. UNCHANGED <<freed, refcount>>
    BY <1>12 DEF ResetBegin, connVars
  <2>2. pc'[Reader] = "gone" <=> pc[Reader] = "gone"
    BY <1>0, <1>12 DEF ResetBegin, Go
  <2>. QED  BY <2>1, <2>2 DEF FreeInv
<1>13. ASSUME NEW a \in Workers \cup {Reader}, ResetCollect(a)
      PROVE  FreeInv'
  <2>1. UNCHANGED <<freed, refcount>>
    BY <1>13 DEF ResetCollect, connVars
  <2>2. pc'[Reader] = "gone" <=> pc[Reader] = "gone"
    BY <1>0, <1>13 DEF ResetCollect, Go
  <2>. QED  BY <2>1, <2>2 DEF FreeInv
<1>14. ASSUME NEW a \in Workers \cup {Reader}, ResetDrop(a)
      PROVE  FreeInv'
  <2>. DEFINE n == Cardinality(Live) - Cardinality(Live)'
  <2>1. preqs[a] \in SUBSET Reqs /\ \A s \in preqs[a] : rq[s].refs > 0
    BY <1>14, HeldRefs DEF RefsHeld, PcInv, ResetDrop
  <2>2. n \in Nat /\ np_conn_decref(n)
    BY <1>14, <2>1, UnrefIs DEF ResetDrop
  <2>. HIDE DEF n
  <2>3. /\ pc'[Reader] # "start"
        /\ pc[Reader] = "gone" => pc'[Reader] = "gone"
        /\ pc'[Reader] = "gone" => pc[Reader] = "gone"
    BY <1>0, <1>14 DEF ResetDrop, Go, ReaderInv
  <2>. QED  BY <2>2, <2>3, FreeDecref
<1>15. ASSUME NEW a \in Workers \cup {Reader}, ResetWait(a)
      PROVE  FreeInv'
  <2>1. UNCHANGED <<freed, refcount>>
    BY <1>15 DEF ResetWait, connVars
  <2>2. pc'[Reader] = "gone" <=> pc[Reader] = "gone"
    BY <1>0, <1>15 DEF ResetWait, Go
  <2>. QED  BY <2>1, <2>2 DEF FreeInv
<1>16. ASSUME NEW a \in Workers \cup {Reader}, ResetDestroy(a)
      PROVE  FreeInv'
  <2>1. UNCHANGED <<freed, refcount>>
    BY <1>16 DEF ResetDestroy, connVars
  <2>2. pc'[Reader] = "gone" <=> pc[Reader] = "gone"
    BY <1>0, <1>16 DEF ResetDestroy, Go
  <2>. QED  BY <2>1, <2>2 DEF FreeInv
<1>17. ASSUME NEW a \in Workers \cup {Reader}, ResetRenew(a)
      PROVE  FreeInv'
  <2>1. UNCHANGED <<freed, refcount>>
    BY <1>17 DEF ResetRenew, connVars
  <2>2. pc'[Reader] = "gone" <=> pc[Reader] = "gone"
    BY <1>0, <1>17 DEF ResetRenew, Go
  <2>. QED  BY <2>1, <2>2 DEF FreeInv
<1>18. ASSUME NEW a \in Workers \cup {Reader}, ResetPool(a)
      PROVE  FreeInv'
  <2>1. UNCHANGED <<freed, refcount>>
    BY <1>18 DEF ResetPool, connVars
  <2>2. pc'[Reader] = "gone" <=> pc[Reader] = "gone"
    BY <1>0, <1>18 DEF ResetPool, Go
  <2>. QED  BY <2>1, <2>2 DEF FreeInv
<1>19. ASSUME NEW a \in Workers \cup {Reader}, ResetReopen(a)
      PROVE  FreeInv'
  <2>1. UNCHANGED <<freed, refcount>>
    BY <1>19 DEF ResetReopen, connVars
  <2>2. pc'[Reader] = "gone" <=> pc[Reader] = "gone"
    BY <1>0, <1>19 DEF ResetReopen, Go
  <2>. QED  BY <2>1, <2>2 DEF FreeInv
<1>20. ASSUME NEW a \in Workers \cup {Reader}, ResetUnkeep(a)
      PROVE  FreeInv'
  <2>. DEFINE n == Cardinality(Live) - Cardinality(Live)'
  <2>1. kept[a] \in SUBSET Reqs /\ \A s \in kept[a] : rq[s].refs > 0
    BY <1>20, HeldRefs DEF RefsHeld, PcInv, ResetUnkeep
  <2>2. n \in Nat /\ np_conn_decref(n)
    BY <1>20, <2>1, UnrefIs DEF ResetUnkeep
  <2>. HIDE DEF n
  <2>3. /\ pc'[Reader] # "start"
        /\ pc[Reader] = "gone" => pc'[Reader] = "gone"
        /\ pc'[Reader] = "gone" => pc[Reader] = "gone"
    BY <1>0, <1>20 DEF ResetUnkeep, Go, ReaderInv
  <2>. QED  BY <2>2, <2>3, FreeDecref
<1>21. ASSUME NEW w \in Workers, WorkerTake(w)
      PROVE  FreeInv'
  <2>1. UNCHANGED <<freed, refcount>>
    BY <1>21 DEF WorkerTake, connVars
  <2>2. pc'[Reader] = "gone" <=> pc[Reader] = "gone"
    BY <1>0, <1>21 DEF WorkerTake, Go
  <2>. QED  BY <2>1, <2>2 DEF FreeInv
<1>22. ASSUME NEW w \in Workers, Process(w)
      PROVE  FreeInv'
  <2>1. UNCHANGED <<freed, refcount>>
    BY <1>22 DEF Process, connVars
  <2>2. pc'[Reader] = "gone" <=> pc[Reader] = "gone"
    BY <1>0, <1>22 DEF Process, Go
  <2>. QED  BY <2>1, <2>2 DEF FreeInv
<1>23. ASSUME NEW w \in Workers, np_version(w)
      PROVE  FreeInv'
  <2>1. UNCHANGED <<freed, refcount>>
    BY <1>23 DEF np_version, connVars
  <2>2. pc'[Reader] = "gone" <=> pc[Reader] = "gone"
    BY <1>0, <1>23 DEF np_version, Go
  <2>. QED  BY <2>1, <2>2 DEF FreeInv
<1>24. ASSUME NEW w \in Workers, RespondUnlink(w)
      PROVE  FreeInv'
  <2>1. UNCHANGED <<freed, refcount>>
    BY <1>24 DEF RespondUnlink, connVars
  <2>2. pc'[Reader] = "gone" <=> pc[Reader] = "gone"
    BY <1>0, <1>24 DEF RespondUnlink, Go
  <2>. QED  BY <2>1, <2>2 DEF FreeInv
<1>25. ASSUME NEW w \in Workers, RespondFid(w)
      PROVE  FreeInv'
  <2>1. UNCHANGED <<freed, refcount>>
    BY <1>25 DEF RespondFid, connVars
  <2>2. pc'[Reader] = "gone" <=> pc[Reader] = "gone"
    BY <1>0, <1>25 DEF RespondFid, Go
  <2>. QED  BY <2>1, <2>2 DEF FreeInv
<1>26. ASSUME NEW w \in Workers, RespondSend(w)
      PROVE  FreeInv'
  <2>1. UNCHANGED <<freed, refcount>>
    BY <1>26 DEF RespondSend, connVars
  <2>2. pc'[Reader] = "gone" <=> pc[Reader] = "gone"
    BY <1>0, <1>26 DEF RespondSend, Go
  <2>. QED  BY <2>1, <2>2 DEF FreeInv
<1>27. ASSUME NEW w \in Workers, RespondWrite(w)
      PROVE  FreeInv'
  <2>1. UNCHANGED <<freed, refcount>>
    BY <1>27 DEF RespondWrite, TakeTrans, connVars
  <2>2. pc'[Reader] = "gone" <=> pc[Reader] = "gone"
    BY <1>0, <1>27 DEF RespondWrite, TakeTrans, Go
  <2>. QED  BY <2>1, <2>2 DEF FreeInv
<1>28. ASSUME NEW w \in Workers, RespondSignal(w)
      PROVE  FreeInv'
  <2>1. UNCHANGED <<freed, refcount>>
    BY <1>28 DEF RespondSignal, np_trans_destroy, connVars
  <2>2. pc'[Reader] = "gone" <=> pc[Reader] = "gone"
    BY <1>0, <1>28 DEF RespondSignal, np_trans_destroy, Go
  <2>. QED  BY <2>1, <2>2 DEF FreeInv
<1>29. ASSUME NEW w \in Workers, RespondUnref(w)
      PROVE  FreeInv'
  <2>. DEFINE n == Cardinality(Live) - Cardinality(Live)'
  <2>1. {req[w]} \in SUBSET Reqs /\ \A s \in {req[w]} : rq[s].refs > 0
    BY <1>29, HeldRefs DEF RefsHeld, PcInv, RespondUnref
  <2>2. n \in Nat /\ np_conn_decref(n)
    BY <1>29, <2>1, UnrefIs DEF RespondUnref
  <2>. HIDE DEF n
  <2>3. /\ pc'[Reader] # "start"
        /\ pc[Reader] = "gone" => pc'[Reader] = "gone"
        /\ pc'[Reader] = "gone" => pc[Reader] = "gone"
    BY <1>0, <1>29 DEF RespondUnref, Go, ReaderInv
  <2>. QED  BY <2>2, <2>3, FreeDecref
<1>30. ASSUME NEW shutconns \in BOOLEAN, np_srv_shutdown(shutconns)
      PROVE  FreeInv'
  <2>1. UNCHANGED <<freed, refcount>>
    BY <1>30 DEF np_srv_shutdown, connVars
  <2>2. pc'[Reader] = "gone" <=> pc[Reader] = "gone"
    BY <1>0, <1>30 DEF np_srv_shutdown, Go
  <2>. QED  BY <2>1, <2>2 DEF FreeInv
<1>31. ASSUME np_conn_shutdown
      PROVE  FreeInv'
  <2>1. UNCHANGED <<freed, refcount>>
    BY <1>31 DEF np_conn_shutdown, connVars
  <2>2. pc'[Reader] = "gone" <=> pc[Reader] = "gone"
    BY <1>0, <1>31 DEF np_conn_shutdown, Go
  <2>. QED  BY <2>1, <2>2 DEF FreeInv
<1>32. ASSUME StopperDecref
      PROVE  FreeInv'
  <2>0. CASE EarlyShutdown
    BY <2>0 DEF FreeInv
  <2>9. CASE ~EarlyShutdown
    <3>1. 1 \in Nat /\ np_conn_decref(1)
      BY <1>32 DEF StopperDecref
    <3>2. /\ pc'[Reader] # "start"
          /\ pc[Reader] = "gone" => pc'[Reader] = "gone"
          /\ pc'[Reader] = "gone" => pc[Reader] = "gone" \/ 1 > 0
      BY <1>0, <1>32, <2>9 DEF StopperDecref, Go, ReaderInv
    <3>. QED  BY <3>1, <3>2, FreeDecref
  <2>. QED  BY <2>0, <2>9
<1>. QED
  BY <1>1, <1>2, <1>3, <1>4, <1>5, <1>6, <1>7, <1>8, <1>9, <1>10, <1>11, <1>12,
     <1>13, <1>14, <1>15, <1>16, <1>17, <1>18, <1>19, <1>20, <1>21, <1>22,
     <1>23, <1>24, <1>25, <1>26, <1>27, <1>28, <1>29, <1>30, <1>31, <1>32
     DEF Next, np_conn_read_proc, Worker, np_conn_reset

----------------------------------------------------------------------------
(* Sessions *)

\* A queued request is referenced.
QueueHeld == \A r \in ToSet(reqs) : r \in Reqs /\ rq[r].refs > 0

LEMMA QueuedRefs == TypeOK /\ HoldInv => QueueHeld
<1>. SUFFICES ASSUME TypeOK, HoldInv, NEW r \in ToSet(reqs) PROVE r \in Reqs /\ rq[r].refs > 0
  BY DEF QueueHeld
<1>1. r \in Reqs
  BY QueueOf DEF TypeOK
<1>. QED  BY <1>1, Referenced DEF Owned

LEMMA QueuedRefsNext == TypeOK' /\ HoldInv' => QueueHeld'
BY QueuedRefs, PTL

\* A request that stays in the queue or with a worker stays what it is.
LEMMA StaysKept ==
    ASSUME TypeOK, PcInv, HoldInv, ReaderInv, Next, TypeOK', PcInv', HoldInv'
    PROVE  /\ \A r \in ToSet(reqs) \cap ToSet(reqs') :
                rq'[r].kind = rq[r].kind /\ rq'[r].born = rq[r].born
           /\ \A w \in Workers : pc[w] # "idle" /\ req'[w] = req[w] =>
                rq'[req[w]].kind = rq[req[w]].kind /\ rq'[req[w]].born = rq[req[w]].born
<1>1. ASSUME NEW r \in ToSet(reqs) \cap ToSet(reqs')
      PROVE  rq'[r].kind = rq[r].kind /\ rq'[r].born = rq[r].born
  <2>1. r \in Reqs /\ rq[r].refs > 0 /\ rq'[r].refs > 0
    BY QueuedRefs, QueuedRefsNext DEF QueueHeld
  <2>. QED  BY <2>1, KindKept
<1>2. ASSUME NEW w \in Workers, pc[w] # "idle", req'[w] = req[w]
      PROVE  rq'[req[w]].kind = rq[req[w]].kind /\ rq'[req[w]].born = rq[req[w]].born
  <2>1. req[w] # None /\ pc[w] \notin {"check", "alloc"} /\ pc'[w] \notin {"check", "alloc"}
    BY <1>2 DEF PcInv, Working, InReset
  <2>2. req[w] \in Reqs /\ rq[req[w]].refs > 0 /\ rq'[req[w]].refs > 0
    BY <1>2, <2>1, HeldRefs, HeldRefsNext DEF RefsHeld, Actors
  <2>. QED  BY <2>2, KindKept
<1>. QED  BY <1>1, <1>2

\* A step that moves no request but towards its answer keeps AwaitInv.
LEMMA AwaitSame ==
    ASSUME TypeOK, PcInv, HoldInv, ReaderInv, AwaitInv, Next, TypeOK', PcInv', HoldInv',
           UNCHANGED <<reqs, awaits>>, req'[Reader] = req[Reader],
           req[Reader] # None => rq'[req[Reader]].kind = rq[req[Reader]].kind,
           \A v \in Workers : /\ req'[v] = req[v]
                              /\ pc'[v] \notin {"idle", "signal", "unref"} => pc[v] \notin {"idle", "signal", "unref"}
    PROVE  AwaitInv'
<1>1. \A v \in Workers : Asked(v)' => Asked(v)
  BY StaysKept DEF Asked, IsVersion
<1>2. \A i \in DOMAIN reqs : IsVersion(reqs[i])' <=> IsVersion(reqs[i])
  <2>1. \A i \in DOMAIN reqs : reqs[i] \in ToSet(reqs) \cap ToSet(reqs')
    BY QueueOf DEF TypeOK
  <2>2. \A i \in DOMAIN reqs : rq'[reqs[i]].kind = rq[reqs[i]].kind
    BY <2>1, StaysKept
  <2>. QED  BY <2>2 DEF IsVersion
<1>. QED  BY <1>1, <1>2 DEF AwaitInv, IsVersion

\* So does one that takes a request away.
LEMMA AwaitLess ==
    ASSUME TypeOK, PcInv, HoldInv, ReaderInv, AwaitInv, Next, TypeOK', PcInv', HoldInv',
           UNCHANGED awaits, reqs' = reqs \/ reqs' = <<>>,
           req'[Reader] = None,
           \A v \in Workers : pc'[v] # "idle" => req'[v] = req[v] /\ pc'[v] = pc[v]
    PROVE  AwaitInv'
<1>1. \A v \in Workers : Asked(v)' => Asked(v)
  BY StaysKept DEF Asked, IsVersion
<1>2. CASE reqs' = reqs
  <2>1. \A i \in DOMAIN reqs : IsVersion(reqs[i])' <=> IsVersion(reqs[i])
    <3>1. \A i \in DOMAIN reqs : reqs[i] \in ToSet(reqs) \cap ToSet(reqs')
      BY <1>2, QueueOf DEF TypeOK
    <3>2. \A i \in DOMAIN reqs : rq'[reqs[i]].kind = rq[reqs[i]].kind
      BY <3>1, StaysKept
    <3>. QED  BY <1>2, <3>2 DEF IsVersion
  <2>. QED  BY <1>1, <1>2, <2>1 DEF AwaitInv
<1>3. CASE reqs' = <<>>
  <2>1. DOMAIN reqs' = {}
    BY <1>3, QueueOf DEF TypeOK
  <2>. QED  BY <1>1, <1>3, <2>1 DEF AwaitInv
<1>. QED  BY <1>2, <1>3

\* Every step of a careful client's connection keeps AwaitInv.
LEMMA AwaitKeeps ==
    ASSUME careful, TypeOK, PcInv, HoldInv, WorkInv, ReaderInv, AwaitInv, TypeOK', PcInv', HoldInv', Next
    PROVE  AwaitInv'
<1>. USE NpConnAssumption DEF Actors
<1>0. /\ pc \in [Actors -> Locations] /\ req \in [Actors -> Reqs \cup {None}]
      /\ reqs \in Seq(Reqs) /\ workreqs \in SUBSET Reqs /\ rq \in [Reqs -> Requests]
      /\ awaits \in BOOLEAN /\ resetting \in BOOLEAN
  BY DEF TypeOK, Requests
<1>1. ASSUME ReaderStart
      PROVE  AwaitInv'
  <2>1. UNCHANGED <<reqs, awaits>> /\ req'[Reader] = req[Reader]
        /\ (req[Reader] # None => rq'[req[Reader]].kind = rq[req[Reader]].kind)
    BY <1>0, <1>1 DEF ReaderStart, srvVars, thrVars, cliVars, PcInv, Requests
  <2>2. \A v \in Workers : req'[v] = req[v] /\ (pc'[v] \notin {"idle", "signal", "unref"} => pc[v] \notin {"idle", "signal", "unref"})
    BY <1>0, <1>1 DEF ReaderStart, thrVars, Go, PcInv, AtExit, InReset
  <2>. QED  BY <2>1, <2>2, AwaitSame
<1>2. ASSUME NEW r \in Reqs, NEW kind \in Kinds, ReaderRecv(r, kind)
      PROVE  AwaitInv'
  <2>1. /\ ~awaits /\ UNCHANGED reqs /\ req'[Reader] = r /\ awaits' = (kind = "version")
        /\ rq'[r].kind = kind /\ \A v \in Workers : req'[v] = req[v] /\ pc'[v] = pc[v]
    BY <1>0, <1>2 DEF ReaderRecv, srvVars, Go, Requests
  <2>2. ASSUME NEW v \in Workers PROVE ~Asked(v)'
    <3>1. ~Asked(v)
      BY <2>1 DEF AwaitInv
    <3>. QED  BY <2>1, <3>1, StaysKept DEF Asked, IsVersion
  <2>3. ASSUME NEW i \in DOMAIN reqs PROVE ~IsVersion(reqs[i])'
    <3>1. ~IsVersion(reqs[i]) /\ reqs[i] \in ToSet(reqs)
      BY <1>0, <2>1, QueueOf DEF AwaitInv
    <3>. QED  BY <2>1, <3>1, StaysKept DEF IsVersion
  <2>. QED  BY <2>1, <2>2, <2>3 DEF AwaitInv, IsVersion
<1>3. ASSUME ReaderCheck
      PROVE  AwaitInv'
  <2>1. CASE resetting
    <3>1. /\ UNCHANGED <<reqs, awaits>> /\ req'[Reader] = None
          /\ \A v \in Workers : pc'[v] # "idle" => req'[v] = req[v] /\ pc'[v] = pc[v]
      BY <1>0, <1>3, <2>1 DEF ReaderCheck, srvVars, cliVars, Go
    <3>. QED  BY <3>1, AwaitLess
  <2>2. CASE ~resetting
    <3>1. req[Reader] \in Reqs /\ rq[req[Reader]] \in Requests
      BY <1>0, <1>3 DEF ReaderCheck, PcInv
    <3>2. UNCHANGED <<reqs, awaits>> /\ req'[Reader] = req[Reader]
          /\ (req[Reader] # None => rq'[req[Reader]].kind = rq[req[Reader]].kind)
      BY <1>0, <1>3, <2>2, <3>1 DEF ReaderCheck, srvVars, thrVars, cliVars, Requests
    <3>3. \A v \in Workers : req'[v] = req[v] /\ pc'[v] = pc[v]
      BY <1>0, <1>3, <2>2 DEF ReaderCheck, Go
    <3>. QED  BY <3>2, <3>3, AwaitSame
  <2>. QED  BY <2>1, <2>2
<1>4. ASSUME ReaderAlloc
      PROVE  AwaitInv'
  <2>1. req[Reader] \in Reqs /\ rq[req[Reader]] \in Requests
    BY <1>0, <1>4 DEF ReaderAlloc, PcInv
  <2>2. UNCHANGED <<reqs, awaits>> /\ req'[Reader] = req[Reader]
        /\ (req[Reader] # None => rq'[req[Reader]].kind = rq[req[Reader]].kind)
    BY <1>0, <1>4, <2>1 DEF ReaderAlloc, srvVars, thrVars, cliVars, Requests
  <2>3. \A v \in Workers : req'[v] = req[v] /\ pc'[v] = pc[v]
    BY <1>0, <1>4 DEF ReaderAlloc, thrVars, Go
  <2>. QED  BY <2>2, <2>3, AwaitSame
<1>5. ASSUME ReaderSleep
      PROVE  AwaitInv'
  <2>1. UNCHANGED <<reqs, awaits>> /\ req'[Reader] = req[Reader]
        /\ (req[Reader] # None => rq'[req[Reader]].kind = rq[req[Reader]].kind)
    BY <1>0, <1>5 DEF ReaderSleep, srvVars, thrVars, cliVars, PcInv, Requests
  <2>2. \A v \in Workers : req'[v] = req[v] /\ (pc'[v] \notin {"idle", "signal", "unref"} => pc[v] \notin {"idle", "signal", "unref"})
    BY <1>0, <1>5 DEF ReaderSleep, thrVars, Go, PcInv, AtExit, InReset
  <2>. QED  BY <2>1, <2>2, AwaitSame
<1>6. ASSUME ReaderAdd
      PROVE  AwaitInv'
  <2>. DEFINE r == req[Reader]
  <2>1. CASE resetting
    <3>1. /\ UNCHANGED <<reqs, awaits>> /\ req'[Reader] = None
          /\ \A v \in Workers : pc'[v] # "idle" => req'[v] = req[v] /\ pc'[v] = pc[v]
      BY <1>0, <1>6, <2>1 DEF ReaderAdd, cliVars, Go
    <3>. QED  BY <3>1, AwaitLess
  <2>2. CASE ~resetting
    <3>1. r \in Reqs /\ r # None
      BY <1>0, <1>6 DEF ReaderAdd, PcInv
    <3>2. reqs' = Append(reqs, r) /\ UNCHANGED <<rq, awaits>> /\ req'[Reader] = None
          /\ \A v \in Workers : req'[v] = req[v] /\ pc'[v] = pc[v]
      BY <1>0, <1>6, <2>2 DEF ReaderAdd, cliVars, Go
    <3>3. /\ Len(reqs) \in Nat /\ DOMAIN reqs = 1 .. Len(reqs)
          /\ Len(reqs') = Len(reqs) + 1 /\ DOMAIN reqs' = 1 .. (Len(reqs) + 1)
          /\ reqs'[Len(reqs) + 1] = r /\ \A i \in 1 .. Len(reqs) : reqs'[i] = reqs[i]
      BY <1>0, <3>1, <3>2, AppendOf
    <3>4. \A v \in Workers : ~Asked(v)'
      BY <3>1, <3>2 DEF AwaitInv, Asked, IsVersion
    <3>5. \A i \in 1 .. Len(reqs) : rq'[reqs'[i]].kind # "version"
      BY <3>1, <3>2, <3>3 DEF AwaitInv, IsVersion
    <3>. HIDE DEF r
    <3>6. rq'[r].kind = "version" => awaits'
      BY <3>1, <3>2 DEF AwaitInv, IsVersion, r
    <3>7. \A i \in DOMAIN reqs' : rq'[reqs'[i]].kind = "version" => awaits' /\ i = Len(reqs') /\ req'[Reader] = None
      BY <3>2, <3>3, <3>5, <3>6
    <3>. QED  BY <3>2, <3>4, <3>7 DEF AwaitInv, IsVersion
  <2>. QED  BY <2>1, <2>2
<1>7. ASSUME ReaderEnd
      PROVE  AwaitInv'
  <2>1. UNCHANGED <<reqs, awaits>> /\ req'[Reader] = req[Reader]
        /\ (req[Reader] # None => rq'[req[Reader]].kind = rq[req[Reader]].kind)
    BY <1>0, <1>7 DEF ReaderEnd, srvVars, thrVars, cliVars, PcInv, Requests
  <2>2. \A v \in Workers : req'[v] = req[v] /\ (pc'[v] \notin {"idle", "signal", "unref"} => pc[v] \notin {"idle", "signal", "unref"})
    BY <1>0, <1>7 DEF ReaderEnd, thrVars, Go, PcInv, AtExit, InReset
  <2>. QED  BY <2>1, <2>2, AwaitSame
<1>8. ASSUME ReaderExit
      PROVE  AwaitInv'
  <2>1. UNCHANGED <<reqs, awaits>> /\ req'[Reader] = req[Reader]
        /\ (req[Reader] # None => rq'[req[Reader]].kind = rq[req[Reader]].kind)
    BY <1>0, <1>8 DEF ReaderExit, TakeTrans, srvVars, thrVars, cliVars, PcInv, Requests
  <2>2. \A v \in Workers : req'[v] = req[v] /\ (pc'[v] \notin {"idle", "signal", "unref"} => pc[v] \notin {"idle", "signal", "unref"})
    BY <1>0, <1>8 DEF ReaderExit, TakeTrans, thrVars, Go, PcInv, AtExit, InReset
  <2>. QED  BY <2>1, <2>2, AwaitSame
<1>9. ASSUME np_srv_remove_conn
      PROVE  AwaitInv'
  <2>1. UNCHANGED <<reqs, awaits>> /\ req'[Reader] = req[Reader]
        /\ (req[Reader] # None => rq'[req[Reader]].kind = rq[req[Reader]].kind)
    BY <1>0, <1>9 DEF np_srv_remove_conn, np_conn_decref, srvVars, thrVars, cliVars, PcInv, Requests
  <2>2. \A v \in Workers : req'[v] = req[v] /\ (pc'[v] \notin {"idle", "signal", "unref"} => pc[v] \notin {"idle", "signal", "unref"})
    BY <1>0, <1>9 DEF np_srv_remove_conn, np_conn_decref, thrVars, Go, PcInv, AtExit, InReset
  <2>. QED  BY <2>1, <2>2, AwaitSame
<1>10. ASSUME ReaderBye
      PROVE  AwaitInv'
  <2>1. UNCHANGED <<reqs, awaits>> /\ req'[Reader] = req[Reader]
        /\ (req[Reader] # None => rq'[req[Reader]].kind = rq[req[Reader]].kind)
    BY <1>0, <1>10 DEF ReaderBye, np_trans_destroy, srvVars, thrVars, cliVars, PcInv, Requests
  <2>2. \A v \in Workers : req'[v] = req[v] /\ (pc'[v] \notin {"idle", "signal", "unref"} => pc[v] \notin {"idle", "signal", "unref"})
    BY <1>0, <1>10 DEF ReaderBye, np_trans_destroy, thrVars, Go, PcInv, AtExit, InReset
  <2>. QED  BY <2>1, <2>2, AwaitSame
<1>11. ASSUME ReaderLast
      PROVE  AwaitInv'
  <2>1. UNCHANGED <<reqs, awaits>> /\ req'[Reader] = req[Reader]
        /\ (req[Reader] # None => rq'[req[Reader]].kind = rq[req[Reader]].kind)
    BY <1>0, <1>11 DEF ReaderLast, np_conn_decref, srvVars, thrVars, cliVars, PcInv, Requests
  <2>2. \A v \in Workers : req'[v] = req[v] /\ (pc'[v] \notin {"idle", "signal", "unref"} => pc[v] \notin {"idle", "signal", "unref"})
    BY <1>0, <1>11 DEF ReaderLast, np_conn_decref, thrVars, Go, PcInv, AtExit, InReset
  <2>. QED  BY <2>1, <2>2, AwaitSame
<1>12. ASSUME NEW a \in Workers \cup {Reader}, ResetBegin(a)
      PROVE  AwaitInv'
  <2>1. UNCHANGED <<reqs, awaits>> /\ req'[Reader] = req[Reader]
        /\ (req[Reader] # None => rq'[req[Reader]].kind = rq[req[Reader]].kind)
    BY <1>0, <1>12 DEF ResetBegin, srvVars, thrVars, cliVars, PcInv, Requests
  <2>2. \A v \in Workers : req'[v] = req[v] /\ (pc'[v] \notin {"idle", "signal", "unref"} => pc[v] \notin {"idle", "signal", "unref"})
    BY <1>0, <1>12 DEF ResetBegin, thrVars, Go, PcInv, AtExit, InReset
  <2>. QED  BY <2>1, <2>2, AwaitSame
<1>13. ASSUME NEW a \in Workers \cup {Reader}, ResetCollect(a)
      PROVE  AwaitInv'
  <2>1. /\ UNCHANGED awaits /\ reqs' = <<>> /\ req' = req
        /\ \A v \in Workers : pc'[v] \notin {"idle", "signal", "unref"} => pc[v] \notin {"idle", "signal", "unref"}
    BY <1>0, <1>13 DEF ResetCollect, cliVars, Go
  <2>2. \A v \in Workers : Asked(v)' => Asked(v)
    BY <2>1, StaysKept DEF Asked, IsVersion
  <2>3. req[Reader] # None => rq'[req[Reader]].kind = rq[req[Reader]].kind
    BY <1>0, <1>13 DEF ResetCollect, Requests
  <2>4. DOMAIN reqs' = {}
    BY <1>0, <2>1, QueueOf
  <2>. QED  BY <2>1, <2>2, <2>3, <2>4 DEF AwaitInv, IsVersion
<1>14. ASSUME NEW a \in Workers \cup {Reader}, ResetDrop(a)
      PROVE  AwaitInv'
  <2>1. preqs[a] \in SUBSET Reqs /\ \A s \in preqs[a] : rq[s].refs > 0
    BY <1>14, HeldRefs DEF RefsHeld, PcInv, ResetDrop
  <2>2. req[Reader] # None => rq'[req[Reader]].kind = rq[req[Reader]].kind
    <3>1. CASE pc[Reader] \in {"check", "alloc"}
      <4>1. req[Reader] \in Reqs /\ req[Reader] \notin preqs[a]
        BY <1>0, <2>1, <3>1 DEF PcInv, ReaderInv
      <4>. QED  BY <1>14, <2>1, <4>1, UnrefIs DEF ResetDrop
    <3>2. CASE pc[Reader] = "add"
      <4>1. req[Reader] \in Reqs /\ req'[Reader] = req[Reader] /\ pc'[Reader] = "add"
        BY <1>0, <1>14, <3>2 DEF PcInv, ResetDrop, Go
      <4>2. rq[req[Reader]].refs > 0 /\ rq'[req[Reader]].refs > 0
        BY <3>2, <4>1, HeldRefs, HeldRefsNext DEF RefsHeld, PcInv
      <4>. QED  BY <4>1, <4>2, KindKept
    <3>. QED  BY <3>1, <3>2 DEF PcInv
  <2>3. UNCHANGED <<reqs, awaits>> /\ req'[Reader] = req[Reader]
    BY <1>0, <1>14 DEF ResetDrop, srvVars, cliVars
  <2>4. \A v \in Workers : req'[v] = req[v] /\ (pc'[v] \notin {"idle", "signal", "unref"} => pc[v] \notin {"idle", "signal", "unref"})
    BY <1>0, <1>14 DEF ResetDrop, thrVars, Go
  <2>. QED  BY <2>2, <2>3, <2>4, AwaitSame
<1>15. ASSUME NEW a \in Workers \cup {Reader}, ResetWait(a)
      PROVE  AwaitInv'
  <2>1. UNCHANGED <<reqs, awaits>> /\ req'[Reader] = req[Reader]
        /\ (req[Reader] # None => rq'[req[Reader]].kind = rq[req[Reader]].kind)
    BY <1>0, <1>15 DEF ResetWait, srvVars, thrVars, cliVars, PcInv, Requests
  <2>2. \A v \in Workers : req'[v] = req[v] /\ (pc'[v] \notin {"idle", "signal", "unref"} => pc[v] \notin {"idle", "signal", "unref"})
    BY <1>0, <1>15 DEF ResetWait, thrVars, Go, PcInv, AtExit, InReset
  <2>. QED  BY <2>1, <2>2, AwaitSame
<1>16. ASSUME NEW a \in Workers \cup {Reader}, ResetDestroy(a)
      PROVE  AwaitInv'
  <2>1. UNCHANGED <<reqs, awaits>> /\ req'[Reader] = req[Reader]
        /\ (req[Reader] # None => rq'[req[Reader]].kind = rq[req[Reader]].kind)
    BY <1>0, <1>16 DEF ResetDestroy, srvVars, thrVars, cliVars, PcInv, Requests
  <2>2. \A v \in Workers : req'[v] = req[v] /\ (pc'[v] \notin {"idle", "signal", "unref"} => pc[v] \notin {"idle", "signal", "unref"})
    BY <1>0, <1>16 DEF ResetDestroy, thrVars, Go, PcInv, AtExit, InReset
  <2>. QED  BY <2>1, <2>2, AwaitSame
<1>17. ASSUME NEW a \in Workers \cup {Reader}, ResetRenew(a)
      PROVE  AwaitInv'
  <2>1. UNCHANGED <<reqs, awaits>> /\ req'[Reader] = req[Reader]
        /\ (req[Reader] # None => rq'[req[Reader]].kind = rq[req[Reader]].kind)
    BY <1>0, <1>17 DEF ResetRenew, srvVars, thrVars, cliVars, PcInv, Requests
  <2>2. \A v \in Workers : req'[v] = req[v] /\ (pc'[v] \notin {"idle", "signal", "unref"} => pc[v] \notin {"idle", "signal", "unref"})
    BY <1>0, <1>17 DEF ResetRenew, thrVars, Go, PcInv, AtExit, InReset
  <2>. QED  BY <2>1, <2>2, AwaitSame
<1>18. ASSUME NEW a \in Workers \cup {Reader}, ResetPool(a)
      PROVE  AwaitInv'
  <2>1. UNCHANGED <<reqs, awaits>> /\ req'[Reader] = req[Reader]
        /\ (req[Reader] # None => rq'[req[Reader]].kind = rq[req[Reader]].kind)
    BY <1>0, <1>18 DEF ResetPool, srvVars, thrVars, cliVars, PcInv, Requests
  <2>2. \A v \in Workers : req'[v] = req[v] /\ (pc'[v] \notin {"idle", "signal", "unref"} => pc[v] \notin {"idle", "signal", "unref"})
    BY <1>0, <1>18 DEF ResetPool, thrVars, Go, PcInv, AtExit, InReset
  <2>. QED  BY <2>1, <2>2, AwaitSame
<1>19. ASSUME NEW a \in Workers \cup {Reader}, ResetReopen(a)
      PROVE  AwaitInv'
  <2>1. UNCHANGED <<reqs, awaits>> /\ req'[Reader] = req[Reader]
        /\ (req[Reader] # None => rq'[req[Reader]].kind = rq[req[Reader]].kind)
    BY <1>0, <1>19 DEF ResetReopen, srvVars, thrVars, cliVars, PcInv, Requests
  <2>2. \A v \in Workers : req'[v] = req[v] /\ (pc'[v] \notin {"idle", "signal", "unref"} => pc[v] \notin {"idle", "signal", "unref"})
    BY <1>0, <1>19 DEF ResetReopen, thrVars, Go, PcInv, AtExit, InReset
  <2>. QED  BY <2>1, <2>2, AwaitSame
<1>20. ASSUME NEW a \in Workers \cup {Reader}, ResetUnkeep(a)
      PROVE  AwaitInv'
  <2>1. kept[a] \in SUBSET Reqs /\ \A s \in kept[a] : rq[s].refs > 0
    BY <1>20, HeldRefs DEF RefsHeld, PcInv, ResetUnkeep
  <2>2. req[Reader] # None => rq'[req[Reader]].kind = rq[req[Reader]].kind
    <3>1. CASE pc[Reader] \in {"check", "alloc"}
      <4>1. req[Reader] \in Reqs /\ req[Reader] \notin kept[a]
        BY <1>0, <2>1, <3>1 DEF PcInv, ReaderInv
      <4>. QED  BY <1>20, <2>1, <4>1, UnrefIs DEF ResetUnkeep
    <3>2. CASE pc[Reader] = "add"
      <4>1. req[Reader] \in Reqs /\ req'[Reader] = req[Reader] /\ pc'[Reader] = "add"
        BY <1>0, <1>20, <3>2 DEF PcInv, ResetUnkeep, Go
      <4>2. rq[req[Reader]].refs > 0 /\ rq'[req[Reader]].refs > 0
        BY <3>2, <4>1, HeldRefs, HeldRefsNext DEF RefsHeld, PcInv
      <4>. QED  BY <4>1, <4>2, KindKept
    <3>. QED  BY <3>1, <3>2 DEF PcInv
  <2>3. UNCHANGED <<reqs, awaits>> /\ req'[Reader] = req[Reader]
    BY <1>0, <1>20 DEF ResetUnkeep, srvVars, cliVars
  <2>4. \A v \in Workers : req'[v] = req[v] /\ (pc'[v] \notin {"idle", "signal", "unref"} => pc[v] \notin {"idle", "signal", "unref"})
    BY <1>0, <1>20 DEF ResetUnkeep, thrVars, Go
  <2>. QED  BY <2>2, <2>3, <2>4, AwaitSame
<1>21. ASSUME NEW w \in Workers, WorkerTake(w)
      PROVE  AwaitInv'
  <2>. DEFINE r == Head(reqs)
  <2>1. r \in Reqs /\ r = reqs[1] /\ Len(reqs) \in Nat \ {0} /\ DOMAIN reqs = 1 .. Len(reqs)
        /\ Len(reqs') = Len(reqs) - 1 /\ DOMAIN reqs' = 1 .. (Len(reqs) - 1) /\ reqs' \in Seq(Reqs)
        /\ \A i \in 1 .. (Len(reqs) - 1) : reqs'[i] = reqs[i + 1]
    BY <1>0, <1>21, TailOf DEF WorkerTake
  <2>2. /\ UNCHANGED <<rq, awaits>> /\ req'[Reader] = req[Reader] /\ req'[w] = r /\ reqs # <<>>
        /\ \A v \in Workers \ {w} : req'[v] = req[v] /\ pc'[v] = pc[v]
    BY <1>0, <1>21 DEF WorkerTake, cliVars, Go
  <2>. HIDE DEF r
  <2>3. \A v \in Workers \ {w} : ~Asked(v)'
    BY <2>2 DEF AwaitInv, Asked, IsVersion
  <2>4. ASSUME Asked(w)' PROVE awaits' /\ reqs' = <<>> /\ req'[Reader] = None
    <3>1. IsVersion(reqs[1]) /\ 1 \in DOMAIN reqs
      BY <2>1, <2>2, <2>4 DEF Asked, IsVersion
    <3>2. awaits /\ 1 = Len(reqs) /\ req[Reader] = None
      BY <3>1 DEF AwaitInv
    <3>3. Len(reqs') = 0
      <4>1. Len(reqs') = Len(reqs) - 1 /\ Len(reqs) = 1 /\ Len(reqs) \in Nat
        BY <2>1, <3>2
      <4>. QED  BY <4>1
    <3>4. reqs' = <<>>
      BY <2>1, <3>3, EmptySeq
    <3>. QED  BY <2>2, <3>2, <3>4
  <2>5. ASSUME NEW i \in DOMAIN reqs', rq'[reqs'[i]].kind = "version" PROVE awaits' /\ i = Len(reqs') /\ req'[Reader] = None
    <3>1. IsVersion(reqs[i + 1]) /\ i + 1 \in DOMAIN reqs
      BY <2>1, <2>2, <2>5 DEF IsVersion
    <3>2. awaits /\ i + 1 = Len(reqs) /\ req[Reader] = None
      BY <3>1 DEF AwaitInv
    <3>. QED  BY <2>1, <2>2, <3>2
  <2>. QED  BY <2>2, <2>3, <2>4, <2>5 DEF AwaitInv, IsVersion
<1>22. ASSUME NEW w \in Workers, Process(w)
      PROVE  AwaitInv'
  <2>1. UNCHANGED <<reqs, awaits>> /\ req'[Reader] = req[Reader]
        /\ (req[Reader] # None => rq'[req[Reader]].kind = rq[req[Reader]].kind)
    BY <1>0, <1>22 DEF Process, srvVars, thrVars, cliVars, PcInv, Requests
  <2>2. \A v \in Workers : req'[v] = req[v] /\ (pc'[v] \notin {"idle", "signal", "unref"} => pc[v] \notin {"idle", "signal", "unref"})
    BY <1>0, <1>22 DEF Process, thrVars, Go, PcInv, AtExit, InReset
  <2>. QED  BY <2>1, <2>2, AwaitSame
<1>23. ASSUME NEW w \in Workers, np_version(w)
      PROVE  AwaitInv'
  <2>1. UNCHANGED <<reqs, awaits>> /\ req'[Reader] = req[Reader]
        /\ (req[Reader] # None => rq'[req[Reader]].kind = rq[req[Reader]].kind)
    BY <1>0, <1>23 DEF np_version, srvVars, thrVars, cliVars, PcInv, Requests
  <2>2. \A v \in Workers : req'[v] = req[v] /\ (pc'[v] \notin {"idle", "signal", "unref"} => pc[v] \notin {"idle", "signal", "unref"})
    BY <1>0, <1>23 DEF np_version, thrVars, Go, PcInv, AtExit, InReset
  <2>. QED  BY <2>1, <2>2, AwaitSame
<1>24. ASSUME NEW w \in Workers, RespondUnlink(w)
      PROVE  AwaitInv'
  <2>1. UNCHANGED <<reqs, awaits>> /\ req'[Reader] = req[Reader]
        /\ (req[Reader] # None => rq'[req[Reader]].kind = rq[req[Reader]].kind)
    BY <1>0, <1>24 DEF RespondUnlink, srvVars, thrVars, cliVars, PcInv, Requests
  <2>2. \A v \in Workers : req'[v] = req[v] /\ (pc'[v] \notin {"idle", "signal", "unref"} => pc[v] \notin {"idle", "signal", "unref"})
    BY <1>0, <1>24 DEF RespondUnlink, thrVars, Go, PcInv, AtExit, InReset
  <2>. QED  BY <2>1, <2>2, AwaitSame
<1>25. ASSUME NEW w \in Workers, RespondFid(w)
      PROVE  AwaitInv'
  <2>1. UNCHANGED <<reqs, awaits>> /\ req'[Reader] = req[Reader]
        /\ (req[Reader] # None => rq'[req[Reader]].kind = rq[req[Reader]].kind)
    BY <1>0, <1>25 DEF RespondFid, srvVars, thrVars, cliVars, PcInv, Requests
  <2>2. \A v \in Workers : req'[v] = req[v] /\ (pc'[v] \notin {"idle", "signal", "unref"} => pc[v] \notin {"idle", "signal", "unref"})
    BY <1>0, <1>25 DEF RespondFid, thrVars, Go, PcInv, AtExit, InReset
  <2>. QED  BY <2>1, <2>2, AwaitSame
<1>26. ASSUME NEW w \in Workers, RespondSend(w)
      PROVE  AwaitInv'
  <2>1. UNCHANGED <<reqs, awaits>> /\ req'[Reader] = req[Reader]
        /\ (req[Reader] # None => rq'[req[Reader]].kind = rq[req[Reader]].kind)
    BY <1>0, <1>26 DEF RespondSend, srvVars, thrVars, cliVars, PcInv, Requests
  <2>2. \A v \in Workers : req'[v] = req[v] /\ (pc'[v] \notin {"idle", "signal", "unref"} => pc[v] \notin {"idle", "signal", "unref"})
    BY <1>0, <1>26 DEF RespondSend, thrVars, Go, PcInv, AtExit, InReset
  <2>. QED  BY <2>1, <2>2, AwaitSame
<1>27. ASSUME NEW w \in Workers, RespondWrite(w)
      PROVE  AwaitInv'
  <2>1. UNCHANGED <<reqs, req, rq>> /\ pc[w] = "write" /\ pc'[w] = "signal"
        /\ \A v \in Workers \ {w} : pc'[v] = pc[v]
    BY <1>0, <1>27 DEF RespondWrite, srvVars, Go
  <2>2. CASE UNCHANGED awaits
    BY <2>1, <2>2, AwaitSame
  <2>3. CASE awaits' = (awaits /\ rq[req[w]].kind # "version")
    <3>1. CASE Asked(w)
      BY <2>1, <3>1 DEF AwaitInv, Asked, IsVersion
    <3>2. CASE ~Asked(w)
      <4>1. UNCHANGED awaits
        BY <1>0, <2>1, <2>3, <3>2 DEF Asked, IsVersion
      <4>. QED  BY <2>1, <4>1, AwaitSame
    <3>. QED  BY <3>1, <3>2
  <2>. QED  BY <1>27, <2>2, <2>3 DEF RespondWrite
<1>28. ASSUME NEW w \in Workers, RespondSignal(w)
      PROVE  AwaitInv'
  <2>1. UNCHANGED <<reqs, awaits>> /\ req'[Reader] = req[Reader]
        /\ (req[Reader] # None => rq'[req[Reader]].kind = rq[req[Reader]].kind)
    BY <1>0, <1>28 DEF RespondSignal, np_trans_destroy, srvVars, thrVars, cliVars, PcInv, Requests
  <2>2. \A v \in Workers : req'[v] = req[v] /\ (pc'[v] \notin {"idle", "signal", "unref"} => pc[v] \notin {"idle", "signal", "unref"})
    BY <1>0, <1>28 DEF RespondSignal, np_trans_destroy, thrVars, Go, PcInv, AtExit, InReset
  <2>. QED  BY <2>1, <2>2, AwaitSame
<1>29. ASSUME NEW w \in Workers, RespondUnref(w)
      PROVE  AwaitInv'
  <2>1. {req[w]} \in SUBSET Reqs /\ \A s \in {req[w]} : rq[s].refs > 0
    BY <1>29, HeldRefs DEF RefsHeld, PcInv, RespondUnref
  <2>2. req[Reader] # None => rq'[req[Reader]].kind = rq[req[Reader]].kind
    <3>1. CASE pc[Reader] \in {"check", "alloc"}
      <4>1. req[Reader] \in Reqs /\ req[Reader] \notin {req[w]}
        BY <1>0, <2>1, <3>1 DEF PcInv, ReaderInv
      <4>. QED  BY <1>29, <2>1, <4>1, UnrefIs DEF RespondUnref
    <3>2. CASE pc[Reader] = "add"
      <4>1. req[Reader] \in Reqs /\ req'[Reader] = req[Reader] /\ pc'[Reader] = "add"
        BY <1>0, <1>29, <3>2 DEF PcInv, RespondUnref, Go
      <4>2. rq[req[Reader]].refs > 0 /\ rq'[req[Reader]].refs > 0
        BY <3>2, <4>1, HeldRefs, HeldRefsNext DEF RefsHeld, PcInv
      <4>. QED  BY <4>1, <4>2, KindKept
    <3>. QED  BY <3>1, <3>2 DEF PcInv
  <2>3. UNCHANGED <<reqs, awaits>> /\ req'[Reader] = req[Reader]
    BY <1>0, <1>29 DEF RespondUnref, srvVars, cliVars
  <2>4. \A v \in Workers : pc'[v] # "idle" => req'[v] = req[v] /\ pc'[v] = pc[v]
    BY <1>0, <1>29 DEF RespondUnref, Go
  <2>5. \A v \in Workers : Asked(v)' => Asked(v)
    BY <2>4, StaysKept DEF Asked, IsVersion
  <2>6. \A i \in DOMAIN reqs : IsVersion(reqs[i])' <=> IsVersion(reqs[i])
    BY <1>0, <2>3, StaysKept, QueueOf DEF IsVersion
  <2>. QED  BY <2>2, <2>3, <2>5, <2>6 DEF AwaitInv, IsVersion
<1>30. ASSUME NEW shutconns \in BOOLEAN, np_srv_shutdown(shutconns)
      PROVE  AwaitInv'
  <2>1. UNCHANGED <<reqs, awaits>> /\ req'[Reader] = req[Reader]
        /\ (req[Reader] # None => rq'[req[Reader]].kind = rq[req[Reader]].kind)
    BY <1>0, <1>30 DEF np_srv_shutdown, srvVars, thrVars, cliVars, PcInv, Requests
  <2>2. \A v \in Workers : req'[v] = req[v] /\ (pc'[v] \notin {"idle", "signal", "unref"} => pc[v] \notin {"idle", "signal", "unref"})
    BY <1>0, <1>30 DEF np_srv_shutdown, thrVars, Go, PcInv, AtExit, InReset
  <2>. QED  BY <2>1, <2>2, AwaitSame
<1>31. ASSUME np_conn_shutdown
      PROVE  AwaitInv'
  <2>1. UNCHANGED <<reqs, awaits>> /\ req'[Reader] = req[Reader]
        /\ (req[Reader] # None => rq'[req[Reader]].kind = rq[req[Reader]].kind)
    BY <1>0, <1>31 DEF np_conn_shutdown, srvVars, thrVars, cliVars, PcInv, Requests
  <2>2. \A v \in Workers : req'[v] = req[v] /\ (pc'[v] \notin {"idle", "signal", "unref"} => pc[v] \notin {"idle", "signal", "unref"})
    BY <1>0, <1>31 DEF np_conn_shutdown, thrVars, Go, PcInv, AtExit, InReset
  <2>. QED  BY <2>1, <2>2, AwaitSame
<1>32. ASSUME StopperDecref
      PROVE  AwaitInv'
  <2>1. UNCHANGED <<reqs, awaits>> /\ req'[Reader] = req[Reader]
        /\ (req[Reader] # None => rq'[req[Reader]].kind = rq[req[Reader]].kind)
    BY <1>0, <1>32 DEF StopperDecref, np_conn_decref, srvVars, thrVars, cliVars, PcInv, Requests
  <2>2. \A v \in Workers : req'[v] = req[v] /\ (pc'[v] \notin {"idle", "signal", "unref"} => pc[v] \notin {"idle", "signal", "unref"})
    BY <1>0, <1>32 DEF StopperDecref, np_conn_decref, thrVars, Go, PcInv, AtExit, InReset
  <2>. QED  BY <2>1, <2>2, AwaitSame
<1>. QED
  BY <1>1, <1>2, <1>3, <1>4, <1>5, <1>6, <1>7, <1>8, <1>9, <1>10, <1>11, <1>12,
     <1>13, <1>14, <1>15, <1>16, <1>17, <1>18, <1>19, <1>20, <1>21, <1>22,
     <1>23, <1>24, <1>25, <1>26, <1>27, <1>28, <1>29, <1>30, <1>31, <1>32
     DEF Next, np_conn_read_proc, Worker, np_conn_reset

\* A worker that resets the connection has a Tversion, and is the only one.
LEMMA OneReset ==
    ASSUME TypeOK, PcInv, WorkInv, AwaitInv, NEW w \in Workers, NEW v \in Workers,
           pc[w] \in InReset \cup {"renew", "newpool"}, pc[v] \in InReset \cup {"renew", "newpool"}
    PROVE  w = v /\ Asked(w)
<1>1. Asked(w) /\ Asked(v)
  BY DEF WorkInv, Asked, IsVersion, InReset
<1>. QED  BY <1>1 DEF AwaitInv

\* A request that stays on workreqs stays what it is.
LEMMA WorkStays ==
    ASSUME TypeOK, PcInv, HoldInv, ReaderInv, WorkInv, Next, TypeOK', PcInv', HoldInv', WorkInv',
           NEW r \in workreqs, workreqs' = workreqs
    PROVE  rq'[r].kind = rq[r].kind
<1>1. r \in Reqs /\ r \in workreqs'
  BY DEF TypeOK
<1>2. PICK w \in Workers : req[w] = r /\ pc[w] \in Working
  BY <1>1 DEF WorkInv
<1>3. PICK v \in Workers : req'[v] = r /\ pc'[v] \in Working
  BY <1>1 DEF WorkInv
<1>4. rq[r].refs > 0 /\ rq'[r].refs > 0
  BY <1>1, <1>2, <1>3, HeldRefs, HeldRefsNext DEF RefsHeld, PcInv, Actors, Working, InReset
<1>. QED  BY <1>1, <1>4, KindKept

\* Every step of a careful client's connection keeps AloneInv.
LEMMA AloneKeeps ==
    ASSUME TypeOK, PcInv, HoldInv, WorkInv, ReaderInv, AwaitInv, AloneInv, TypeOK', PcInv', HoldInv', WorkInv', Next
    PROVE  AloneInv'
<1>. USE NpConnAssumption DEF Actors
<1>0. /\ pc \in [Actors -> Locations] /\ req \in [Actors -> Reqs \cup {None}]
      /\ reqs \in Seq(Reqs) /\ workreqs \in SUBSET Reqs /\ rq \in [Reqs -> Requests]
      /\ awaits \in BOOLEAN /\ resetting \in BOOLEAN
  BY DEF TypeOK, Requests
<1>1. ASSUME ReaderStart
      PROVE  AloneInv'
  <2>1. UNCHANGED <<workreqs, resetting>>
    BY <1>1 DEF ReaderStart, connVars, srvVars
  <2>2. \A v \in Workers : /\ pc'[v] \in {"destroy", "renew", "newpool"} => pc[v] \in {"destroy", "renew", "newpool"}
                           /\ pc'[v] \in {"collect", "drop", "wait", "destroy", "renew"} =>
                                pc[v] \in {"collect", "drop", "wait", "destroy", "renew"}
    BY <1>0, <1>1 DEF ReaderStart, Go
  <2>3. \A s \in workreqs : IsVersion(s)' <=> IsVersion(s)
    BY <2>1, WorkStays DEF IsVersion
  <2>. QED  BY <2>1, <2>2, <2>3 DEF AloneInv
<1>2. ASSUME NEW r \in Reqs, NEW kind \in Kinds, ReaderRecv(r, kind)
      PROVE  AloneInv'
  <2>1. UNCHANGED <<workreqs, resetting>>
    BY <1>2 DEF ReaderRecv, connVars, srvVars
  <2>2. \A v \in Workers : /\ pc'[v] \in {"destroy", "renew", "newpool"} => pc[v] \in {"destroy", "renew", "newpool"}
                           /\ pc'[v] \in {"collect", "drop", "wait", "destroy", "renew"} =>
                                pc[v] \in {"collect", "drop", "wait", "destroy", "renew"}
    BY <1>0, <1>2 DEF ReaderRecv, Go
  <2>3. \A s \in workreqs : IsVersion(s)' <=> IsVersion(s)
    BY <2>1, WorkStays DEF IsVersion
  <2>. QED  BY <2>1, <2>2, <2>3 DEF AloneInv
<1>3. ASSUME ReaderCheck
      PROVE  AloneInv'
  <2>1. UNCHANGED <<workreqs, resetting>>
    BY <1>3 DEF ReaderCheck, connVars, srvVars
  <2>2. \A v \in Workers : /\ pc'[v] \in {"destroy", "renew", "newpool"} => pc[v] \in {"destroy", "renew", "newpool"}
                           /\ pc'[v] \in {"collect", "drop", "wait", "destroy", "renew"} =>
                                pc[v] \in {"collect", "drop", "wait", "destroy", "renew"}
    BY <1>0, <1>3 DEF ReaderCheck, Go
  <2>3. \A s \in workreqs : IsVersion(s)' <=> IsVersion(s)
    BY <2>1, WorkStays DEF IsVersion
  <2>. QED  BY <2>1, <2>2, <2>3 DEF AloneInv
<1>4. ASSUME ReaderAlloc
      PROVE  AloneInv'
  <2>1. UNCHANGED <<workreqs, resetting>>
    BY <1>4 DEF ReaderAlloc, connVars, srvVars
  <2>2. \A v \in Workers : /\ pc'[v] \in {"destroy", "renew", "newpool"} => pc[v] \in {"destroy", "renew", "newpool"}
                           /\ pc'[v] \in {"collect", "drop", "wait", "destroy", "renew"} =>
                                pc[v] \in {"collect", "drop", "wait", "destroy", "renew"}
    BY <1>0, <1>4 DEF ReaderAlloc, Go
  <2>3. \A s \in workreqs : IsVersion(s)' <=> IsVersion(s)
    BY <2>1, WorkStays DEF IsVersion
  <2>. QED  BY <2>1, <2>2, <2>3 DEF AloneInv
<1>5. ASSUME ReaderSleep
      PROVE  AloneInv'
  <2>1. UNCHANGED <<workreqs, resetting>>
    BY <1>5 DEF ReaderSleep, connVars, srvVars
  <2>2. \A v \in Workers : /\ pc'[v] \in {"destroy", "renew", "newpool"} => pc[v] \in {"destroy", "renew", "newpool"}
                           /\ pc'[v] \in {"collect", "drop", "wait", "destroy", "renew"} =>
                                pc[v] \in {"collect", "drop", "wait", "destroy", "renew"}
    BY <1>0, <1>5 DEF ReaderSleep, Go
  <2>3. \A s \in workreqs : IsVersion(s)' <=> IsVersion(s)
    BY <2>1, WorkStays DEF IsVersion
  <2>. QED  BY <2>1, <2>2, <2>3 DEF AloneInv
<1>6. ASSUME ReaderAdd
      PROVE  AloneInv'
  <2>1. UNCHANGED <<workreqs, resetting>>
    BY <1>6 DEF ReaderAdd, connVars, srvVars
  <2>2. \A v \in Workers : /\ pc'[v] \in {"destroy", "renew", "newpool"} => pc[v] \in {"destroy", "renew", "newpool"}
                           /\ pc'[v] \in {"collect", "drop", "wait", "destroy", "renew"} =>
                                pc[v] \in {"collect", "drop", "wait", "destroy", "renew"}
    BY <1>0, <1>6 DEF ReaderAdd, Go
  <2>3. \A s \in workreqs : IsVersion(s)' <=> IsVersion(s)
    BY <2>1, WorkStays DEF IsVersion
  <2>. QED  BY <2>1, <2>2, <2>3 DEF AloneInv
<1>7. ASSUME ReaderEnd
      PROVE  AloneInv'
  <2>1. UNCHANGED <<workreqs, resetting>>
    BY <1>7 DEF ReaderEnd, connVars, srvVars
  <2>2. \A v \in Workers : /\ pc'[v] \in {"destroy", "renew", "newpool"} => pc[v] \in {"destroy", "renew", "newpool"}
                           /\ pc'[v] \in {"collect", "drop", "wait", "destroy", "renew"} =>
                                pc[v] \in {"collect", "drop", "wait", "destroy", "renew"}
    BY <1>0, <1>7 DEF ReaderEnd, Go
  <2>3. \A s \in workreqs : IsVersion(s)' <=> IsVersion(s)
    BY <2>1, WorkStays DEF IsVersion
  <2>. QED  BY <2>1, <2>2, <2>3 DEF AloneInv
<1>8. ASSUME ReaderExit
      PROVE  AloneInv'
  <2>1. UNCHANGED <<workreqs, resetting>>
    BY <1>8 DEF ReaderExit, TakeTrans, connVars, srvVars
  <2>2. \A v \in Workers : /\ pc'[v] \in {"destroy", "renew", "newpool"} => pc[v] \in {"destroy", "renew", "newpool"}
                           /\ pc'[v] \in {"collect", "drop", "wait", "destroy", "renew"} =>
                                pc[v] \in {"collect", "drop", "wait", "destroy", "renew"}
    BY <1>0, <1>8 DEF ReaderExit, TakeTrans, Go
  <2>3. \A s \in workreqs : IsVersion(s)' <=> IsVersion(s)
    BY <2>1, WorkStays DEF IsVersion
  <2>. QED  BY <2>1, <2>2, <2>3 DEF AloneInv
<1>9. ASSUME np_srv_remove_conn
      PROVE  AloneInv'
  <2>1. UNCHANGED <<workreqs, resetting>>
    BY <1>9 DEF np_srv_remove_conn, np_conn_decref, connVars, srvVars
  <2>2. \A v \in Workers : /\ pc'[v] \in {"destroy", "renew", "newpool"} => pc[v] \in {"destroy", "renew", "newpool"}
                           /\ pc'[v] \in {"collect", "drop", "wait", "destroy", "renew"} =>
                                pc[v] \in {"collect", "drop", "wait", "destroy", "renew"}
    BY <1>0, <1>9 DEF np_srv_remove_conn, np_conn_decref, Go
  <2>3. \A s \in workreqs : IsVersion(s)' <=> IsVersion(s)
    BY <2>1, WorkStays DEF IsVersion
  <2>. QED  BY <2>1, <2>2, <2>3 DEF AloneInv
<1>10. ASSUME ReaderBye
      PROVE  AloneInv'
  <2>1. UNCHANGED <<workreqs, resetting>>
    BY <1>10 DEF ReaderBye, np_trans_destroy, connVars, srvVars
  <2>2. \A v \in Workers : /\ pc'[v] \in {"destroy", "renew", "newpool"} => pc[v] \in {"destroy", "renew", "newpool"}
                           /\ pc'[v] \in {"collect", "drop", "wait", "destroy", "renew"} =>
                                pc[v] \in {"collect", "drop", "wait", "destroy", "renew"}
    BY <1>0, <1>10 DEF ReaderBye, np_trans_destroy, Go
  <2>3. \A s \in workreqs : IsVersion(s)' <=> IsVersion(s)
    BY <2>1, WorkStays DEF IsVersion
  <2>. QED  BY <2>1, <2>2, <2>3 DEF AloneInv
<1>11. ASSUME ReaderLast
      PROVE  AloneInv'
  <2>1. UNCHANGED <<workreqs, resetting>>
    BY <1>11 DEF ReaderLast, np_conn_decref, connVars, srvVars
  <2>2. \A v \in Workers : /\ pc'[v] \in {"destroy", "renew", "newpool"} => pc[v] \in {"destroy", "renew", "newpool"}
                           /\ pc'[v] \in {"collect", "drop", "wait", "destroy", "renew"} =>
                                pc[v] \in {"collect", "drop", "wait", "destroy", "renew"}
    BY <1>0, <1>11 DEF ReaderLast, np_conn_decref, Go
  <2>3. \A s \in workreqs : IsVersion(s)' <=> IsVersion(s)
    BY <2>1, WorkStays DEF IsVersion
  <2>. QED  BY <2>1, <2>2, <2>3 DEF AloneInv
<1>12. ASSUME NEW a \in Workers \cup {Reader}, ResetBegin(a)
      PROVE  AloneInv'
  <2>1. UNCHANGED <<workreqs, rq>> /\ resetting'
    BY <1>12 DEF ResetBegin, srvVars
  <2>2. \A v \in Workers : pc'[v] \in {"destroy", "renew", "newpool"} => pc[v] \in {"destroy", "renew", "newpool"}
    BY <1>0, <1>12 DEF ResetBegin, Go
  <2>. QED  BY <2>1, <2>2 DEF AloneInv, IsVersion
<1>13. ASSUME NEW a \in Workers \cup {Reader}, ResetCollect(a)
      PROVE  AloneInv'
  <2>1. UNCHANGED <<workreqs, resetting>>
    BY <1>13 DEF ResetCollect, connVars, srvVars
  <2>2. \A v \in Workers : /\ pc'[v] \in {"destroy", "renew", "newpool"} => pc[v] \in {"destroy", "renew", "newpool"}
                           /\ pc'[v] \in {"collect", "drop", "wait", "destroy", "renew"} =>
                                pc[v] \in {"collect", "drop", "wait", "destroy", "renew"}
    BY <1>0, <1>13 DEF ResetCollect, Go
  <2>3. \A s \in workreqs : IsVersion(s)' <=> IsVersion(s)
    BY <2>1, WorkStays DEF IsVersion
  <2>. QED  BY <2>1, <2>2, <2>3 DEF AloneInv
<1>14. ASSUME NEW a \in Workers \cup {Reader}, ResetDrop(a)
      PROVE  AloneInv'
  <2>1. UNCHANGED <<workreqs, resetting>>
    BY <1>14 DEF ResetDrop, connVars, srvVars
  <2>2. \A v \in Workers : /\ pc'[v] \in {"destroy", "renew", "newpool"} => pc[v] \in {"destroy", "renew", "newpool"}
                           /\ pc'[v] \in {"collect", "drop", "wait", "destroy", "renew"} =>
                                pc[v] \in {"collect", "drop", "wait", "destroy", "renew"}
    BY <1>0, <1>14 DEF ResetDrop, Go
  <2>3. \A s \in workreqs : IsVersion(s)' <=> IsVersion(s)
    BY <2>1, WorkStays DEF IsVersion
  <2>. QED  BY <2>1, <2>2, <2>3 DEF AloneInv
<1>15. ASSUME NEW a \in Workers \cup {Reader}, ResetWait(a)
      PROVE  AloneInv'
  <2>1. UNCHANGED <<workreqs, rq, resetting>> /\ pc[a] = "wait"
        /\ (pc' = pc \/ (Awaited(a) = {} /\ pc'[a] = "destroy"))
        /\ \A v \in Workers \ {a} : pc'[v] = pc[v]
    BY <1>0, <1>15 DEF ResetWait, srvVars, connVars, Go
  <2>2. CASE pc' = pc
    BY <2>1, <2>2 DEF AloneInv, IsVersion
  <2>3. CASE Awaited(a) = {} /\ pc'[a] = "destroy" /\ a \in Workers
    <3>1. \A s \in workreqs : IsVersion(s)
      BY <2>3 DEF Awaited, IsVersion
    <3>. QED  BY <2>1, <2>3, <3>1 DEF AloneInv, IsVersion
  <2>4. CASE a = Reader
    BY <2>1, <2>4 DEF AloneInv, IsVersion
  <2>. QED  BY <2>1, <2>2, <2>3, <2>4
<1>16. ASSUME NEW a \in Workers \cup {Reader}, ResetDestroy(a)
      PROVE  AloneInv'
  <2>1. UNCHANGED <<workreqs, resetting>>
    BY <1>16 DEF ResetDestroy, connVars, srvVars
  <2>2. \A v \in Workers : /\ pc'[v] \in {"destroy", "renew", "newpool"} => pc[v] \in {"destroy", "renew", "newpool"}
                           /\ pc'[v] \in {"collect", "drop", "wait", "destroy", "renew"} =>
                                pc[v] \in {"collect", "drop", "wait", "destroy", "renew"}
    BY <1>0, <1>16 DEF ResetDestroy, Go
  <2>3. \A s \in workreqs : IsVersion(s)' <=> IsVersion(s)
    BY <2>1, WorkStays DEF IsVersion
  <2>. QED  BY <2>1, <2>2, <2>3 DEF AloneInv
<1>17. ASSUME NEW a \in Workers \cup {Reader}, ResetRenew(a)
      PROVE  AloneInv'
  <2>1. UNCHANGED <<workreqs, rq>> /\ pc[a] = "renew" /\ pc'[a] = "newpool" /\ a \in Workers
        /\ \A v \in Workers \ {a} : pc'[v] = pc[v]
    BY <1>0, <1>17 DEF ResetRenew, srvVars, Go, PcInv, AtExit, InReset
  <2>2. \A v \in Workers \ {a} : pc[v] \notin InReset \cup {"renew", "newpool"}
    BY <2>1, OneReset DEF InReset
  <2>. QED  BY <2>1, <2>2 DEF AloneInv, InReset, IsVersion
<1>18. ASSUME NEW a \in Workers \cup {Reader}, ResetPool(a)
      PROVE  AloneInv'
  <2>1. UNCHANGED <<workreqs, resetting>>
    BY <1>18 DEF ResetPool, connVars, srvVars
  <2>2. \A v \in Workers : /\ pc'[v] \in {"destroy", "renew", "newpool"} => pc[v] \in {"destroy", "renew", "newpool"}
                           /\ pc'[v] \in {"collect", "drop", "wait", "destroy", "renew"} =>
                                pc[v] \in {"collect", "drop", "wait", "destroy", "renew"}
    BY <1>0, <1>18 DEF ResetPool, Go
  <2>3. \A s \in workreqs : IsVersion(s)' <=> IsVersion(s)
    BY <2>1, WorkStays DEF IsVersion
  <2>. QED  BY <2>1, <2>2, <2>3 DEF AloneInv
<1>19. ASSUME NEW a \in Workers \cup {Reader}, ResetReopen(a)
      PROVE  AloneInv'
  <2>1. UNCHANGED <<workreqs, rq>> /\ pc[a] = "reopen" /\ pc'[a] = "unkeep"
        /\ \A v \in Workers \ {a} : pc'[v] = pc[v]
    BY <1>0, <1>19 DEF ResetReopen, srvVars, Go
  <2>2. CASE a = Reader
    <3>1. workreqs = {}
      BY <2>1, <2>2 DEF ReaderInv
    <3>2. \A v \in Workers : pc[v] \notin Working
      BY <1>0, <3>1 DEF WorkInv, PcInv, Working, InReset
    <3>. QED  BY <2>1, <2>2, <3>2 DEF AloneInv, Working, InReset
  <2>3. CASE a \in Workers
    <3>1. \A v \in Workers \ {a} : pc[v] \notin InReset \cup {"renew", "newpool"}
      BY <2>1, <2>3, OneReset DEF InReset
    <3>. QED  BY <2>1, <2>3, <3>1 DEF AloneInv, InReset, IsVersion
  <2>. QED  BY <2>2, <2>3
<1>20. ASSUME NEW a \in Workers \cup {Reader}, ResetUnkeep(a)
      PROVE  AloneInv'
  <2>1. UNCHANGED <<workreqs, resetting>>
    BY <1>20 DEF ResetUnkeep, connVars, srvVars
  <2>2. \A v \in Workers : /\ pc'[v] \in {"destroy", "renew", "newpool"} => pc[v] \in {"destroy", "renew", "newpool"}
                           /\ pc'[v] \in {"collect", "drop", "wait", "destroy", "renew"} =>
                                pc[v] \in {"collect", "drop", "wait", "destroy", "renew"}
    BY <1>0, <1>20 DEF ResetUnkeep, Go
  <2>3. \A s \in workreqs : IsVersion(s)' <=> IsVersion(s)
    BY <2>1, WorkStays DEF IsVersion
  <2>. QED  BY <2>1, <2>2, <2>3 DEF AloneInv
<1>21. ASSUME NEW w \in Workers, WorkerTake(w)
      PROVE  AloneInv'
  <2>1. UNCHANGED resetting /\ pc'[w] = "process" /\ reqs # <<>> /\ \A v \in Workers \ {w} : pc'[v] = pc[v]
    BY <1>0, <1>21 DEF WorkerTake, connVars, Go
  <2>2. \A v \in Workers : pc[v] \notin InReset \cup {"renew", "newpool"}
    BY <2>1, OneReset DEF AwaitInv
  <2>. QED  BY <2>1, <2>2 DEF AloneInv, InReset
<1>22. ASSUME NEW w \in Workers, Process(w)
      PROVE  AloneInv'
  <2>1. UNCHANGED <<workreqs, resetting>>
    BY <1>22 DEF Process, connVars, srvVars
  <2>2. \A v \in Workers : /\ pc'[v] \in {"destroy", "renew", "newpool"} => pc[v] \in {"destroy", "renew", "newpool"}
                           /\ pc'[v] \in {"collect", "drop", "wait", "destroy", "renew"} =>
                                pc[v] \in {"collect", "drop", "wait", "destroy", "renew"}
    BY <1>0, <1>22 DEF Process, Go
  <2>3. \A s \in workreqs : IsVersion(s)' <=> IsVersion(s)
    BY <2>1, WorkStays DEF IsVersion
  <2>. QED  BY <2>1, <2>2, <2>3 DEF AloneInv
<1>23. ASSUME NEW w \in Workers, np_version(w)
      PROVE  AloneInv'
  <2>1. UNCHANGED <<workreqs, resetting>>
    BY <1>23 DEF np_version, connVars, srvVars
  <2>2. \A v \in Workers : /\ pc'[v] \in {"destroy", "renew", "newpool"} => pc[v] \in {"destroy", "renew", "newpool"}
                           /\ pc'[v] \in {"collect", "drop", "wait", "destroy", "renew"} =>
                                pc[v] \in {"collect", "drop", "wait", "destroy", "renew"}
    BY <1>0, <1>23 DEF np_version, Go
  <2>3. \A s \in workreqs : IsVersion(s)' <=> IsVersion(s)
    BY <2>1, WorkStays DEF IsVersion
  <2>. QED  BY <2>1, <2>2, <2>3 DEF AloneInv
<1>24. ASSUME NEW w \in Workers, RespondUnlink(w)
      PROVE  AloneInv'
  <2>1. UNCHANGED <<resetting, rq>> /\ workreqs' \subseteq workreqs /\ pc'[w] = "fid"
        /\ \A v \in Workers \ {w} : pc'[v] = pc[v]
    BY <1>0, <1>24 DEF RespondUnlink, connVars, Go
  <2>. QED  BY <2>1 DEF AloneInv, IsVersion
<1>25. ASSUME NEW w \in Workers, RespondFid(w)
      PROVE  AloneInv'
  <2>1. UNCHANGED <<workreqs, resetting>>
    BY <1>25 DEF RespondFid, connVars, srvVars
  <2>2. \A v \in Workers : /\ pc'[v] \in {"destroy", "renew", "newpool"} => pc[v] \in {"destroy", "renew", "newpool"}
                           /\ pc'[v] \in {"collect", "drop", "wait", "destroy", "renew"} =>
                                pc[v] \in {"collect", "drop", "wait", "destroy", "renew"}
    BY <1>0, <1>25 DEF RespondFid, Go
  <2>3. \A s \in workreqs : IsVersion(s)' <=> IsVersion(s)
    BY <2>1, WorkStays DEF IsVersion
  <2>. QED  BY <2>1, <2>2, <2>3 DEF AloneInv
<1>26. ASSUME NEW w \in Workers, RespondSend(w)
      PROVE  AloneInv'
  <2>1. UNCHANGED <<workreqs, resetting>>
    BY <1>26 DEF RespondSend, connVars, srvVars
  <2>2. \A v \in Workers : /\ pc'[v] \in {"destroy", "renew", "newpool"} => pc[v] \in {"destroy", "renew", "newpool"}
                           /\ pc'[v] \in {"collect", "drop", "wait", "destroy", "renew"} =>
                                pc[v] \in {"collect", "drop", "wait", "destroy", "renew"}
    BY <1>0, <1>26 DEF RespondSend, Go
  <2>3. \A s \in workreqs : IsVersion(s)' <=> IsVersion(s)
    BY <2>1, WorkStays DEF IsVersion
  <2>. QED  BY <2>1, <2>2, <2>3 DEF AloneInv
<1>27. ASSUME NEW w \in Workers, RespondWrite(w)
      PROVE  AloneInv'
  <2>1. UNCHANGED <<workreqs, resetting>>
    BY <1>27 DEF RespondWrite, TakeTrans, connVars, srvVars
  <2>2. \A v \in Workers : /\ pc'[v] \in {"destroy", "renew", "newpool"} => pc[v] \in {"destroy", "renew", "newpool"}
                           /\ pc'[v] \in {"collect", "drop", "wait", "destroy", "renew"} =>
                                pc[v] \in {"collect", "drop", "wait", "destroy", "renew"}
    BY <1>0, <1>27 DEF RespondWrite, TakeTrans, Go
  <2>3. \A s \in workreqs : IsVersion(s)' <=> IsVersion(s)
    BY <2>1, WorkStays DEF IsVersion
  <2>. QED  BY <2>1, <2>2, <2>3 DEF AloneInv
<1>28. ASSUME NEW w \in Workers, RespondSignal(w)
      PROVE  AloneInv'
  <2>1. UNCHANGED <<workreqs, resetting>>
    BY <1>28 DEF RespondSignal, np_trans_destroy, connVars, srvVars
  <2>2. \A v \in Workers : /\ pc'[v] \in {"destroy", "renew", "newpool"} => pc[v] \in {"destroy", "renew", "newpool"}
                           /\ pc'[v] \in {"collect", "drop", "wait", "destroy", "renew"} =>
                                pc[v] \in {"collect", "drop", "wait", "destroy", "renew"}
    BY <1>0, <1>28 DEF RespondSignal, np_trans_destroy, Go
  <2>3. \A s \in workreqs : IsVersion(s)' <=> IsVersion(s)
    BY <2>1, WorkStays DEF IsVersion
  <2>. QED  BY <2>1, <2>2, <2>3 DEF AloneInv
<1>29. ASSUME NEW w \in Workers, RespondUnref(w)
      PROVE  AloneInv'
  <2>1. UNCHANGED <<workreqs, resetting>>
    BY <1>29 DEF RespondUnref, connVars, srvVars
  <2>2. \A v \in Workers : /\ pc'[v] \in {"destroy", "renew", "newpool"} => pc[v] \in {"destroy", "renew", "newpool"}
                           /\ pc'[v] \in {"collect", "drop", "wait", "destroy", "renew"} =>
                                pc[v] \in {"collect", "drop", "wait", "destroy", "renew"}
    BY <1>0, <1>29 DEF RespondUnref, Go
  <2>3. \A s \in workreqs : IsVersion(s)' <=> IsVersion(s)
    BY <2>1, WorkStays DEF IsVersion
  <2>. QED  BY <2>1, <2>2, <2>3 DEF AloneInv
<1>30. ASSUME NEW shutconns \in BOOLEAN, np_srv_shutdown(shutconns)
      PROVE  AloneInv'
  <2>1. UNCHANGED <<workreqs, resetting>>
    BY <1>30 DEF np_srv_shutdown, connVars, srvVars
  <2>2. \A v \in Workers : /\ pc'[v] \in {"destroy", "renew", "newpool"} => pc[v] \in {"destroy", "renew", "newpool"}
                           /\ pc'[v] \in {"collect", "drop", "wait", "destroy", "renew"} =>
                                pc[v] \in {"collect", "drop", "wait", "destroy", "renew"}
    BY <1>0, <1>30 DEF np_srv_shutdown, Go
  <2>3. \A s \in workreqs : IsVersion(s)' <=> IsVersion(s)
    BY <2>1, WorkStays DEF IsVersion
  <2>. QED  BY <2>1, <2>2, <2>3 DEF AloneInv
<1>31. ASSUME np_conn_shutdown
      PROVE  AloneInv'
  <2>1. UNCHANGED <<workreqs, resetting>>
    BY <1>31 DEF np_conn_shutdown, connVars, srvVars
  <2>2. \A v \in Workers : /\ pc'[v] \in {"destroy", "renew", "newpool"} => pc[v] \in {"destroy", "renew", "newpool"}
                           /\ pc'[v] \in {"collect", "drop", "wait", "destroy", "renew"} =>
                                pc[v] \in {"collect", "drop", "wait", "destroy", "renew"}
    BY <1>0, <1>31 DEF np_conn_shutdown, Go
  <2>3. \A s \in workreqs : IsVersion(s)' <=> IsVersion(s)
    BY <2>1, WorkStays DEF IsVersion
  <2>. QED  BY <2>1, <2>2, <2>3 DEF AloneInv
<1>32. ASSUME StopperDecref
      PROVE  AloneInv'
  <2>1. UNCHANGED <<workreqs, resetting>>
    BY <1>32 DEF StopperDecref, np_conn_decref, connVars, srvVars
  <2>2. \A v \in Workers : /\ pc'[v] \in {"destroy", "renew", "newpool"} => pc[v] \in {"destroy", "renew", "newpool"}
                           /\ pc'[v] \in {"collect", "drop", "wait", "destroy", "renew"} =>
                                pc[v] \in {"collect", "drop", "wait", "destroy", "renew"}
    BY <1>0, <1>32 DEF StopperDecref, np_conn_decref, Go
  <2>3. \A s \in workreqs : IsVersion(s)' <=> IsVersion(s)
    BY <2>1, WorkStays DEF IsVersion
  <2>. QED  BY <2>1, <2>2, <2>3 DEF AloneInv
<1>. QED
  BY <1>1, <1>2, <1>3, <1>4, <1>5, <1>6, <1>7, <1>8, <1>9, <1>10, <1>11, <1>12,
     <1>13, <1>14, <1>15, <1>16, <1>17, <1>18, <1>19, <1>20, <1>21, <1>22,
     <1>23, <1>24, <1>25, <1>26, <1>27, <1>28, <1>29, <1>30, <1>31, <1>32
     DEF Next, np_conn_read_proc, Worker, np_conn_reset

\* A connection without references has no requests.
Bare == refcount = 0 => ToSet(reqs) = {} /\ \A a \in Actors : req[a] # None => pc[a] \in {"check", "alloc"}

LEMMA BareWhenFree == TypeOK /\ HoldInv /\ CountInv => Bare
<1>. SUFFICES ASSUME TypeOK, HoldInv, CountInv, refcount = 0
             PROVE  ToSet(reqs) = {} /\ \A a \in Actors : req[a] # None => pc[a] \in {"check", "alloc"}
  BY DEF Bare
<1>1. IsFiniteSet(Live) /\ Cardinality(Live) = 0
  <2>1. IsFiniteSet(Live) /\ Cardinality(Live) \in Nat
    BY Finite
  <2>. QED  BY <2>1 DEF CountInv, One
<1>2. Live = {}
  BY <1>1, FS_EmptySet
<1>3. \A r \in Reqs : ~(rq[r].refs > 0)
  BY <1>2 DEF Live
<1>. QED  BY <1>3, QueuedRefs, HeldRefs DEF QueueHeld, RefsHeld

LEMMA BareNext == TypeOK' /\ HoldInv' /\ CountInv' => Bare'
BY BareWhenFree, PTL

\* A step that gives up references keeps the pool, or nothing is left that could use it.
LEMMA PoolLeft ==
    ASSUME TypeOK, NEW n \in Nat, np_conn_decref(n)
    PROVE  pool' = pool \/ refcount' = 0
BY DEF TypeOK, np_conn_decref

\* A step that starts no request keeps BornInv, if it keeps the pool or nothing is left.
LEMMA BornSame ==
    ASSUME TypeOK, PcInv, HoldInv, ReaderInv, Next, TypeOK', PcInv', HoldInv', CountInv', BornInv,
           careful' = careful, pool' = pool \/ refcount' = 0,
           ToSet(reqs') \subseteq ToSet(reqs), pc'[Reader] = "add" => pc[Reader] = "add" /\ req'[Reader] = req[Reader],
           \A v \in Workers : pc'[v] \in {"process", "unlink"} =>
             /\ pc[v] # "idle" /\ req'[v] = req[v]
             /\ rq[req[v]].kind = "op" => pc[v] \in {"process", "unlink"}
    PROVE  BornInv'
<1>. SUFFICES ASSUME careful' PROVE BornInv'
  BY DEF BornInv
<1>1. CASE refcount' = 0
  <2>1. Bare'
    BY BareNext
  <2>2. \A v \in Actors : pc'[v] \notin {"process", "unlink", "add"}
    BY <1>1, <2>1 DEF Bare, PcInv, Actors, AtExit, InReset
  <2>3. ToSet(reqs') = {}
    BY <1>1, <2>1 DEF Bare
  <2>. QED  BY <2>2, <2>3 DEF BornInv, Actors
<1>2. CASE pool' = pool
  <2>1. \A r \in ToSet(reqs') : rq'[r].kind = rq[r].kind /\ rq'[r].born = rq[r].born /\ r \in ToSet(reqs)
    BY StaysKept
  <2>2. \A v \in Workers : pc'[v] \in {"process", "unlink"} =>
          rq'[req[v]].kind = rq[req[v]].kind /\ rq'[req[v]].born = rq[req[v]].born /\ req'[v] = req[v]
    BY StaysKept
  <2>3. \A r \in ToSet(reqs') : Bound(r)
    BY <2>1 DEF BornInv
  <2>4. \A v \in Workers : pc'[v] \in {"process", "unlink"} => Bound(req[v])
    BY DEF BornInv, Bound
  <2>5. ASSUME pc'[Reader] = "add" PROVE Bound(req[Reader]) /\ rq'[req[Reader]].kind = rq[req[Reader]].kind
                                        /\ rq'[req[Reader]].born = rq[req[Reader]].born
    <3>1. req[Reader] # None /\ pc[Reader] = "add" /\ req'[Reader] = req[Reader]
      BY <2>5 DEF PcInv
    <3>2. req[Reader] \in Reqs /\ rq[req[Reader]].refs > 0 /\ rq'[req[Reader]].refs > 0
      BY <2>5, <3>1, HeldRefs, HeldRefsNext DEF RefsHeld, Actors
    <3>. QED  BY <3>1, <3>2, KindKept DEF BornInv
  <2>. QED  BY <1>2, <2>1, <2>2, <2>3, <2>4, <2>5 DEF BornInv, Bound
<1>. QED  BY <1>1, <1>2

\* Every step keeps BornInv.
LEMMA BornKeeps ==
    ASSUME TypeOK, PcInv, HoldInv, WorkInv, ReaderInv, SessionInv, BornInv, TypeOK', PcInv', HoldInv', CountInv', Next
    PROVE  BornInv'
<1>. USE NpConnAssumption DEF Actors
<1>0. /\ pc \in [Actors -> Locations] /\ req \in [Actors -> Reqs \cup {None}]
      /\ reqs \in Seq(Reqs) /\ workreqs \in SUBSET Reqs /\ rq \in [Reqs -> Requests]
      /\ Cardinality(Live) \in Nat
  BY Finite DEF TypeOK, Requests
<1>1. ASSUME ReaderStart
      PROVE  BornInv'
  <2>1. pool' = pool
    BY <1>1 DEF ReaderStart, connVars
  <2>2. careful' = careful /\ ToSet(reqs') \subseteq ToSet(reqs) 
        /\ (pc'[Reader] = "add" => pc[Reader] = "add" /\ req'[Reader] = req[Reader])
    BY <1>0, <1>1 DEF ReaderStart, srvVars, thrVars, cliVars, Go
  <2>3. \A v \in Workers : pc'[v] \in {"process", "unlink"} =>
          /\ pc[v] # "idle" /\ req'[v] = req[v]
          /\ rq[req[v]].kind = "op" => pc[v] \in {"process", "unlink"}
    BY <1>0, <1>1 DEF ReaderStart, thrVars, Go, WorkInv, InReset, AtExit, PcInv
  <2>. QED  BY <2>1, <2>2, <2>3, BornSame
<1>2. ASSUME NEW r \in Reqs, NEW kind \in Kinds, ReaderRecv(r, kind)
      PROVE  BornInv'
  <2>1. pool' = pool
    BY <1>2 DEF ReaderRecv, connVars
  <2>2. careful' = careful /\ ToSet(reqs') \subseteq ToSet(reqs) 
        /\ (pc'[Reader] = "add" => pc[Reader] = "add" /\ req'[Reader] = req[Reader])
    BY <1>0, <1>2 DEF ReaderRecv, srvVars, thrVars, cliVars, Go
  <2>3. \A v \in Workers : pc'[v] \in {"process", "unlink"} =>
          /\ pc[v] # "idle" /\ req'[v] = req[v]
          /\ rq[req[v]].kind = "op" => pc[v] \in {"process", "unlink"}
    BY <1>0, <1>2 DEF ReaderRecv, thrVars, Go, WorkInv, InReset, AtExit, PcInv
  <2>. QED  BY <2>1, <2>2, <2>3, BornSame
<1>3. ASSUME ReaderCheck
      PROVE  BornInv'
  <2>1. pool' = pool
    BY <1>3 DEF ReaderCheck, connVars
  <2>2. careful' = careful /\ ToSet(reqs') \subseteq ToSet(reqs)
        /\ (pc'[Reader] = "add" => pc[Reader] = "add" /\ req'[Reader] = req[Reader])
    BY <1>0, <1>3 DEF ReaderCheck, srvVars, cliVars, Go
  <2>3. \A v \in Workers : pc'[v] \in {"process", "unlink"} =>
          /\ pc[v] # "idle" /\ req'[v] = req[v]
          /\ rq[req[v]].kind = "op" => pc[v] \in {"process", "unlink"}
    BY <1>0, <1>3 DEF ReaderCheck, Go, WorkInv, InReset, AtExit, PcInv
  <2>. QED  BY <2>1, <2>2, <2>3, BornSame
<1>4. ASSUME ReaderAlloc
      PROVE  BornInv'
  <2>1. pool' = pool /\ careful' = careful /\ ToSet(reqs') = ToSet(reqs)
        /\ \A v \in Workers : pc'[v] = pc[v] /\ req'[v] = req[v]
    BY <1>0, <1>4 DEF ReaderAlloc, srvVars, thrVars, cliVars, Go
  <2>2. pc'[Reader] = "add" => req'[Reader] \in Reqs /\ rq'[req'[Reader]].born = pool
    <3>1. req[Reader] \in Reqs /\ rq[req[Reader]] \in Requests
      BY <1>0, <1>4 DEF ReaderAlloc, PcInv
    <3>. QED  BY <1>0, <1>4, <3>1 DEF ReaderAlloc, thrVars, Go, Requests
  <2>3. /\ \A r \in ToSet(reqs) : rq'[r].kind = rq[r].kind /\ rq'[r].born = rq[r].born
        /\ \A v \in Workers : pc[v] # "idle" =>
             rq'[req[v]].kind = rq[req[v]].kind /\ rq'[req[v]].born = rq[req[v]].born
    BY <2>1, StaysKept
  <2>. QED  BY <2>1, <2>2, <2>3 DEF BornInv, Bound
<1>5. ASSUME ReaderSleep
      PROVE  BornInv'
  <2>1. pool' = pool
    BY <1>5 DEF ReaderSleep, connVars
  <2>2. careful' = careful /\ ToSet(reqs') \subseteq ToSet(reqs) 
        /\ (pc'[Reader] = "add" => pc[Reader] = "add" /\ req'[Reader] = req[Reader])
    BY <1>0, <1>5 DEF ReaderSleep, srvVars, thrVars, cliVars, Go
  <2>3. \A v \in Workers : pc'[v] \in {"process", "unlink"} =>
          /\ pc[v] # "idle" /\ req'[v] = req[v]
          /\ rq[req[v]].kind = "op" => pc[v] \in {"process", "unlink"}
    BY <1>0, <1>5 DEF ReaderSleep, thrVars, Go, WorkInv, InReset, AtExit, PcInv
  <2>. QED  BY <2>1, <2>2, <2>3, BornSame
<1>6. ASSUME ReaderAdd
      PROVE  BornInv'
  <2>0. CASE resetting
    <3>1. pool' = pool \/ refcount' = 0
      <4>. DEFINE n == Cardinality(Live) - Cardinality(Live)'
      <4>1. {req[Reader]} \in SUBSET Reqs /\ \A s \in {req[Reader]} : rq[s].refs > 0
        BY <1>6, <2>0, HeldRefs DEF RefsHeld, PcInv, ReaderAdd
      <4>2. n \in Nat /\ np_conn_decref(n)
        BY <1>6, <2>0, <4>1, UnrefIs DEF ReaderAdd
      <4>. HIDE DEF n
      <4>. QED  BY <4>2, PoolLeft
    <3>2. careful' = careful /\ ToSet(reqs') \subseteq ToSet(reqs) 
          /\ (pc'[Reader] = "add" => pc[Reader] = "add" /\ req'[Reader] = req[Reader])
      BY <1>0, <1>6, <2>0 DEF ReaderAdd, srvVars, thrVars, cliVars, Go
    <3>3. \A v \in Workers : pc'[v] \in {"process", "unlink"} =>
            /\ pc[v] # "idle" /\ req'[v] = req[v]
            /\ rq[req[v]].kind = "op" => pc[v] \in {"process", "unlink"}
      BY <1>0, <1>6, <2>0 DEF ReaderAdd, thrVars, Go, WorkInv, InReset, AtExit, PcInv
    <3>. QED  BY <3>1, <3>2, <3>3, BornSame
  <2>9. CASE ~resetting
    <3>1. /\ req[Reader] \in Reqs /\ reqs' = Append(reqs, req[Reader]) /\ UNCHANGED <<rq, pool, careful>>
          /\ pc[Reader] = "add" /\ pc'[Reader] \in {"read", "again"}
          /\ \A v \in Workers : pc'[v] = pc[v] /\ req'[v] = req[v]
      BY <1>0, <1>6, <2>9 DEF ReaderAdd, PcInv, cliVars, Go
    <3>2. ToSet(reqs') = ToSet(reqs) \cup {req[Reader]}
      BY <1>0, <3>1, AppendOf
    <3>. QED  BY <3>1, <3>2 DEF BornInv, Bound
  <2>. QED  BY <2>0, <2>9
<1>7. ASSUME ReaderEnd
      PROVE  BornInv'
  <2>1. pool' = pool
    BY <1>7 DEF ReaderEnd, connVars
  <2>2. careful' = careful /\ ToSet(reqs') \subseteq ToSet(reqs) 
        /\ (pc'[Reader] = "add" => pc[Reader] = "add" /\ req'[Reader] = req[Reader])
    BY <1>0, <1>7 DEF ReaderEnd, srvVars, thrVars, cliVars, Go
  <2>3. \A v \in Workers : pc'[v] \in {"process", "unlink"} =>
          /\ pc[v] # "idle" /\ req'[v] = req[v]
          /\ rq[req[v]].kind = "op" => pc[v] \in {"process", "unlink"}
    BY <1>0, <1>7 DEF ReaderEnd, thrVars, Go, WorkInv, InReset, AtExit, PcInv
  <2>. QED  BY <2>1, <2>2, <2>3, BornSame
<1>8. ASSUME ReaderExit
      PROVE  BornInv'
  <2>1. pool' = pool
    BY <1>8 DEF ReaderExit, TakeTrans, connVars
  <2>2. careful' = careful /\ ToSet(reqs') \subseteq ToSet(reqs) 
        /\ (pc'[Reader] = "add" => pc[Reader] = "add" /\ req'[Reader] = req[Reader])
    BY <1>0, <1>8 DEF ReaderExit, TakeTrans, srvVars, thrVars, cliVars, Go
  <2>3. \A v \in Workers : pc'[v] \in {"process", "unlink"} =>
          /\ pc[v] # "idle" /\ req'[v] = req[v]
          /\ rq[req[v]].kind = "op" => pc[v] \in {"process", "unlink"}
    BY <1>0, <1>8 DEF ReaderExit, TakeTrans, thrVars, Go, WorkInv, InReset, AtExit, PcInv
  <2>. QED  BY <2>1, <2>2, <2>3, BornSame
<1>9. ASSUME np_srv_remove_conn
      PROVE  BornInv'
  <2>1. pool' = pool \/ refcount' = 0
    <3>1. (IF listed THEN 1 ELSE 0) \in Nat /\ np_conn_decref((IF listed THEN 1 ELSE 0))
      BY <1>9 DEF np_srv_remove_conn
    <3>. QED  BY <3>1, PoolLeft
  <2>2. careful' = careful /\ ToSet(reqs') \subseteq ToSet(reqs) 
        /\ (pc'[Reader] = "add" => pc[Reader] = "add" /\ req'[Reader] = req[Reader])
    BY <1>0, <1>9 DEF np_srv_remove_conn, srvVars, thrVars, cliVars, Go
  <2>3. \A v \in Workers : pc'[v] \in {"process", "unlink"} =>
          /\ pc[v] # "idle" /\ req'[v] = req[v]
          /\ rq[req[v]].kind = "op" => pc[v] \in {"process", "unlink"}
    BY <1>0, <1>9 DEF np_srv_remove_conn, thrVars, Go, WorkInv, InReset, AtExit, PcInv
  <2>. QED  BY <2>1, <2>2, <2>3, BornSame
<1>10. ASSUME ReaderBye
      PROVE  BornInv'
  <2>1. pool' = pool
    BY <1>10 DEF ReaderBye, np_trans_destroy, connVars
  <2>2. careful' = careful /\ ToSet(reqs') \subseteq ToSet(reqs) 
        /\ (pc'[Reader] = "add" => pc[Reader] = "add" /\ req'[Reader] = req[Reader])
    BY <1>0, <1>10 DEF ReaderBye, np_trans_destroy, srvVars, thrVars, cliVars, Go
  <2>3. \A v \in Workers : pc'[v] \in {"process", "unlink"} =>
          /\ pc[v] # "idle" /\ req'[v] = req[v]
          /\ rq[req[v]].kind = "op" => pc[v] \in {"process", "unlink"}
    BY <1>0, <1>10 DEF ReaderBye, np_trans_destroy, thrVars, Go, WorkInv, InReset, AtExit, PcInv
  <2>. QED  BY <2>1, <2>2, <2>3, BornSame
<1>11. ASSUME ReaderLast
      PROVE  BornInv'
  <2>1. pool' = pool \/ refcount' = 0
    <3>1. 1 \in Nat /\ np_conn_decref(1)
      BY <1>11 DEF ReaderLast
    <3>. QED  BY <3>1, PoolLeft
  <2>2. careful' = careful /\ ToSet(reqs') \subseteq ToSet(reqs) 
        /\ (pc'[Reader] = "add" => pc[Reader] = "add" /\ req'[Reader] = req[Reader])
    BY <1>0, <1>11 DEF ReaderLast, srvVars, thrVars, cliVars, Go
  <2>3. \A v \in Workers : pc'[v] \in {"process", "unlink"} =>
          /\ pc[v] # "idle" /\ req'[v] = req[v]
          /\ rq[req[v]].kind = "op" => pc[v] \in {"process", "unlink"}
    BY <1>0, <1>11 DEF ReaderLast, thrVars, Go, WorkInv, InReset, AtExit, PcInv
  <2>. QED  BY <2>1, <2>2, <2>3, BornSame
<1>12. ASSUME NEW a \in Workers \cup {Reader}, ResetBegin(a)
      PROVE  BornInv'
  <2>1. pool' = pool
    BY <1>12 DEF ResetBegin, connVars
  <2>2. careful' = careful /\ ToSet(reqs') \subseteq ToSet(reqs) 
        /\ (pc'[Reader] = "add" => pc[Reader] = "add" /\ req'[Reader] = req[Reader])
    BY <1>0, <1>12 DEF ResetBegin, srvVars, thrVars, cliVars, Go
  <2>3. \A v \in Workers : pc'[v] \in {"process", "unlink"} =>
          /\ pc[v] # "idle" /\ req'[v] = req[v]
          /\ rq[req[v]].kind = "op" => pc[v] \in {"process", "unlink"}
    BY <1>0, <1>12 DEF ResetBegin, thrVars, Go, WorkInv, InReset, AtExit, PcInv
  <2>. QED  BY <2>1, <2>2, <2>3, BornSame
<1>13. ASSUME NEW a \in Workers \cup {Reader}, ResetCollect(a)
      PROVE  BornInv'
  <2>1. pool' = pool
    BY <1>13 DEF ResetCollect, connVars
  <2>2. careful' = careful /\ ToSet(reqs') \subseteq ToSet(reqs) 
        /\ (pc'[Reader] = "add" => pc[Reader] = "add" /\ req'[Reader] = req[Reader])
    BY <1>0, <1>13, QueueOf DEF ResetCollect, srvVars, thrVars, cliVars, Go
  <2>3. \A v \in Workers : pc'[v] \in {"process", "unlink"} =>
          /\ pc[v] # "idle" /\ req'[v] = req[v]
          /\ rq[req[v]].kind = "op" => pc[v] \in {"process", "unlink"}
    BY <1>0, <1>13 DEF ResetCollect, thrVars, Go, WorkInv, InReset, AtExit, PcInv
  <2>. QED  BY <2>1, <2>2, <2>3, BornSame
<1>14. ASSUME NEW a \in Workers \cup {Reader}, ResetDrop(a)
      PROVE  BornInv'
  <2>1. pool' = pool \/ refcount' = 0
    <3>. DEFINE n == Cardinality(Live) - Cardinality(Live)'
    <3>1. preqs[a] \in SUBSET Reqs /\ \A s \in preqs[a] : rq[s].refs > 0
      BY <1>14, HeldRefs DEF RefsHeld, PcInv, ResetDrop
    <3>2. n \in Nat /\ np_conn_decref(n)
      BY <1>14, <3>1, UnrefIs DEF ResetDrop
    <3>. HIDE DEF n
    <3>. QED  BY <3>2, PoolLeft
  <2>2. careful' = careful /\ ToSet(reqs') \subseteq ToSet(reqs) 
        /\ (pc'[Reader] = "add" => pc[Reader] = "add" /\ req'[Reader] = req[Reader])
    BY <1>0, <1>14 DEF ResetDrop, srvVars, thrVars, cliVars, Go
  <2>3. \A v \in Workers : pc'[v] \in {"process", "unlink"} =>
          /\ pc[v] # "idle" /\ req'[v] = req[v]
          /\ rq[req[v]].kind = "op" => pc[v] \in {"process", "unlink"}
    BY <1>0, <1>14 DEF ResetDrop, thrVars, Go, WorkInv, InReset, AtExit, PcInv
  <2>. QED  BY <2>1, <2>2, <2>3, BornSame
<1>15. ASSUME NEW a \in Workers \cup {Reader}, ResetWait(a)
      PROVE  BornInv'
  <2>1. pool' = pool
    BY <1>15 DEF ResetWait, connVars
  <2>2. careful' = careful /\ ToSet(reqs') \subseteq ToSet(reqs) 
        /\ (pc'[Reader] = "add" => pc[Reader] = "add" /\ req'[Reader] = req[Reader])
    BY <1>0, <1>15 DEF ResetWait, srvVars, thrVars, cliVars, Go
  <2>3. \A v \in Workers : pc'[v] \in {"process", "unlink"} =>
          /\ pc[v] # "idle" /\ req'[v] = req[v]
          /\ rq[req[v]].kind = "op" => pc[v] \in {"process", "unlink"}
    BY <1>0, <1>15 DEF ResetWait, thrVars, Go, WorkInv, InReset, AtExit, PcInv
  <2>. QED  BY <2>1, <2>2, <2>3, BornSame
<1>16. ASSUME NEW a \in Workers \cup {Reader}, ResetDestroy(a)
      PROVE  BornInv'
  <2>1. /\ UNCHANGED <<reqs, req, rq, careful>> /\ pc[a] \in {"destroy", "newpool"}
        /\ pc'[a] \in {"renew", "reopen"} /\ (a # Reader => pc'[Reader] = pc[Reader] \/ pc'[Reader] = "read")
        /\ \A v \in Workers \ {a} : pc'[v] = pc[v]
    BY <1>0, <1>16 DEF ResetDestroy, srvVars, thrVars, cliVars, Go
  <2>2. CASE a = Reader
    <3>1. reqs = <<>> /\ workreqs = {}
      BY <2>1, <2>2 DEF ReaderInv, AtExit, InReset, PcInv
    <3>2. ToSet(reqs') = {}
      BY <1>0, <2>1, <3>1, QueueOf
    <3>3. ASSUME NEW v \in Workers, pc'[v] \in {"process", "unlink"} PROVE FALSE
      <4>1. v # Reader
        BY NpConnAssumption
      <4>2. pc[v] \in Working /\ req[v] \in Reqs
        BY <1>0, <2>1, <2>2, <3>3, <4>1 DEF Working, PcInv, Actors
      <4>. QED  BY <3>1, <4>2 DEF WorkInv
    <3>4. pc'[Reader] # "add"
      BY <1>0, <2>1, <2>2
    <3>. QED  BY <3>2, <3>3, <3>4 DEF BornInv
  <2>3. CASE a \in Workers /\ careful
    <3>1. Asked(a)
      BY <2>1, <2>3 DEF Asked, IsVersion, WorkInv, InReset
    <3>2. reqs = <<>> /\ req[Reader] = None
      BY <2>3, <3>1 DEF SessionInv, AwaitInv
    <3>3. \A r \in workreqs : IsVersion(r)
      BY <2>1, <2>3 DEF SessionInv, AloneInv
    <3>4. ASSUME NEW v \in Workers, pc'[v] \in {"process", "unlink"} PROVE rq'[req'[v]].kind # "op"
      <4>1. v # a /\ pc[v] \in Working /\ req[v] \in Reqs
        BY <1>0, <2>1, <3>4 DEF Working, PcInv
      <4>2. req[v] \in workreqs
        BY <4>1 DEF WorkInv
      <4>. QED  BY <2>1, <3>3, <4>2 DEF IsVersion
    <3>5. ToSet(reqs') = {} /\ pc'[Reader] # "add"
      BY <1>0, <2>1, <2>3, <3>2, QueueOf DEF PcInv
    <3>. QED  BY <3>4, <3>5 DEF BornInv, Bound
  <2>4. CASE ~careful
    BY <2>1, <2>4 DEF BornInv
  <2>. QED  BY <2>2, <2>3, <2>4
<1>17. ASSUME NEW a \in Workers \cup {Reader}, ResetRenew(a)
      PROVE  BornInv'
  <2>1. pool' = pool
    BY <1>17 DEF ResetRenew, connVars
  <2>2. careful' = careful /\ ToSet(reqs') \subseteq ToSet(reqs) 
        /\ (pc'[Reader] = "add" => pc[Reader] = "add" /\ req'[Reader] = req[Reader])
    BY <1>0, <1>17 DEF ResetRenew, srvVars, thrVars, cliVars, Go
  <2>3. \A v \in Workers : pc'[v] \in {"process", "unlink"} =>
          /\ pc[v] # "idle" /\ req'[v] = req[v]
          /\ rq[req[v]].kind = "op" => pc[v] \in {"process", "unlink"}
    BY <1>0, <1>17 DEF ResetRenew, thrVars, Go, WorkInv, InReset, AtExit, PcInv
  <2>. QED  BY <2>1, <2>2, <2>3, BornSame
<1>18. ASSUME NEW a \in Workers \cup {Reader}, ResetPool(a)
      PROVE  BornInv'
  <2>1. /\ UNCHANGED <<reqs, req, rq, careful>> /\ pc[a] \in {"destroy", "newpool"}
        /\ pc'[a] \in {"renew", "reopen"} /\ (a # Reader => pc'[Reader] = pc[Reader] \/ pc'[Reader] = "read")
        /\ \A v \in Workers \ {a} : pc'[v] = pc[v]
    BY <1>0, <1>18 DEF ResetPool, srvVars, thrVars, cliVars, Go
  <2>2. CASE a = Reader
    <3>1. reqs = <<>> /\ workreqs = {}
      BY <2>1, <2>2 DEF ReaderInv, AtExit, InReset, PcInv
    <3>2. ToSet(reqs') = {}
      BY <1>0, <2>1, <3>1, QueueOf
    <3>3. ASSUME NEW v \in Workers, pc'[v] \in {"process", "unlink"} PROVE FALSE
      <4>1. v # Reader
        BY NpConnAssumption
      <4>2. pc[v] \in Working /\ req[v] \in Reqs
        BY <1>0, <2>1, <2>2, <3>3, <4>1 DEF Working, PcInv, Actors
      <4>. QED  BY <3>1, <4>2 DEF WorkInv
    <3>4. pc'[Reader] # "add"
      BY <1>0, <2>1, <2>2
    <3>. QED  BY <3>2, <3>3, <3>4 DEF BornInv
  <2>3. CASE a \in Workers /\ careful
    <3>1. Asked(a)
      BY <2>1, <2>3 DEF Asked, IsVersion, WorkInv, InReset
    <3>2. reqs = <<>> /\ req[Reader] = None
      BY <2>3, <3>1 DEF SessionInv, AwaitInv
    <3>3. \A r \in workreqs : IsVersion(r)
      BY <2>1, <2>3 DEF SessionInv, AloneInv
    <3>4. ASSUME NEW v \in Workers, pc'[v] \in {"process", "unlink"} PROVE rq'[req'[v]].kind # "op"
      <4>1. v # a /\ pc[v] \in Working /\ req[v] \in Reqs
        BY <1>0, <2>1, <3>4 DEF Working, PcInv
      <4>2. req[v] \in workreqs
        BY <4>1 DEF WorkInv
      <4>. QED  BY <2>1, <3>3, <4>2 DEF IsVersion
    <3>5. ToSet(reqs') = {} /\ pc'[Reader] # "add"
      BY <1>0, <2>1, <2>3, <3>2, QueueOf DEF PcInv
    <3>. QED  BY <3>4, <3>5 DEF BornInv, Bound
  <2>4. CASE ~careful
    BY <2>1, <2>4 DEF BornInv
  <2>. QED  BY <2>2, <2>3, <2>4
<1>19. ASSUME NEW a \in Workers \cup {Reader}, ResetReopen(a)
      PROVE  BornInv'
  <2>1. pool' = pool
    BY <1>19 DEF ResetReopen, connVars
  <2>2. careful' = careful /\ ToSet(reqs') \subseteq ToSet(reqs) 
        /\ (pc'[Reader] = "add" => pc[Reader] = "add" /\ req'[Reader] = req[Reader])
    BY <1>0, <1>19 DEF ResetReopen, srvVars, thrVars, cliVars, Go
  <2>3. \A v \in Workers : pc'[v] \in {"process", "unlink"} =>
          /\ pc[v] # "idle" /\ req'[v] = req[v]
          /\ rq[req[v]].kind = "op" => pc[v] \in {"process", "unlink"}
    BY <1>0, <1>19 DEF ResetReopen, thrVars, Go, WorkInv, InReset, AtExit, PcInv
  <2>. QED  BY <2>1, <2>2, <2>3, BornSame
<1>20. ASSUME NEW a \in Workers \cup {Reader}, ResetUnkeep(a)
      PROVE  BornInv'
  <2>1. pool' = pool \/ refcount' = 0
    <3>. DEFINE n == Cardinality(Live) - Cardinality(Live)'
    <3>1. kept[a] \in SUBSET Reqs /\ \A s \in kept[a] : rq[s].refs > 0
      BY <1>20, HeldRefs DEF RefsHeld, PcInv, ResetUnkeep
    <3>2. n \in Nat /\ np_conn_decref(n)
      BY <1>20, <3>1, UnrefIs DEF ResetUnkeep
    <3>. HIDE DEF n
    <3>. QED  BY <3>2, PoolLeft
  <2>2. careful' = careful /\ ToSet(reqs') \subseteq ToSet(reqs) 
        /\ (pc'[Reader] = "add" => pc[Reader] = "add" /\ req'[Reader] = req[Reader])
    BY <1>0, <1>20 DEF ResetUnkeep, srvVars, thrVars, cliVars, Go
  <2>3. \A v \in Workers : pc'[v] \in {"process", "unlink"} =>
          /\ pc[v] # "idle" /\ req'[v] = req[v]
          /\ rq[req[v]].kind = "op" => pc[v] \in {"process", "unlink"}
    BY <1>0, <1>20 DEF ResetUnkeep, thrVars, Go, WorkInv, InReset, AtExit, PcInv
  <2>. QED  BY <2>1, <2>2, <2>3, BornSame
<1>21. ASSUME NEW w \in Workers, WorkerTake(w)
      PROVE  BornInv'
  <2>1. /\ UNCHANGED <<rq, pool, careful>> /\ req'[w] = Head(reqs) /\ pc'[Reader] = pc[Reader]
        /\ req'[Reader] = req[Reader] /\ \A v \in Workers \ {w} : pc'[v] = pc[v] /\ req'[v] = req[v]
    BY <1>0, <1>21 DEF WorkerTake, connVars, cliVars, Go
  <2>2. ToSet(reqs) = ToSet(reqs') \cup {Head(reqs)}
    BY <1>0, <1>21, TailOf DEF WorkerTake
  <2>. QED  BY <2>1, <2>2 DEF BornInv, Bound
<1>22. ASSUME NEW w \in Workers, Process(w)
      PROVE  BornInv'
  <2>1. pool' = pool
    BY <1>22 DEF Process, connVars
  <2>2. careful' = careful /\ ToSet(reqs') \subseteq ToSet(reqs) 
        /\ (pc'[Reader] = "add" => pc[Reader] = "add" /\ req'[Reader] = req[Reader])
    BY <1>0, <1>22 DEF Process, srvVars, thrVars, cliVars, Go
  <2>3. \A v \in Workers : pc'[v] \in {"process", "unlink"} =>
          /\ pc[v] # "idle" /\ req'[v] = req[v]
          /\ rq[req[v]].kind = "op" => pc[v] \in {"process", "unlink"}
    BY <1>0, <1>22 DEF Process, thrVars, Go, WorkInv, InReset, AtExit, PcInv
  <2>. QED  BY <2>1, <2>2, <2>3, BornSame
<1>23. ASSUME NEW w \in Workers, np_version(w)
      PROVE  BornInv'
  <2>1. pool' = pool
    BY <1>23 DEF np_version, connVars
  <2>2. careful' = careful /\ ToSet(reqs') \subseteq ToSet(reqs) 
        /\ (pc'[Reader] = "add" => pc[Reader] = "add" /\ req'[Reader] = req[Reader])
    BY <1>0, <1>23 DEF np_version, srvVars, thrVars, cliVars, Go
  <2>3. \A v \in Workers : pc'[v] \in {"process", "unlink"} =>
          /\ pc[v] # "idle" /\ req'[v] = req[v]
          /\ rq[req[v]].kind = "op" => pc[v] \in {"process", "unlink"}
    BY <1>0, <1>23 DEF np_version, thrVars, Go, WorkInv, InReset, AtExit, PcInv
  <2>. QED  BY <2>1, <2>2, <2>3, BornSame
<1>24. ASSUME NEW w \in Workers, RespondUnlink(w)
      PROVE  BornInv'
  <2>1. pool' = pool
    BY <1>24 DEF RespondUnlink, connVars
  <2>2. careful' = careful /\ ToSet(reqs') \subseteq ToSet(reqs) 
        /\ (pc'[Reader] = "add" => pc[Reader] = "add" /\ req'[Reader] = req[Reader])
    BY <1>0, <1>24 DEF RespondUnlink, srvVars, thrVars, cliVars, Go
  <2>3. \A v \in Workers : pc'[v] \in {"process", "unlink"} =>
          /\ pc[v] # "idle" /\ req'[v] = req[v]
          /\ rq[req[v]].kind = "op" => pc[v] \in {"process", "unlink"}
    BY <1>0, <1>24 DEF RespondUnlink, thrVars, Go, WorkInv, InReset, AtExit, PcInv
  <2>. QED  BY <2>1, <2>2, <2>3, BornSame
<1>25. ASSUME NEW w \in Workers, RespondFid(w)
      PROVE  BornInv'
  <2>1. pool' = pool
    BY <1>25 DEF RespondFid, connVars
  <2>2. careful' = careful /\ ToSet(reqs') \subseteq ToSet(reqs) 
        /\ (pc'[Reader] = "add" => pc[Reader] = "add" /\ req'[Reader] = req[Reader])
    BY <1>0, <1>25 DEF RespondFid, srvVars, thrVars, cliVars, Go
  <2>3. \A v \in Workers : pc'[v] \in {"process", "unlink"} =>
          /\ pc[v] # "idle" /\ req'[v] = req[v]
          /\ rq[req[v]].kind = "op" => pc[v] \in {"process", "unlink"}
    BY <1>0, <1>25 DEF RespondFid, thrVars, Go, WorkInv, InReset, AtExit, PcInv
  <2>. QED  BY <2>1, <2>2, <2>3, BornSame
<1>26. ASSUME NEW w \in Workers, RespondSend(w)
      PROVE  BornInv'
  <2>1. pool' = pool
    BY <1>26 DEF RespondSend, connVars
  <2>2. careful' = careful /\ ToSet(reqs') \subseteq ToSet(reqs) 
        /\ (pc'[Reader] = "add" => pc[Reader] = "add" /\ req'[Reader] = req[Reader])
    BY <1>0, <1>26 DEF RespondSend, srvVars, thrVars, cliVars, Go
  <2>3. \A v \in Workers : pc'[v] \in {"process", "unlink"} =>
          /\ pc[v] # "idle" /\ req'[v] = req[v]
          /\ rq[req[v]].kind = "op" => pc[v] \in {"process", "unlink"}
    BY <1>0, <1>26 DEF RespondSend, thrVars, Go, WorkInv, InReset, AtExit, PcInv
  <2>. QED  BY <2>1, <2>2, <2>3, BornSame
<1>27. ASSUME NEW w \in Workers, RespondWrite(w)
      PROVE  BornInv'
  <2>1. pool' = pool
    BY <1>27 DEF RespondWrite, TakeTrans, connVars
  <2>2. careful' = careful /\ ToSet(reqs') \subseteq ToSet(reqs) 
        /\ (pc'[Reader] = "add" => pc[Reader] = "add" /\ req'[Reader] = req[Reader])
    BY <1>0, <1>27 DEF RespondWrite, TakeTrans, srvVars, thrVars, cliVars, Go
  <2>3. \A v \in Workers : pc'[v] \in {"process", "unlink"} =>
          /\ pc[v] # "idle" /\ req'[v] = req[v]
          /\ rq[req[v]].kind = "op" => pc[v] \in {"process", "unlink"}
    BY <1>0, <1>27 DEF RespondWrite, TakeTrans, thrVars, Go, WorkInv, InReset, AtExit, PcInv
  <2>. QED  BY <2>1, <2>2, <2>3, BornSame
<1>28. ASSUME NEW w \in Workers, RespondSignal(w)
      PROVE  BornInv'
  <2>1. pool' = pool
    BY <1>28 DEF RespondSignal, np_trans_destroy, connVars
  <2>2. careful' = careful /\ ToSet(reqs') \subseteq ToSet(reqs) 
        /\ (pc'[Reader] = "add" => pc[Reader] = "add" /\ req'[Reader] = req[Reader])
    BY <1>0, <1>28 DEF RespondSignal, np_trans_destroy, srvVars, thrVars, cliVars, Go
  <2>3. \A v \in Workers : pc'[v] \in {"process", "unlink"} =>
          /\ pc[v] # "idle" /\ req'[v] = req[v]
          /\ rq[req[v]].kind = "op" => pc[v] \in {"process", "unlink"}
    BY <1>0, <1>28 DEF RespondSignal, np_trans_destroy, thrVars, Go, WorkInv, InReset, AtExit, PcInv
  <2>. QED  BY <2>1, <2>2, <2>3, BornSame
<1>29. ASSUME NEW w \in Workers, RespondUnref(w)
      PROVE  BornInv'
  <2>1. pool' = pool \/ refcount' = 0
    <3>. DEFINE n == Cardinality(Live) - Cardinality(Live)'
    <3>1. {req[w]} \in SUBSET Reqs /\ \A s \in {req[w]} : rq[s].refs > 0
      BY <1>29, HeldRefs DEF RefsHeld, PcInv, RespondUnref
    <3>2. n \in Nat /\ np_conn_decref(n)
      BY <1>29, <3>1, UnrefIs DEF RespondUnref
    <3>. HIDE DEF n
    <3>. QED  BY <3>2, PoolLeft
  <2>2. careful' = careful /\ ToSet(reqs') \subseteq ToSet(reqs) 
        /\ (pc'[Reader] = "add" => pc[Reader] = "add" /\ req'[Reader] = req[Reader])
    BY <1>0, <1>29 DEF RespondUnref, srvVars, thrVars, cliVars, Go
  <2>3. \A v \in Workers : pc'[v] \in {"process", "unlink"} =>
          /\ pc[v] # "idle" /\ req'[v] = req[v]
          /\ rq[req[v]].kind = "op" => pc[v] \in {"process", "unlink"}
    BY <1>0, <1>29 DEF RespondUnref, thrVars, Go, WorkInv, InReset, AtExit, PcInv
  <2>. QED  BY <2>1, <2>2, <2>3, BornSame
<1>30. ASSUME NEW shutconns \in BOOLEAN, np_srv_shutdown(shutconns)
      PROVE  BornInv'
  <2>1. pool' = pool
    BY <1>30 DEF np_srv_shutdown, connVars
  <2>2. careful' = careful /\ ToSet(reqs') \subseteq ToSet(reqs) 
        /\ (pc'[Reader] = "add" => pc[Reader] = "add" /\ req'[Reader] = req[Reader])
    BY <1>0, <1>30 DEF np_srv_shutdown, srvVars, thrVars, cliVars, Go
  <2>3. \A v \in Workers : pc'[v] \in {"process", "unlink"} =>
          /\ pc[v] # "idle" /\ req'[v] = req[v]
          /\ rq[req[v]].kind = "op" => pc[v] \in {"process", "unlink"}
    BY <1>0, <1>30 DEF np_srv_shutdown, thrVars, Go, WorkInv, InReset, AtExit, PcInv
  <2>. QED  BY <2>1, <2>2, <2>3, BornSame
<1>31. ASSUME np_conn_shutdown
      PROVE  BornInv'
  <2>1. pool' = pool
    BY <1>31 DEF np_conn_shutdown, connVars
  <2>2. careful' = careful /\ ToSet(reqs') \subseteq ToSet(reqs) 
        /\ (pc'[Reader] = "add" => pc[Reader] = "add" /\ req'[Reader] = req[Reader])
    BY <1>0, <1>31 DEF np_conn_shutdown, srvVars, thrVars, cliVars, Go
  <2>3. \A v \in Workers : pc'[v] \in {"process", "unlink"} =>
          /\ pc[v] # "idle" /\ req'[v] = req[v]
          /\ rq[req[v]].kind = "op" => pc[v] \in {"process", "unlink"}
    BY <1>0, <1>31 DEF np_conn_shutdown, thrVars, Go, WorkInv, InReset, AtExit, PcInv
  <2>. QED  BY <2>1, <2>2, <2>3, BornSame
<1>32. ASSUME StopperDecref
      PROVE  BornInv'
  <2>1. pool' = pool \/ refcount' = 0
    <3>1. 1 \in Nat /\ np_conn_decref(1)
      BY <1>32 DEF StopperDecref
    <3>. QED  BY <3>1, PoolLeft
  <2>2. careful' = careful /\ ToSet(reqs') \subseteq ToSet(reqs) 
        /\ (pc'[Reader] = "add" => pc[Reader] = "add" /\ req'[Reader] = req[Reader])
    BY <1>0, <1>32 DEF StopperDecref, srvVars, thrVars, cliVars, Go
  <2>3. \A v \in Workers : pc'[v] \in {"process", "unlink"} =>
          /\ pc[v] # "idle" /\ req'[v] = req[v]
          /\ rq[req[v]].kind = "op" => pc[v] \in {"process", "unlink"}
    BY <1>0, <1>32 DEF StopperDecref, thrVars, Go, WorkInv, InReset, AtExit, PcInv
  <2>. QED  BY <2>1, <2>2, <2>3, BornSame
<1>. QED
  BY <1>1, <1>2, <1>3, <1>4, <1>5, <1>6, <1>7, <1>8, <1>9, <1>10, <1>11, <1>12,
     <1>13, <1>14, <1>15, <1>16, <1>17, <1>18, <1>19, <1>20, <1>21, <1>22,
     <1>23, <1>24, <1>25, <1>26, <1>27, <1>28, <1>29, <1>30, <1>31, <1>32
     DEF Next, np_conn_read_proc, Worker, np_conn_reset

\* A step that ends no answer keeps VersionWoken.
LEMMA WokenSame ==
    ASSUME TypeOK, PcInv, HoldInv, ReaderInv, WorkInv, Next, TypeOK', PcInv', HoldInv', WorkInv', SessionInv',
           VersionWoken, careful' = careful, UNCHANGED workreqs, asleep' \subseteq asleep,
           \A v \in Workers : pc[v] \in {"fid", "send", "write", "signal"} => pc'[v] \in {"fid", "send", "write", "signal"}
    PROVE  VersionWoken'
<1>. SUFFICES ASSUME careful', NEW w \in Workers \cap asleep'
             PROVE  \/ Awaited(w)' # {}
                    \/ \E u \in Workers \ {w} : pc'[u] \in {"fid", "send", "write", "signal"} /\ resetting'
  BY DEF VersionWoken
<1>1. resetting'
  BY DEF PcInv, SessionInv, AloneInv
<1>2. ASSUME NEW r \in Awaited(w) PROVE r \in Awaited(w)'
  BY WorkStays DEF Awaited
<1>. QED  BY <1>1, <1>2 DEF VersionWoken

\* Every step keeps VersionWoken.
LEMMA WokenKeeps ==
    ASSUME TypeOK, PcInv, HoldInv, ReaderInv, WorkInv, TypeOK', PcInv', HoldInv', WorkInv', SessionInv', VersionWoken, Next
    PROVE  VersionWoken'
<1>. USE NpConnAssumption DEF Actors
<1>0. pc \in [Actors -> Locations]
  BY DEF TypeOK
<1>1. ASSUME ReaderStart
      PROVE  VersionWoken'
  <2>1. careful' = careful /\ UNCHANGED workreqs /\ asleep' \subseteq asleep
    BY <1>1 DEF ReaderStart, srvVars, thrVars, cliVars
  <2>2. \A v \in Workers : pc[v] \in {"fid", "send", "write", "signal"} => pc'[v] \in {"fid", "send", "write", "signal"}
    BY <1>0, <1>1 DEF ReaderStart, Go
  <2>. QED  BY <2>1, <2>2, WokenSame
<1>2. ASSUME NEW r \in Reqs, NEW kind \in Kinds, ReaderRecv(r, kind)
      PROVE  VersionWoken'
  <2>1. careful' = careful /\ UNCHANGED workreqs /\ asleep' \subseteq asleep
    BY <1>2 DEF ReaderRecv, srvVars, thrVars, cliVars
  <2>2. \A v \in Workers : pc[v] \in {"fid", "send", "write", "signal"} => pc'[v] \in {"fid", "send", "write", "signal"}
    BY <1>0, <1>2 DEF ReaderRecv, Go
  <2>. QED  BY <2>1, <2>2, WokenSame
<1>3. ASSUME ReaderCheck
      PROVE  VersionWoken'
  <2>1. careful' = careful /\ UNCHANGED workreqs /\ asleep' \subseteq asleep
    BY <1>3 DEF ReaderCheck, srvVars, thrVars, cliVars
  <2>2. \A v \in Workers : pc[v] \in {"fid", "send", "write", "signal"} => pc'[v] \in {"fid", "send", "write", "signal"}
    BY <1>0, <1>3 DEF ReaderCheck, Go
  <2>. QED  BY <2>1, <2>2, WokenSame
<1>4. ASSUME ReaderAlloc
      PROVE  VersionWoken'
  <2>1. careful' = careful /\ UNCHANGED workreqs /\ asleep' \subseteq asleep
    BY <1>4 DEF ReaderAlloc, srvVars, thrVars, cliVars
  <2>2. \A v \in Workers : pc[v] \in {"fid", "send", "write", "signal"} => pc'[v] \in {"fid", "send", "write", "signal"}
    BY <1>0, <1>4 DEF ReaderAlloc, Go
  <2>. QED  BY <2>1, <2>2, WokenSame
<1>5. ASSUME ReaderSleep
      PROVE  VersionWoken'
  <2>1. careful' = careful /\ UNCHANGED workreqs /\ asleep' \subseteq asleep
    BY <1>5 DEF ReaderSleep, srvVars, thrVars, cliVars
  <2>2. \A v \in Workers : pc[v] \in {"fid", "send", "write", "signal"} => pc'[v] \in {"fid", "send", "write", "signal"}
    BY <1>0, <1>5 DEF ReaderSleep, Go
  <2>. QED  BY <2>1, <2>2, WokenSame
<1>6. ASSUME ReaderAdd
      PROVE  VersionWoken'
  <2>1. careful' = careful /\ UNCHANGED workreqs /\ asleep' \subseteq asleep
    BY <1>6 DEF ReaderAdd, srvVars, thrVars, cliVars
  <2>2. \A v \in Workers : pc[v] \in {"fid", "send", "write", "signal"} => pc'[v] \in {"fid", "send", "write", "signal"}
    BY <1>0, <1>6 DEF ReaderAdd, Go
  <2>. QED  BY <2>1, <2>2, WokenSame
<1>7. ASSUME ReaderEnd
      PROVE  VersionWoken'
  <2>1. careful' = careful /\ UNCHANGED workreqs /\ asleep' \subseteq asleep
    BY <1>7 DEF ReaderEnd, srvVars, thrVars, cliVars
  <2>2. \A v \in Workers : pc[v] \in {"fid", "send", "write", "signal"} => pc'[v] \in {"fid", "send", "write", "signal"}
    BY <1>0, <1>7 DEF ReaderEnd, Go
  <2>. QED  BY <2>1, <2>2, WokenSame
<1>8. ASSUME ReaderExit
      PROVE  VersionWoken'
  <2>1. careful' = careful /\ UNCHANGED workreqs /\ asleep' \subseteq asleep
    BY <1>8 DEF ReaderExit, TakeTrans, srvVars, thrVars, cliVars
  <2>2. \A v \in Workers : pc[v] \in {"fid", "send", "write", "signal"} => pc'[v] \in {"fid", "send", "write", "signal"}
    BY <1>0, <1>8 DEF ReaderExit, TakeTrans, Go
  <2>. QED  BY <2>1, <2>2, WokenSame
<1>9. ASSUME np_srv_remove_conn
      PROVE  VersionWoken'
  <2>1. careful' = careful /\ UNCHANGED workreqs /\ asleep' \subseteq asleep
    BY <1>9 DEF np_srv_remove_conn, np_conn_decref, srvVars, thrVars, cliVars
  <2>2. \A v \in Workers : pc[v] \in {"fid", "send", "write", "signal"} => pc'[v] \in {"fid", "send", "write", "signal"}
    BY <1>0, <1>9 DEF np_srv_remove_conn, np_conn_decref, Go
  <2>. QED  BY <2>1, <2>2, WokenSame
<1>10. ASSUME ReaderBye
      PROVE  VersionWoken'
  <2>1. careful' = careful /\ UNCHANGED workreqs /\ asleep' \subseteq asleep
    BY <1>10 DEF ReaderBye, np_trans_destroy, srvVars, thrVars, cliVars
  <2>2. \A v \in Workers : pc[v] \in {"fid", "send", "write", "signal"} => pc'[v] \in {"fid", "send", "write", "signal"}
    BY <1>0, <1>10 DEF ReaderBye, np_trans_destroy, Go
  <2>. QED  BY <2>1, <2>2, WokenSame
<1>11. ASSUME ReaderLast
      PROVE  VersionWoken'
  <2>1. careful' = careful /\ UNCHANGED workreqs /\ asleep' \subseteq asleep
    BY <1>11 DEF ReaderLast, np_conn_decref, srvVars, thrVars, cliVars
  <2>2. \A v \in Workers : pc[v] \in {"fid", "send", "write", "signal"} => pc'[v] \in {"fid", "send", "write", "signal"}
    BY <1>0, <1>11 DEF ReaderLast, np_conn_decref, Go
  <2>. QED  BY <2>1, <2>2, WokenSame
<1>12. ASSUME NEW a \in Workers \cup {Reader}, ResetBegin(a)
      PROVE  VersionWoken'
  <2>1. careful' = careful /\ UNCHANGED workreqs /\ asleep' \subseteq asleep
    BY <1>12 DEF ResetBegin, srvVars, thrVars, cliVars
  <2>2. \A v \in Workers : pc[v] \in {"fid", "send", "write", "signal"} => pc'[v] \in {"fid", "send", "write", "signal"}
    BY <1>0, <1>12 DEF ResetBegin, Go
  <2>. QED  BY <2>1, <2>2, WokenSame
<1>13. ASSUME NEW a \in Workers \cup {Reader}, ResetCollect(a)
      PROVE  VersionWoken'
  <2>1. careful' = careful /\ UNCHANGED workreqs /\ asleep' \subseteq asleep
    BY <1>13 DEF ResetCollect, srvVars, thrVars, cliVars
  <2>2. \A v \in Workers : pc[v] \in {"fid", "send", "write", "signal"} => pc'[v] \in {"fid", "send", "write", "signal"}
    BY <1>0, <1>13 DEF ResetCollect, Go
  <2>. QED  BY <2>1, <2>2, WokenSame
<1>14. ASSUME NEW a \in Workers \cup {Reader}, ResetDrop(a)
      PROVE  VersionWoken'
  <2>1. careful' = careful /\ UNCHANGED workreqs /\ asleep' \subseteq asleep
    BY <1>14 DEF ResetDrop, srvVars, thrVars, cliVars
  <2>2. \A v \in Workers : pc[v] \in {"fid", "send", "write", "signal"} => pc'[v] \in {"fid", "send", "write", "signal"}
    BY <1>0, <1>14 DEF ResetDrop, Go
  <2>. QED  BY <2>1, <2>2, WokenSame
<1>15. ASSUME NEW a \in Workers \cup {Reader}, ResetWait(a)
      PROVE  VersionWoken'
  <2>1. CASE Awaited(a) = {}
    <3>1. careful' = careful /\ UNCHANGED workreqs /\ asleep' \subseteq asleep
      BY <1>15, <2>1 DEF ResetWait, srvVars, cliVars
    <3>2. \A v \in Workers : pc[v] \in {"fid", "send", "write", "signal"} => pc'[v] \in {"fid", "send", "write", "signal"}
      BY <1>0, <1>15 DEF ResetWait, Go
    <3>. QED  BY <3>1, <3>2, WokenSame
  <2>2. CASE Awaited(a) # {}
    <3>1. UNCHANGED <<careful, workreqs, rq, pc, resetting>> /\ asleep' = asleep \cup {a}
      BY <1>15, <2>2 DEF ResetWait, srvVars, cliVars, connVars
    <3>2. \A v \in Workers : Awaited(v)' = Awaited(v)
      BY <3>1 DEF Awaited
    <3>. QED  BY <2>2, <3>1, <3>2 DEF VersionWoken
  <2>. QED  BY <2>1, <2>2
<1>16. ASSUME NEW a \in Workers \cup {Reader}, ResetDestroy(a)
      PROVE  VersionWoken'
  <2>1. careful' = careful /\ UNCHANGED workreqs /\ asleep' \subseteq asleep
    BY <1>16 DEF ResetDestroy, srvVars, thrVars, cliVars
  <2>2. \A v \in Workers : pc[v] \in {"fid", "send", "write", "signal"} => pc'[v] \in {"fid", "send", "write", "signal"}
    BY <1>0, <1>16 DEF ResetDestroy, Go
  <2>. QED  BY <2>1, <2>2, WokenSame
<1>17. ASSUME NEW a \in Workers \cup {Reader}, ResetRenew(a)
      PROVE  VersionWoken'
  <2>1. careful' = careful /\ UNCHANGED workreqs /\ asleep' \subseteq asleep
    BY <1>17 DEF ResetRenew, srvVars, thrVars, cliVars
  <2>2. \A v \in Workers : pc[v] \in {"fid", "send", "write", "signal"} => pc'[v] \in {"fid", "send", "write", "signal"}
    BY <1>0, <1>17 DEF ResetRenew, Go
  <2>. QED  BY <2>1, <2>2, WokenSame
<1>18. ASSUME NEW a \in Workers \cup {Reader}, ResetPool(a)
      PROVE  VersionWoken'
  <2>1. careful' = careful /\ UNCHANGED workreqs /\ asleep' \subseteq asleep
    BY <1>18 DEF ResetPool, srvVars, thrVars, cliVars
  <2>2. \A v \in Workers : pc[v] \in {"fid", "send", "write", "signal"} => pc'[v] \in {"fid", "send", "write", "signal"}
    BY <1>0, <1>18 DEF ResetPool, Go
  <2>. QED  BY <2>1, <2>2, WokenSame
<1>19. ASSUME NEW a \in Workers \cup {Reader}, ResetReopen(a)
      PROVE  VersionWoken'
  <2>1. careful' = careful /\ UNCHANGED workreqs /\ asleep' \subseteq asleep
    BY <1>19 DEF ResetReopen, srvVars, thrVars, cliVars
  <2>2. \A v \in Workers : pc[v] \in {"fid", "send", "write", "signal"} => pc'[v] \in {"fid", "send", "write", "signal"}
    BY <1>0, <1>19 DEF ResetReopen, Go
  <2>. QED  BY <2>1, <2>2, WokenSame
<1>20. ASSUME NEW a \in Workers \cup {Reader}, ResetUnkeep(a)
      PROVE  VersionWoken'
  <2>1. careful' = careful /\ UNCHANGED workreqs /\ asleep' \subseteq asleep
    BY <1>20 DEF ResetUnkeep, srvVars, thrVars, cliVars
  <2>2. \A v \in Workers : pc[v] \in {"fid", "send", "write", "signal"} => pc'[v] \in {"fid", "send", "write", "signal"}
    BY <1>0, <1>20 DEF ResetUnkeep, Go
  <2>. QED  BY <2>1, <2>2, WokenSame
<1>21. ASSUME NEW w \in Workers, WorkerTake(w)
      PROVE  VersionWoken'
  <2>1. /\ UNCHANGED <<careful, asleep, rq, resetting>> /\ workreqs \subseteq workreqs' /\ pc[w] = "idle"
        /\ \A v \in Workers \ {w} : pc'[v] = pc[v]
    BY <1>0, <1>21 DEF WorkerTake, cliVars, connVars, Go
  <2>2. \A v \in Workers : Awaited(v) \subseteq Awaited(v)'
    BY <2>1 DEF Awaited
  <2>3. \A v \in Workers : pc[v] \in {"fid", "send", "write", "signal"} => pc'[v] \in {"fid", "send", "write", "signal"}
    BY <2>1
  <2>. QED  BY <2>1, <2>2, <2>3 DEF VersionWoken
<1>22. ASSUME NEW w \in Workers, Process(w)
      PROVE  VersionWoken'
  <2>1. careful' = careful /\ UNCHANGED workreqs /\ asleep' \subseteq asleep
    BY <1>22 DEF Process, srvVars, thrVars, cliVars
  <2>2. \A v \in Workers : pc[v] \in {"fid", "send", "write", "signal"} => pc'[v] \in {"fid", "send", "write", "signal"}
    BY <1>0, <1>22 DEF Process, Go
  <2>. QED  BY <2>1, <2>2, WokenSame
<1>23. ASSUME NEW w \in Workers, np_version(w)
      PROVE  VersionWoken'
  <2>1. careful' = careful /\ UNCHANGED workreqs /\ asleep' \subseteq asleep
    BY <1>23 DEF np_version, srvVars, thrVars, cliVars
  <2>2. \A v \in Workers : pc[v] \in {"fid", "send", "write", "signal"} => pc'[v] \in {"fid", "send", "write", "signal"}
    BY <1>0, <1>23 DEF np_version, Go
  <2>. QED  BY <2>1, <2>2, WokenSame
<1>24. ASSUME NEW w \in Workers, RespondUnlink(w)
      PROVE  VersionWoken'
  <2>1. /\ UNCHANGED <<careful, asleep, rq, resetting>> /\ workreqs' = workreqs \ {req[w]}
        /\ pc[w] = "unlink" /\ pc'[w] = "fid" /\ \A v \in Workers \ {w} : pc'[v] = pc[v]
    BY <1>0, <1>24 DEF RespondUnlink, thrVars, cliVars, connVars, Go
  <2>2. ASSUME careful', NEW v \in Workers \cap asleep'
        PROVE  \/ Awaited(v)' # {}
               \/ \E u \in Workers \ {v} : pc'[u] \in {"fid", "send", "write", "signal"} /\ resetting'
    <3>1. pc'[v] = "wait" /\ v # w
      BY <2>1, <2>2 DEF PcInv
    <3>2. resetting'
      BY <2>2, <3>1 DEF SessionInv, AloneInv
    <3>. QED  BY <2>1, <3>1, <3>2
  <2>. QED  BY <2>2 DEF VersionWoken
<1>25. ASSUME NEW w \in Workers, RespondFid(w)
      PROVE  VersionWoken'
  <2>1. careful' = careful /\ UNCHANGED workreqs /\ asleep' \subseteq asleep
    BY <1>25 DEF RespondFid, srvVars, thrVars, cliVars
  <2>2. \A v \in Workers : pc[v] \in {"fid", "send", "write", "signal"} => pc'[v] \in {"fid", "send", "write", "signal"}
    BY <1>0, <1>25 DEF RespondFid, Go
  <2>. QED  BY <2>1, <2>2, WokenSame
<1>26. ASSUME NEW w \in Workers, RespondSend(w)
      PROVE  VersionWoken'
  <2>1. careful' = careful /\ UNCHANGED workreqs /\ asleep' \subseteq asleep
    BY <1>26 DEF RespondSend, srvVars, thrVars, cliVars
  <2>2. \A v \in Workers : pc[v] \in {"fid", "send", "write", "signal"} => pc'[v] \in {"fid", "send", "write", "signal"}
    BY <1>0, <1>26 DEF RespondSend, Go
  <2>. QED  BY <2>1, <2>2, WokenSame
<1>27. ASSUME NEW w \in Workers, RespondWrite(w)
      PROVE  VersionWoken'
  <2>1. careful' = careful /\ UNCHANGED workreqs /\ asleep' \subseteq asleep
    BY <1>27 DEF RespondWrite, TakeTrans, srvVars, thrVars, cliVars
  <2>2. \A v \in Workers : pc[v] \in {"fid", "send", "write", "signal"} => pc'[v] \in {"fid", "send", "write", "signal"}
    BY <1>0, <1>27 DEF RespondWrite, TakeTrans, Go
  <2>. QED  BY <2>1, <2>2, WokenSame
<1>28. ASSUME NEW w \in Workers, RespondSignal(w)
      PROVE  VersionWoken'
  <2>1. CASE resetting
    <3>1. asleep' = {}
      BY <1>28, <2>1 DEF RespondSignal
    <3>. QED  BY <3>1 DEF VersionWoken
  <2>2. CASE ~resetting
    <3>1. /\ UNCHANGED <<careful, asleep, rq, resetting, workreqs>>
          /\ \A v \in Workers \ {w} : pc'[v] = pc[v]
      BY <1>0, <1>28, <2>2 DEF RespondSignal, cliVars, srvVars, Go
    <3>2. \A v \in Workers : Awaited(v)' = Awaited(v)
      BY <3>1 DEF Awaited
    <3>. QED  BY <2>2, <3>1, <3>2 DEF VersionWoken
  <2>. QED  BY <2>1, <2>2
<1>29. ASSUME NEW w \in Workers, RespondUnref(w)
      PROVE  VersionWoken'
  <2>1. careful' = careful /\ UNCHANGED workreqs /\ asleep' \subseteq asleep
    BY <1>29 DEF RespondUnref, srvVars, thrVars, cliVars
  <2>2. \A v \in Workers : pc[v] \in {"fid", "send", "write", "signal"} => pc'[v] \in {"fid", "send", "write", "signal"}
    BY <1>0, <1>29 DEF RespondUnref, Go
  <2>. QED  BY <2>1, <2>2, WokenSame
<1>30. ASSUME NEW shutconns \in BOOLEAN, np_srv_shutdown(shutconns)
      PROVE  VersionWoken'
  <2>1. careful' = careful /\ UNCHANGED workreqs /\ asleep' \subseteq asleep
    BY <1>30 DEF np_srv_shutdown, srvVars, thrVars, cliVars
  <2>2. \A v \in Workers : pc[v] \in {"fid", "send", "write", "signal"} => pc'[v] \in {"fid", "send", "write", "signal"}
    BY <1>0, <1>30 DEF np_srv_shutdown, Go
  <2>. QED  BY <2>1, <2>2, WokenSame
<1>31. ASSUME np_conn_shutdown
      PROVE  VersionWoken'
  <2>1. careful' = careful /\ UNCHANGED workreqs /\ asleep' \subseteq asleep
    BY <1>31 DEF np_conn_shutdown, srvVars, thrVars, cliVars
  <2>2. \A v \in Workers : pc[v] \in {"fid", "send", "write", "signal"} => pc'[v] \in {"fid", "send", "write", "signal"}
    BY <1>0, <1>31 DEF np_conn_shutdown, Go
  <2>. QED  BY <2>1, <2>2, WokenSame
<1>32. ASSUME StopperDecref
      PROVE  VersionWoken'
  <2>1. careful' = careful /\ UNCHANGED workreqs /\ asleep' \subseteq asleep
    BY <1>32 DEF StopperDecref, np_conn_decref, srvVars, thrVars, cliVars
  <2>2. \A v \in Workers : pc[v] \in {"fid", "send", "write", "signal"} => pc'[v] \in {"fid", "send", "write", "signal"}
    BY <1>0, <1>32 DEF StopperDecref, np_conn_decref, Go
  <2>. QED  BY <2>1, <2>2, WokenSame
<1>. QED
  BY <1>1, <1>2, <1>3, <1>4, <1>5, <1>6, <1>7, <1>8, <1>9, <1>10, <1>11, <1>12,
     <1>13, <1>14, <1>15, <1>16, <1>17, <1>18, <1>19, <1>20, <1>21, <1>22,
     <1>23, <1>24, <1>25, <1>26, <1>27, <1>28, <1>29, <1>30, <1>31, <1>32
     DEF Next, np_conn_read_proc, Worker, np_conn_reset

\* The client stays what it is.
LEMMA CarefulKept == Next => careful' = careful
BY DEF Next, np_conn_read_proc, Worker, np_conn_reset, ReaderRecv, ReaderEnd, ReaderStart,
       ReaderCheck, ReaderAlloc, ReaderSleep, ReaderAdd, ReaderExit, np_srv_remove_conn, ReaderBye, ReaderLast,
       ResetBegin, ResetCollect, ResetDrop, ResetWait, ResetDestroy, ResetRenew, ResetPool,
       ResetReopen, ResetUnkeep, WorkerTake, Process, np_version, RespondUnlink, RespondFid, RespondSend,
       RespondWrite, RespondSignal, RespondUnref, np_srv_shutdown, np_conn_shutdown,
       StopperDecref, cliVars

----------------------------------------------------------------------------
(* The invariant, and the theorems *)

ConnInv ==
    /\ TypeOK /\ PcInv /\ HoldInv /\ WorkInv /\ ReaderInv /\ PoolsInv
    /\ CountInv /\ FreeInv /\ TransInv /\ SessionInv /\ BornInv /\ VersionWoken

\* A connection begins with nothing but the list's reference, or without it.
LEMMA ConnInvInit == Init => ConnInv
<1>. SUFFICES ASSUME Init PROVE ConnInv
  OBVIOUS
<1>. USE NpConnAssumption DEF Init, Actors
<1>1. /\ \A a \in Actors : req[a] = None /\ preqs[a] = {} /\ kept[a] = {}
      /\ pc[Reader] = "start" /\ pc[Stopper] = "idle"
      /\ \A w \in Workers : pc[w] = "idle"
      /\ \A r \in Reqs : rq[r] = NoReq /\ rq[r].refs = 0
  BY DEF NoReq
<1>2. ToSet(reqs) = {} /\ DOMAIN reqs = {} /\ reqs \in Seq(Reqs)
  <2>1. <<>> \in Seq(Reqs) /\ reqs = <<>>
    OBVIOUS
  <2>2. ToSet(<<>>) = {} /\ DOMAIN <<>> = {}
    BY <2>1, QueueOf
  <2>. QED  BY <2>1, <2>2
<1>3. /\ IsFiniteSet({}) /\ Cardinality({}) = 0
  BY FS_EmptySet
<1>4. TypeOK
  <2>1. NoReq \in [refs : Nat, kind : Kinds, born : 0 .. MaxPools, fid : 0 .. MaxPools]
    BY DEF NoReq, Kinds
  <2>2. rq \in [Reqs -> [refs : Nat, kind : Kinds, born : 0 .. MaxPools, fid : 0 .. MaxPools]]
    BY <2>1
  <2>3. /\ pc \in [Actors -> Locations] /\ req \in [Actors -> Reqs \cup {None}]
        /\ preqs \in [Actors -> SUBSET Reqs] /\ kept \in [Actors -> SUBSET Reqs]
    BY DEF Locations
  <2>4. /\ {freed, listed, trans, resetting, shut, destroyed} \subseteq BOOLEAN
        /\ careful \in BOOLEAN /\ awaits \in BOOLEAN
    OBVIOUS
  <2>5. refcount \in Nat /\ closed \in Nat /\ pools \in 0 .. MaxPools /\ pool \in 0 .. pools
    OBVIOUS
  <2>6. workreqs \in SUBSET Reqs /\ asleep \in SUBSET Actors /\ took \in SUBSET Actors
    OBVIOUS
  <2>. HIDE DEF Init
  <2>. QED  BY <1>2, <2>2, <2>3, <2>4, <2>5, <2>6 DEF TypeOK
<1>5. PcInv
  BY <1>1 DEF PcInv, AtExit, InReset
<1>6. HoldInv
  <2>1. OneOwner
    BY <1>1, <1>2 DEF OneOwner, Has
  <2>2. ASSUME NEW r \in Reqs PROVE rq[r].refs = One(Owned(r)) + Cardinality(Keepers(r))
    <3>1. ~Owned(r) /\ Keepers(r) = {}
      BY <1>1, <1>2 DEF Owned, Has, Keepers
    <3>. QED  BY <1>1, <1>3, <3>1 DEF One
  <2>. QED  BY <2>1, <2>2 DEF HoldInv, RefsExact
<1>7. WorkInv /\ ReaderInv /\ FreeInv /\ SessionInv /\ BornInv /\ VersionWoken
  <2>1. WorkInv
    BY <1>1 DEF WorkInv, InReset
  <2>2. ReaderInv
    BY <1>1 DEF ReaderInv, AtExit, InReset
  <2>3. FreeInv
    BY <1>1 DEF FreeInv
  <2>4. SessionInv
    BY <1>1, <1>2 DEF SessionInv, AwaitInv, AloneInv, Asked
  <2>5. BornInv
    BY <1>1, <1>2 DEF BornInv
  <2>6. VersionWoken
    BY DEF VersionWoken
  <2>. QED  BY <2>1, <2>2, <2>3, <2>4, <2>5, <2>6
<1>8. PoolsInv
  <2>1. Resetting = {}
    BY <1>1 DEF Resetting
  <2>. QED  BY <1>3, <2>1 DEF PoolsInv
<1>9. CountInv
  <2>1. Live = {}
    BY <1>1 DEF Live
  <2>. QED  BY <1>1, <1>3, <2>1 DEF CountInv, One
<1>10. TransInv
  BY <1>3 DEF TransInv, One
<1>. QED  BY <1>4, <1>5, <1>6, <1>7, <1>8, <1>9, <1>10 DEF ConnInv

\* Every step keeps the invariant.
LEMMA ConnInvNext == ConnInv /\ [Next]_vars => ConnInv'
<1>. SUFFICES ASSUME ConnInv, [Next]_vars PROVE ConnInv'
  OBVIOUS
<1>1. CASE Next
  <2>. USE <1>1
  <2>1. /\ TypeOK /\ PcInv /\ HoldInv /\ WorkInv /\ ReaderInv /\ PoolsInv
        /\ CountInv /\ FreeInv /\ TransInv /\ SessionInv /\ BornInv /\ VersionWoken
    BY DEF ConnInv
  <2>2. TypeOK' /\ PcInv' /\ HoldInv'
    BY <2>1, TypeKeeps, PcKeeps, HoldKeeps
  <2>3. WorkInv' /\ ReaderInv' /\ CountInv'
    BY <2>1, <2>2, WorkKeeps, ReaderKeeps, CountKeeps
  <2>4. PoolsInv' /\ TransInv' /\ FreeInv'
    BY <2>1, <2>2, <2>3, PoolsKeeps, TransKeeps, FreeKeeps
  <2>5. careful' = careful
    BY CarefulKept
  <2>6. SessionInv'
    <3>1. CASE careful
      <4>1. AwaitInv /\ AloneInv
        BY <2>1, <3>1 DEF SessionInv
      <4>. QED  BY <2>1, <2>2, <2>3, <3>1, <4>1, AwaitKeeps, AloneKeeps DEF SessionInv
    <3>2. CASE ~careful
      BY <2>5, <3>2 DEF SessionInv
    <3>. QED  BY <3>1, <3>2
  <2>7. BornInv' /\ VersionWoken'
    BY <2>1, <2>2, <2>3, <2>6, BornKeeps, WokenKeeps
  <2>. QED  BY <2>2, <2>3, <2>4, <2>6, <2>7 DEF ConnInv
<1>2. CASE UNCHANGED vars
  <2>. USE <1>2 DEF vars, connVars, srvVars, thrVars, cliVars
  <2>1. TypeOK' /\ PcInv'
    BY DEF ConnInv, TypeOK, PcInv
  <2>2. HoldInv' /\ WorkInv' /\ ReaderInv'
    BY DEF ConnInv, HoldInv, OneOwner, RefsExact, Has, Owned, Keepers, WorkInv, ReaderInv
  <2>3. PoolsInv' /\ CountInv' /\ FreeInv' /\ TransInv'
    BY DEF ConnInv, PoolsInv, Resetting, CountInv, Live, FreeInv, TransInv
  <2>4. SessionInv' /\ BornInv' /\ VersionWoken'
    BY DEF ConnInv, SessionInv, AwaitInv, AloneInv, Asked, IsVersion, BornInv, Bound, VersionWoken, Awaited
  <2>. QED  BY <2>1, <2>2, <2>3, <2>4 DEF ConnInv
<1>. QED  BY <1>1, <1>2

LEMMA ConnInvAlways == Spec => []ConnInv
BY ConnInvInit, ConnInvNext, PTL DEF Spec

(***************************************************************************)
(* The fields of the connection, its requests and its threads have their   *)
(* C types, and no count (np_conn_decref, np_req_unref) goes below zero.   *)
(***************************************************************************)
THEOREM TypeCorrect == Spec => []TypeOK
<1>1. ConnInv => TypeOK
  BY DEF ConnInv
<1>. QED  BY <1>1, ConnInvAlways, PTL

(***************************************************************************)
(* np_conn_incref and np_conn_decref balance: the connection is freed when *)
(* the list, a shutdown, the reader and every request are done with it,    *)
(* not before, and is not leaked - if np_srv_shutdown does not come before *)
(* the reader has taken its reference.                                     *)
(***************************************************************************)
THEOREM ConnRefExactAlways ==
    ASSUME ~EarlyShutdown
    PROVE  Spec => []ConnRefExact
<1>1. ConnInv => ConnRefExact
  BY DEF ConnInv, CountInv, FreeInv, ConnRefExact, Live
<1>. QED  BY <1>1, ConnInvAlways, PTL

(***************************************************************************)
(* np_trans_destroy is called once for the transport, whoever of the       *)
(* reader, np_conn_shutdown and the workers with a failed write comes      *)
(* first, and has been called when the connection is freed.                *)
(***************************************************************************)
THEOREM TransOnceAlways ==
    ASSUME ~EarlyShutdown
    PROVE  Spec => []TransOnce
<1>1. ConnInv => TransOnce
  <2>. SUFFICES ASSUME ConnInv PROVE TransOnce
    OBVIOUS
  <2>. USE NpConnAssumption DEF ConnInv, Actors
  <2>1. ASSUME freed PROVE closed = 1
    <3>1. refcount = 0 /\ pc[Reader] = "gone"
      BY <2>1 DEF FreeInv
    <3>2. Bare
      BY BareWhenFree
    <3>3. \A w \in Workers : pc[w] # "signal"
      BY <3>1, <3>2 DEF Bare, PcInv
    <3>4. took \in SUBSET Actors /\ took = {}
      BY <3>1, <3>3 DEF PcInv, TypeOK, AtExit, InReset
    <3>5. ~trans
      BY <3>1 DEF ReaderInv
    <3>6. Cardinality(took) = 0 /\ closed \in Nat
      BY <3>4, FS_EmptySet DEF TypeOK
    <3>. QED  BY <3>5, <3>6 DEF TransInv, One
  <2>. QED  BY <2>1 DEF TransInv, TransOnce
<1>. QED  BY <1>1, ConnInvAlways, PTL

(***************************************************************************)
(* np_conn_reset lets no request of the old session into the new one: for  *)
(* a client that waits for its Rversion a handler runs with the pool the   *)
(* connection had when its message was read.                               *)
(***************************************************************************)
THEOREM HandlerInSessionAlways == Spec => []HandlerInSession
<1>1. ConnInv => HandlerInSession
  BY DEF ConnInv, BornInv, Bound, HandlerInSession
<1>. QED  BY <1>1, ConnInvAlways, PTL

(***************************************************************************)
(* The worker that np_conn_reset puts to sleep on resetcond has somebody   *)
(* who will wake it: a request it waits for, or a worker in np_respond     *)
(* that will see conn->resetting - if the client waits for its Rversion.   *)
(***************************************************************************)
THEOREM VersionWokenAlways == Spec => []VersionWoken
<1>1. ConnInv => VersionWoken
  BY DEF ConnInv
<1>. QED  BY <1>1, ConnInvAlways, PTL
=============================================================================
