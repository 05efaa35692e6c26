--------------------------- MODULE NpcFsysProofs ---------------------------
(***************************************************************************)
(* The client of NpcFsys keeps NpcPromise, and its tags, fid numbers and   *)
(* queues are sound, for every number of callers, tags, fids and parts.    *)
(*                                                                         *)
(* The promise is about calls, the code about requests, tags and threads.  *)
(* What ties them together: every request the client has is in one place,  *)
(* has a tag of its own and belongs to a call that has been asked and not  *)
(* answered (WayInv), and a reply can only find the request it answers     *)
(* (SrvInv).                                                               *)
(***************************************************************************)
EXTENDS NpcFsys, NpSeqs

Outs == {"ok", "short", "err"}
CallerType ==
    [pc : {"idle", "check", "queue", "wait", "cancel", "report", "flush", "stuck"},
     op : Ops, k : Kinds, n : Fids \cup Tags \cup {None}, fid : Fids \cup {None},
     part : Nat, ftags : SUBSET Tags, todo : SUBSET Requests]
ReaderType ==
    [pc : {"read", "cb", "drain", "exit"}, todo : SUBSET Requests,
     got : Messages \cup {None, Error}, out : Outs]
WriterType == [pc : {"loop", "wait", "exit"}, q : {None}] \cup [pc : {"write"}, q : Requests]

\* What TypeOK says, and the types of what it leaves open.
TypeInv ==
    /\ careful \in BOOLEAN /\ trans \in BOOLEAN /\ stale \in BOOLEAN /\ broken \in BOOLEAN
    /\ unsent \in Seq(Requests) /\ pend \in SUBSET Requests
    /\ tags \in SUBSET Tags
    /\ file \in [Fids -> {"free", "busy", "open", "lost"}]
    /\ th \in [Callers -> CallerType]
    /\ call \in [Slots -> Promise!Calls]
    /\ rd \in ReaderType
    /\ wr \in WriterType
    /\ srv \in SUBSET Requests /\ sfids \in SUBSET Fids

Sending == {"check", "queue", "wait"}
Reads == {"read", "readnb"}

\* What a caller has in hand at each place.
CallerOk(t, parts) ==
    /\ t.part <= parts
    /\ t.pc = "idle" => t.part = 0 /\ t.ftags = {}
    /\ t.pc # "idle" => t.fid \in Fids
    /\ t.pc \in Sending =>
         /\ t.n \in Fids \cup Tags
         /\ t.k # "flush" => t.n = t.fid
         /\ t.k = "walk" => t.op \in {"open", "stat", "remove"}
         /\ t.k = "read" <=> t.op \in Reads
    /\ t.pc \in {"cancel", "report", "flush"} => t.op \notin Reads
    /\ t.pc = "stuck" => t.op \in Reads
    /\ t.part > 0 => t.pc \in {"check", "queue", "stuck"} /\ t.op \in Reads
    /\ t.todo # {} => t.pc = "report"
CallerInv == \A c \in Callers : CallerOk(th[c], Parts[c])

\* The places a request of the client can be in.
Places == {"unsent", "pend", "rd", "todo"}
At(p, q) ==
    \/ p = "unsent" /\ q \in ToSet(unsent)
    \/ p = "pend" /\ q \in pend
    \/ p = "rd" /\ q \in rd.todo
    \/ p = "todo" /\ \E c \in Callers : q \in th[c].todo

\* The tag of a request is returned when its call is answered, and not at all
\* when the connection is lost.
Tagged(p) == p # "rd" \/ rd.pc = "cb"

\* Every request is that of a call that has been asked, and of no other's ...
AskedInv ==
    \A p \in Places, q \in Requests : At(p, q) => call[q.m.s].st = "asked" /\ call[q.m.s].m = q.m
OnePlace ==
    /\ \A p1, p2 \in Places, q1, q2 \in Requests :
         At(p1, q1) /\ At(p2, q2) /\ q1.m.s = q2.m.s => p1 = p2 /\ q1 = q2
    /\ \A i, j \in DOMAIN unsent : unsent[i] = unsent[j] => i = j
    /\ \A c, d \in Callers : \A q \in th[c].todo \cap th[d].todo : c = d

\* ... and has a tag for itself.
TagInv ==
    /\ \A p \in Places, q \in Requests : At(p, q) /\ Tagged(p) => q.tag \in tags
    /\ \A p1, p2 \in Places, q1, q2 \in Requests :
         At(p1, q1) /\ At(p2, q2) /\ Tagged(p1) /\ Tagged(p2) /\ q1.tag = q2.tag => p1 = p2 /\ q1 = q2

WayInv == AskedInv /\ OnePlace /\ TagInv

\* What was sent, is being sent, or was answered, is pending.
Pending(x) == \E q \in pend : q.tag = x.tag /\ q.m = x.m
SrvInv ==
    /\ \A q \in ToSet(unsent) : ~q.flushed
    /\ \A x \in srv : trans /\ ~x.flushed /\ Pending(x)
    /\ wr.pc = "write" /\ trans =>
         ~wr.q.flushed /\ Pending(wr.q) /\ \A x \in srv : x.tag # wr.q.tag
    /\ rd.pc = "cb" => (\A q \in rd.todo : rd.got = q.m)
    /\ rd.pc = "read" => rd.todo = {}
    /\ rd.pc \in {"drain", "exit"} => ~trans

\* The calls that have been made are those their callers wait for.
SlotOk(c) ==
    /\ call[<<c, 0>>].st # "idle" =>
         th[c].pc = "wait" /\ call[<<c, 0>>].m = [k |-> th[c].k, n |-> th[c].n, s |-> <<c, 0>>]
    /\ \A i \in 1 .. Parts[c] :
         /\ call[<<c, i>>].st # "idle" => call[<<c, i>>].m.k = "read"
         /\ th[c].part > 0 /\ th[c].pc \in {"check", "queue"} /\ i >= th[c].part =>
              call[<<c, i>>].st = "idle"
SlotInv == \A c \in Callers : SlotOk(c)

\* A fid number has one caller that opens, closes or removes it, and the
\* server's view of it changes at its word only.
Owner(c) == th[c].pc # "idle" /\ th[c].op \notin Reads
Ends(k) == k \in {"clunk", "remove"}
OwnerInv ==
    /\ \A c \in Callers : Owner(c) => file[th[c].fid] = "busy"
    /\ \A c, d \in Callers : Owner(c) /\ Owner(d) /\ th[c].fid = th[d].fid => c = d

\* The server has agreed to forget the fid: its answer is there, or on its way
\* to the caller.
Agreed(c) ==
    /\ th[c].pc = "wait" /\ Ends(th[c].k)
    /\ call[<<c, 0>>].st = "answered" /\ call[<<c, 0>>].out = "ok"
Agreeing(q) == q \in rd.todo /\ rd.pc = "cb" /\ rd.out = "ok" /\ Ends(q.m.k)
FidInv ==
    /\ OwnerInv
    /\ \A n \in sfids : file[n] # "free"
    /\ \A c \in Callers : Agreed(c) => th[c].fid \notin sfids
    /\ \A q \in Requests : Agreeing(q) => q.m.n \notin sfids

\* When fids are closed with nothing outstanding on them, there is nothing to
\* cancel, and the stale pointer stays behind the first of the queue.
NoFlush == \A p \in Places, q \in Requests : At(p, q) => q.m.k # "flush"
CareOk(t) ==
    /\ t.ftags = {} /\ t.todo = {}
    /\ t.pc \in Sending => t.k # "flush"
    /\ t.pc \in {"check", "queue"} /\ t.k = "read" => file[t.fid] = "open"
OpenRead == \A n \in Fids : Outstanding(n) => file[n] = "open"
Behind == (trans /\ stale => unsent # <<>>) /\ (broken => ~trans)
CareInv == careful => NoFlush /\ (\A c \in Callers : CareOk(th[c])) /\ OpenRead /\ Behind

\* npc_get_id: the lowest of some numbers is one of them.
LEMMA LowestIn ==
    ASSUME NEW T, T \subseteq Nat, T # {}
    PROVE  Lowest(T) \in T
BY LeastNat DEF Lowest

\* The first i requests of s without those of S.
Kept(s, S, n, f) ==
    f = [i \in 0 .. n |-> IF i = 0 THEN <<>> ELSE IF s[i] \in S THEN f[i - 1] ELSE Append(f[i - 1], s[i])]

\* The recursive function of Without is one.
LEMMA KeptExists ==
    ASSUME NEW R, NEW s \in Seq(R), NEW S
    PROVE  \E f : Kept(s, S, Len(s), f)
<1>. DEFINE bad == {n \in 0 .. Len(s) : ~\E f : Kept(s, S, n, f)}
<1>1. SUFFICES ASSUME bad # {} PROVE FALSE
  BY LenProperties
<1>0. bad \subseteq Nat
  BY LenProperties
<1>2. PICK n \in bad : \A y \in bad : n <= y
  BY <1>0, <1>1, LeastNat, Zenon
<1>3. n # 0
  <2>1. Kept(s, S, 0, [i \in 0 .. 0 |-> <<>>])
    BY DEF Kept
  <2>. QED  BY <2>1
<1>4. n - 1 \in 0 .. Len(s) /\ n - 1 \notin bad
  BY <1>2, <1>3, LenProperties
<1>5. PICK f : Kept(s, S, n - 1, f)
  BY <1>4
<1>. DEFINE g == [i \in 0 .. n |-> IF i = n THEN (IF s[n] \in S THEN f[n - 1] ELSE Append(f[n - 1], s[n]))
                                   ELSE f[i]]
<1>6. \A i \in 0 .. n : g[i] = IF i = 0 THEN <<>> ELSE IF s[i] \in S THEN g[i - 1] ELSE Append(g[i - 1], s[i])
  <2>. TAKE i \in 0 .. n
  <2>1. CASE i = n
    BY <1>3, <1>4, <2>1
  <2>2. CASE i # n
    <3>1. i \in 0 .. (n - 1) /\ g[i] = f[i] /\ (i # 0 => g[i - 1] = f[i - 1])
      BY <1>4, <2>2
    <3>. QED  BY <1>5, <3>1 DEF Kept
  <2>. QED  BY <2>1, <2>2
<1>7. Kept(s, S, n, g)
  BY <1>6 DEF Kept
<1>. QED  BY <1>7

\* What npc_cancel_fid_requests leaves of the unsent queue.
LEMMA WithoutIs ==
    ASSUME NEW R, NEW s \in Seq(R), NEW S
    PROVE  /\ Without(s, S) \in Seq(R)
           /\ ToSet(Without(s, S)) = ToSet(s) \ S
           /\ (\A i, j \in DOMAIN s : s[i] = s[j] => i = j) =>
                \A i, j \in DOMAIN Without(s, S) : Without(s, S)[i] = Without(s, S)[j] => i = j
<1>. DEFINE f == CHOOSE h : Kept(s, S, Len(s), h)
            Set(n) == {s[i] : i \in {k \in 1 .. n : s[k] \notin S}}
            Good(n) == /\ f[n] \in Seq(R) /\ ToSet(f[n]) = Set(n)
                       /\ (\A i, j \in DOMAIN s : s[i] = s[j] => i = j) =>
                            \A i, j \in DOMAIN f[n] : f[n][i] = f[n][j] => i = j
<1>1. Without(s, S) = f[Len(s)]
  BY DEF Without, Kept
<1>2. Kept(s, S, Len(s), f)
  BY KeptExists
<1>3. \A n \in 0 .. Len(s) : f[n] = IF n = 0 THEN <<>> ELSE IF s[n] \in S THEN f[n - 1] ELSE Append(f[n - 1], s[n])
  BY <1>2 DEF Kept
<1>. HIDE DEF f, Good
<1>4. \A n \in 0 .. Len(s) : Good(n)
  <2>. DEFINE bad == {n \in 0 .. Len(s) : ~Good(n)}
  <2>1. SUFFICES ASSUME bad # {} PROVE FALSE
    OBVIOUS
  <2>0. bad \subseteq Nat
    BY LenProperties
  <2>2. PICK n \in bad : \A y \in bad : n <= y
    BY <2>0, <2>1, LeastNat, Zenon
  <2>3. n # 0
    <3>1. f[0] = <<>> /\ ToSet(<<>>) = {} /\ DOMAIN <<>> = {} /\ <<>> \in Seq(R)
      BY <1>3, LenProperties DEF ToSet
    <3>2. Set(0) = {}
      OBVIOUS
    <3>3. Good(0)
      BY <3>1, <3>2 DEF Good
    <3>. QED  BY <3>3
  <2>4. n - 1 \in 0 .. Len(s) /\ n \in DOMAIN s /\ s[n] \in R
    BY <2>3, LenProperties
  <2>7. Good(n - 1)
    BY <2>2, <2>4
  <2>5. CASE s[n] \in S
    <3>1. f[n] = f[n - 1]
      BY <1>3, <2>3, <2>4, <2>5
    <3>2. Set(n) = Set(n - 1)
      BY <2>4, <2>5
    <3>. QED  BY <2>7, <3>1, <3>2 DEF Good
  <2>6. CASE s[n] \notin S
    <3>1. f[n] = Append(f[n - 1], s[n])
      BY <1>3, <2>3, <2>4, <2>6
    <3>2. Set(n) = Set(n - 1) \cup {s[n]}
      BY <2>4, <2>6
    <3>3. f[n] \in Seq(R) /\ ToSet(f[n]) = ToSet(f[n - 1]) \cup {s[n]}
      BY <2>4, <2>7, <3>1, AppendOf DEF Good
    <3>4. ASSUME \A i, j \in DOMAIN s : s[i] = s[j] => i = j,
                 NEW i \in DOMAIN f[n], NEW j \in DOMAIN f[n], f[n][i] = f[n][j]
          PROVE  i = j
      <4>1. s[n] \notin Set(n - 1)
        BY <2>4, <3>4
      <4>2. /\ DOMAIN f[n] = 1 .. (Len(f[n - 1]) + 1) /\ Len(f[n - 1]) \in Nat
            /\ DOMAIN f[n - 1] = 1 .. Len(f[n - 1])
            /\ f[n][Len(f[n - 1]) + 1] = s[n] /\ \A k \in 1 .. Len(f[n - 1]) : f[n][k] = f[n - 1][k]
        BY <2>4, <2>7, <3>1, AppendOf DEF Good
      <4>3. \A k \in DOMAIN f[n - 1] : f[n - 1][k] \in Set(n - 1)
        <5>1. \A k \in DOMAIN f[n - 1] : f[n - 1][k] \in ToSet(f[n - 1])
          BY <2>7, QueueOf DEF Good
        <5>2. ToSet(f[n - 1]) = Set(n - 1)
          BY <2>7 DEF Good
        <5>. QED  BY <5>1, <5>2
      <4>4. \A k, l \in DOMAIN f[n - 1] : f[n - 1][k] = f[n - 1][l] => k = l
        BY <2>7, <3>4 DEF Good
      <4>. HIDE DEF Set
      <4>5. CASE i = Len(f[n - 1]) + 1 /\ j # i
        BY <3>4, <4>1, <4>2, <4>3, <4>5
      <4>6. CASE j = Len(f[n - 1]) + 1 /\ j # i
        BY <3>4, <4>1, <4>2, <4>3, <4>6
      <4>7. CASE i \in DOMAIN f[n - 1] /\ j \in DOMAIN f[n - 1]
        BY <3>4, <4>2, <4>4, <4>7
      <4>. QED  BY <4>2, <4>5, <4>6, <4>7
    <3>5. ToSet(f[n]) = Set(n)
      BY <2>7, <3>2, <3>3 DEF Good
    <3>. QED  BY <3>3, <3>4, <3>5 DEF Good
  <2>. QED  BY <2>5, <2>6
<1>5. Good(Len(s))
  BY <1>4, LenProperties
<1>6. Set(Len(s)) = ToSet(s) \ S
  BY LenProperties DEF ToSet
<1>. QED  BY <1>1, <1>5, <1>6 DEF Good

\* The places for a call: <<c, 0>> for npc_rpc, <<c, i>> for a part of a read.
LEMMA SlotsOf ==
    /\ \A c \in Callers, i \in Nat : i <= Parts[c] => <<c, i>> \in Slots
    /\ \A s \in Slots : s = <<s[1], s[2]>> /\ s[1] \in Callers /\ s[2] \in Nat /\ s[2] <= Parts[s[1]]
    /\ \A c \in Callers : Parts[c] \in Nat /\ <<c, 0>> \in Slots
<1>0. \A c \in Callers : Parts[c] \in Nat
  BY NpcFsysAssumption
<1>1. ASSUME NEW c \in Callers, NEW i \in Nat, i <= Parts[c] PROVE <<c, i>> \in Slots
  <2>1. i \in 0 .. Parts[c]
    BY <1>0, <1>1
  <2>. QED  BY <2>1 DEF Slots
<1>2. ASSUME NEW s \in Slots
      PROVE  s = <<s[1], s[2]>> /\ s[1] \in Callers /\ s[2] \in Nat /\ s[2] <= Parts[s[1]]
  <2>1. PICK c \in Callers : s \in {c} \X (0 .. Parts[c])
    BY <1>2 DEF Slots
  <2>. QED  BY <1>0, <2>1
<1>. QED  BY <1>0, <1>1, <1>2

\* The parts of a request.
LEMMA RequestIs ==
    /\ \A q \in Requests : /\ q.tag \in Tags /\ q.m \in Messages /\ q.flushed \in BOOLEAN
                           /\ q.m.s \in Slots /\ q.m.k \in Kinds /\ q.m.n \in Fids \cup Tags
                           /\ [q EXCEPT !.flushed = TRUE] \in Requests
                           /\ [q EXCEPT !.flushed = TRUE].m = q.m /\ [q EXCEPT !.flushed = TRUE].tag = q.tag
    /\ \A p, q \in Requests : p.tag = q.tag /\ p.m = q.m /\ p.flushed = q.flushed => p = q
<1>1. ASSUME NEW q \in Requests
      PROVE  /\ q.tag \in Tags /\ q.m \in Messages /\ q.flushed \in BOOLEAN
             /\ q.m.s \in Slots /\ q.m.k \in Kinds /\ q.m.n \in Fids \cup Tags
  BY DEF Requests, Messages
<1>2. ASSUME NEW q \in Requests
      PROVE  /\ [q EXCEPT !.flushed = TRUE] \in Requests
             /\ [q EXCEPT !.flushed = TRUE].m = q.m /\ [q EXCEPT !.flushed = TRUE].tag = q.tag
  BY DEF Requests
<1>3. ASSUME NEW p \in Requests, NEW q \in Requests, p.tag = q.tag, p.m = q.m, p.flushed = q.flushed
      PROVE  p = q
  BY <1>3 DEF Requests
<1>. QED  BY <1>1, <1>2, <1>3

\* The records of the promise, seen from here.
LEMMA CallsOf ==
    /\ Promise!NoCall \in Promise!Calls /\ Promise!NoCall.st = "idle"
    /\ \A x \in Promise!Calls : /\ x.st \in {"idle", "asked", "answered"} /\ x.m \in Messages \cup {None}
                                /\ x.got \in Messages \cup {None, Error} /\ x.out \in Outs
BY DEF Promise!Calls, Promise!NoCall, Outs

\* npc_rpcnb leaves the place of the call so.
LEMMA CallAsked ==
    ASSUME NEW m \in Messages, NEW y, y = [Promise!NoCall EXCEPT !.st = "asked", !.m = m]
    PROVE  y \in Promise!Calls /\ y.st = "asked" /\ y.m = m
BY DEF Promise!Calls, Promise!NoCall

\* The callbacks npc_rpc_cb and npc_read_cb, of a call that waits for its
\* answer: it is answered, or with it the whole read is taken.  No other call
\* that waits is touched.
LEMMA CallbackIs ==
    ASSUME TypeInv, NEW s \in Slots, call[s].st = "asked",
           NEW got \in Messages \cup {None, Error}, NEW out \in Outs, Callback(s, got, out)
    PROVE  /\ call' \in [Slots -> Promise!Calls]
           /\ call'[s].st # "asked"
           /\ \A x \in Slots : x # s /\ (call[x].st # "answered" \/ x[2] = 0) => call'[x] = call[x]
           /\ \A x \in Slots : call'[x].st # "idle" => call[x].st # "idle" /\ call'[x].m = call[x].m
           /\ \A x \in Slots : call'[x].st = "asked" => call'[x] = call[x]
           /\ s[2] = 0 => call'[s].st = "answered" /\ call'[s].out = out
           /\ got \in {call[s].m, Error} /\ (got = Error => out = "err")
              => Promise!Answer(s) \/ \E S \in Groups : Promise!Take(S)
<1>0. /\ call \in [Slots -> Promise!Calls]
      /\ s = <<s[1], s[2]>> /\ s[1] \in Callers /\ s[2] \in Nat /\ s[2] <= Parts[s[1]]
      /\ \A x \in Slots : x = <<x[1], x[2]>> /\ x[2] \in Nat /\ x[2] <= Parts[x[1]]
  BY SlotsOf DEF TypeInv
<1>1. CASE s[2] > 0 /\ ~PartsLeft(s)
  <2>. DEFINE S == {s[1]} \X (1 .. Parts[s[1]])
  <2>1. call' = [x \in Slots |-> IF x[1] = s[1] /\ x[2] > 0 THEN Promise!NoCall ELSE call[x]]
    BY <1>1 DEF Callback
  <2>2. ASSUME NEW x \in Slots PROVE x \in S <=> x[1] = s[1] /\ x[2] > 0
    BY <1>0
  <2>3. ASSUME NEW x \in S, x # s PROVE call[x].st = "answered"
    <3>1. x = <<s[1], x[2]>> /\ x[2] \in (1 .. Parts[s[1]]) \ {s[2]}
      BY <1>0, <2>3
    <3>. QED  BY <1>1, <3>1 DEF PartsLeft
  <2>4. S \subseteq Slots /\ s \in S
    BY <1>0, <1>1, SlotsOf
  <2>5. S \in Groups
    <3>1. S \in {{<<s[1], 0>>}, {s[1]} \X (1 .. Parts[s[1]])} /\ S # {}
      BY <2>4
    <3>. HIDE DEF S
    <3>. QED  BY <1>0, <3>1 DEF Groups
  <2>6. call' = [x \in Slots |-> IF x \in S THEN Promise!NoCall ELSE call[x]]
    BY <2>1, <2>2
  <2>. HIDE DEF S
  <2>7. Promise!Take(S)
    BY <2>3, <2>4, <2>6 DEF Promise!Take
  <2>8. call' \in [Slots -> Promise!Calls]
    BY <1>0, <2>6, CallsOf
  <2>9. \A x \in Slots : x # s /\ (call[x].st # "answered" \/ x[2] = 0) => call'[x] = call[x]
    BY <2>2, <2>3, <2>6
  <2>10. call'[s].st = "idle" /\ ~(s[2] = 0)
    BY <1>0, <1>1, <2>4, <2>6, CallsOf
  <2>11. \A x \in Slots : call'[x].st # "idle" => call'[x] = call[x]
    BY <2>6, CallsOf
  <2>. QED  BY <2>5, <2>7, <2>8, <2>9, <2>10, <2>11
<1>2. CASE ~(s[2] > 0 /\ ~PartsLeft(s))
  <2>1. call' = [call EXCEPT ![s] = [call[s] EXCEPT !.st = "answered", !.got = got, !.out = out]]
    BY <1>0, <1>2 DEF Callback, Promise!Calls
  <2>2. /\ call'[s] = [call[s] EXCEPT !.st = "answered", !.got = got, !.out = out]
        /\ \A x \in Slots \ {s} : call'[x] = call[x]
        /\ call[s] \in Promise!Calls
    BY <1>0, <2>1
  <2>4. call'[s] \in Promise!Calls /\ call'[s].st = "answered" /\ call'[s].m = call[s].m /\ call'[s].out = out
    BY <2>2 DEF Promise!Calls, Outs
  <2>3. got \in {call[s].m, Error} /\ (got = Error => out = "err") => Promise!Answer(s)
    <3>1. call' = [call EXCEPT ![s].st = "answered", ![s].got = got, ![s].out = out]
      BY <1>0, <1>2 DEF Callback
    <3>2. ASSUME got \in {call[s].m, Error},
                 got = Error => out = "err"
          PROVE  Promise!Answer(s)
      BY <3>1, <3>2 DEF Promise!Answer, Outs
    <3>. QED  BY <3>2
  <2>. QED  BY <1>0, <2>1, <2>2, <2>3, <2>4
<1>. QED  BY <1>1, <1>2

\* What a caller does when npc_rpc returns: its call ends and leaves the fid in
\* a state, or it sends the next message, or it goes on cancelling.
Continued(c, res) ==
    /\ th' \in [Callers -> CallerType] /\ \A d \in Callers \ {c} : th'[d] = th[d]
    /\ file' \in [Fids -> {"free", "busy", "open", "lost"}]
    /\ \A n \in Fids \ {th[c].fid} : file'[n] = file[n]
    /\ CallerOk(th'[c], Parts[c]) /\ th'[c].todo = {} /\ th'[c].part = 0
    /\ th'[c].ftags \subseteq th[c].ftags
    /\ th'[c].pc \in {"idle", "check", "cancel", "flush"}
    /\ th'[c].pc # "idle" => th'[c].fid = th[c].fid /\ th'[c].op = th[c].op /\ file' = file
    /\ th[c].op \in Reads => th'[c].pc = "idle" /\ file' = file
    /\ file'[th[c].fid] = "free" => file' = file \/ (Ends(th[c].k) /\ res = "ok")
    /\ th'[c].pc = "check" => th'[c].k \notin {"flush", "read"}

\* The seven continuations of npc_rpc's callers are all of that kind.
LEMMA ContinueIs ==
    ASSUME TypeInv, CallerInv, NEW c \in Callers, NEW res, Continue(c, res),
           th[c].pc \in {"check", "wait"}, th[c].part = 0
    PROVE  Continued(c, res)
<1>. DEFINE t == th[c]
<1>0. /\ th \in [Callers -> CallerType] /\ file \in [Fids -> {"free", "busy", "open", "lost"}]
      /\ t \in CallerType /\ CallerOk(t, Parts[c]) /\ Parts[c] \in Nat
      /\ t.fid \in Fids /\ t.todo = {} /\ t.n \in Fids \cup Tags
  BY SlotsOf DEF TypeInv, CallerInv, CallerOk, Sending
<1>1. ASSUME NEW f \in {"free", "busy", "open", "lost"}, End(c, f),
             f = "free" => file[t.fid] = "free" \/ (Ends(t.k) /\ res = "ok"),
             t.op \in Reads => f = file[t.fid]
      PROVE  Continued(c, res)
  <2>1. /\ th' = [th EXCEPT ![c] = IdleCaller] /\ file' = [file EXCEPT ![t.fid] = f]
    BY <1>1 DEF End
  <2>2. IdleCaller \in CallerType /\ CallerOk(IdleCaller, Parts[c]) /\ IdleCaller.pc = "idle"
        /\ IdleCaller.todo = {} /\ IdleCaller.part = 0 /\ IdleCaller.ftags = {}
    BY <1>0 DEF IdleCaller, CallerType, CallerOk, Ops, Kinds, Sending
  <2>3. file[t.fid] = f => file' = file
    BY <1>0, <2>1
  <2>. QED  BY <1>0, <1>1, <2>1, <2>2, <2>3 DEF Continued
<1>2. ASSUME NEW k \in Kinds \ {"read", "flush", "walk"}, Send(c, k), t.op \notin Reads
      PROVE  Continued(c, res)
  <2>. DEFINE u == [t EXCEPT !.pc = "check", !.k = k, !.n = t.fid]
  <2>1. th' = [th EXCEPT ![c] = u] /\ file' = file
    BY <1>0, <1>2 DEF Send, Rpc, CallerType
  <2>2. /\ u \in CallerType /\ u.pc = "check" /\ u.k = k /\ u.n = t.fid /\ u.fid = t.fid /\ u.op = t.op
        /\ u.todo = {} /\ u.part = 0 /\ u.ftags = t.ftags
    BY <1>0 DEF CallerType
  <2>3. CallerOk(u, Parts[c])
    BY <1>0, <1>2, <2>2 DEF CallerOk, Sending
  <2>. HIDE DEF u
  <2>. QED  BY <1>0, <1>2, <2>1, <2>2, <2>3 DEF Continued
<1>3. ASSUME NEW l \in {"cancel", "flush"}, NEW g \in SUBSET t.ftags, t.op \notin Reads,
             th' = [th EXCEPT ![c] = [t EXCEPT !.pc = l, !.ftags = g]], UNCHANGED file
      PROVE  Continued(c, res)
  <2>. DEFINE u == [t EXCEPT !.pc = l, !.ftags = g]
  <2>2. /\ u \in CallerType /\ u.pc = l /\ u.fid = t.fid /\ u.op = t.op
        /\ u.todo = {} /\ u.part = 0 /\ u.ftags = g
    BY <1>0 DEF CallerType
  <2>3. CallerOk(u, Parts[c])
    BY <1>0, <1>3, <2>2 DEF CallerOk, Sending
  <2>4. th' = [th EXCEPT ![c] = u]
    BY <1>3
  <2>. HIDE DEF u
  <2>. QED  BY <1>0, <1>3, <2>2, <2>3, <2>4 DEF Continued
<1>4. /\ t.k \in Kinds /\ (t.k = "read" <=> t.op \in Reads)
      /\ (t.k = "walk" => t.op \in {"open", "stat", "remove"})
  BY <1>0 DEF CallerOk, Sending, CallerType
<1>5. CASE t.k = "walk"
  <2>1. AfterWalk(c, res)
    BY <1>5 DEF Continue
  <2>2. CASE res = "ok"
    BY <1>2, <1>4, <1>5, <2>1, <2>2 DEF AfterWalk, Kinds, Reads
  <2>3. CASE res = "short"
    BY <1>2, <1>4, <1>5, <2>1, <2>3 DEF AfterWalk, Kinds, Reads
  <2>4. CASE res \notin {"ok", "short"}
    BY <1>1, <1>4, <1>5, <2>1, <2>4 DEF AfterWalk, Reads
  <2>. QED  BY <2>2, <2>3, <2>4
<1>6. CASE t.k = "open"
  <2>1. AfterOpen(c, res)
    BY <1>6 DEF Continue
  <2>. QED  BY <1>1, <1>2, <1>4, <1>6, <2>1 DEF AfterOpen, Kinds
<1>7. CASE t.k = "stat"
  <2>1. AfterStat(c, res)
    BY <1>7 DEF Continue
  <2>2. CASE res = "ok"
    BY <1>1, <1>4, <1>7, <2>1, <2>2 DEF AfterStat
  <2>3. CASE res # "ok"
    <3>1. th' = [th EXCEPT ![c] = [t EXCEPT !.pc = "cancel", !.ftags = t.ftags]] /\ UNCHANGED file
      <4>1. [t EXCEPT !.pc = "cancel", !.ftags = t.ftags] = [t EXCEPT !.pc = "cancel"]
        BY <1>0 DEF CallerType
      <4>. QED  BY <1>0, <2>1, <2>3, <4>1 DEF AfterStat, CallerType
    <3>. QED  BY <1>3, <1>4, <1>7, <3>1
  <2>. QED  BY <2>2, <2>3
<1>8. CASE t.k = "clunk"
  <2>1. AfterClunk(c, res)
    BY <1>8 DEF Continue
  <2>. QED  BY <1>1, <1>4, <1>8, <2>1 DEF AfterClunk, Ends
<1>9. CASE t.k = "remove"
  <2>1. AfterRemove(c, res)
    BY <1>9 DEF Continue
  <2>. QED  BY <1>1, <1>4, <1>9, <2>1 DEF AfterRemove, Ends
<1>10. CASE t.k = "flush"
  <2>1. AfterFlush(c)
    BY <1>10 DEF Continue
  <2>2. th' = [th EXCEPT ![c] = [t EXCEPT !.pc = "flush", !.ftags = t.ftags \ {t.n}]] /\ UNCHANGED file
    BY <1>0, <2>1 DEF AfterFlush, CallerType
  <2>. QED  BY <1>3, <1>4, <1>10, <2>2
<1>11. CASE t.k = "read"
  <2>1. End(c, file[t.fid])
    BY <1>11 DEF Continue
  <2>2. file[t.fid] \in {"free", "busy", "open", "lost"}
    BY <1>0
  <2>. QED  BY <1>1, <2>1, <2>2
<1>. QED  BY <1>4, <1>5, <1>6, <1>7, <1>8, <1>9, <1>10, <1>11 DEF Kinds

\* Who waits for the answer to a request that is not a part of a read.
Sender(q, c) ==
    /\ c \in Callers /\ q.m.s = <<c, 0>> /\ call[<<c, 0>>].st = "asked" /\ call[<<c, 0>>].m = q.m
    /\ th[c].pc = "wait" /\ th[c].k = q.m.k /\ th[c].n = q.m.n /\ th[c].fid \in Fids
    /\ q.m.k # "flush" => q.m.n = th[c].fid
    /\ q.m.k \notin {"read", "flush"} => Owner(c)

\* A request that is not a part of a read has a caller that waits for it.
LEMMA SentBy ==
    ASSUME TypeInv, CallerInv, WayInv, SlotInv, NEW p \in Places, NEW q \in Requests, At(p, q),
           q.m.k # "read" \/ q.m.s[2] = 0
    PROVE  \E c \in Callers : Sender(q, c)
<1>. DEFINE s == q.m.s
            c == s[1]
<1>1. s \in Slots /\ call[s].st = "asked" /\ call[s].m = q.m
  BY RequestIs DEF WayInv, AskedInv
<1>2. s = <<c, s[2]>> /\ c \in Callers /\ s[2] \in Nat /\ s[2] <= Parts[c] /\ Parts[c] \in Nat
  BY <1>1, SlotsOf
<1>3. s[2] = 0
  <2>1. CASE s[2] > 0
    <3>1. s[2] \in 1 .. Parts[c]
      BY <1>2, <2>1
    <3>. QED  BY <1>1, <1>2, <3>1 DEF SlotInv, SlotOk
  <2>. QED  BY <1>2, <2>1
<1>4. th[c].pc = "wait" /\ q.m = [k |-> th[c].k, n |-> th[c].n, s |-> <<c, 0>>]
  BY <1>1, <1>2, <1>3 DEF SlotInv, SlotOk
<1>5. q.m.k = th[c].k /\ q.m.n = th[c].n
  BY <1>4
<1>6. CallerOk(th[c], Parts[c])
  BY <1>2 DEF CallerInv
<1>. QED  BY <1>1, <1>2, <1>3, <1>4, <1>5, <1>6 DEF Sender, Owner, CallerOk, Sending

\* The server walks to the fid its caller has allocated.
LEMMA WalkSent ==
    ASSUME TypeInv, CallerInv, WayInv, SlotInv, SrvInv, NEW x \in srv, x.m.k = "walk"
    PROVE  x.m.n \in Fids /\ \E q \in pend, c \in Callers : q.m = x.m /\ Sender(q, c)
<1>1. PICK q \in pend : q.tag = x.tag /\ q.m = x.m
  BY DEF SrvInv, Pending
<1>2. q \in Requests /\ At("pend", q) /\ "pend" \in Places
  BY DEF TypeInv, At, Places
<1>3. PICK c \in Callers : Sender(q, c)
  BY <1>1, <1>2, SentBy
<1>. QED  BY <1>1, <1>3 DEF Sender

\* npc_rpcnb puts a request with a new tag at the end of the queue, for a call
\* that now waits for its answer.
Queued(c, q, s) ==
    /\ q \in Requests /\ ~q.flushed /\ q.tag \notin tags /\ tags' = tags \cup {q.tag}
    /\ s = <<c, th[c].part>> /\ s \in Slots /\ q.m.s = s /\ q.m = [k |-> th[c].k, n |-> th[c].n, s |-> s]
    /\ unsent' = Append(unsent, q) /\ ToSet(unsent') = ToSet(unsent) \cup {q} /\ unsent' \in Seq(Requests)
    /\ call' = [call EXCEPT ![s] = [Promise!NoCall EXCEPT !.st = "asked", !.m = q.m]]
    /\ call' \in [Slots -> Promise!Calls] /\ call'[s].st = "asked" /\ call'[s].m = q.m
    /\ th' \in [Callers -> CallerType] /\ \A d \in Callers \ {c} : th'[d] = th[d]
    /\ CallerOk(th'[c], Parts[c]) /\ th'[c].todo = th[c].todo
    /\ \/ th[c].part = 0 /\ th'[c] = [th[c] EXCEPT !.pc = "wait"]
       \/ th[c].part > 0 /\ th'[c] = IdleCaller
       \/ th[c].part > 0 /\ th'[c] = [th[c] EXCEPT !.pc = "check", !.part = th[c].part + 1]
    /\ UNCHANGED <<pend, rd>>

\* npc_rpcnb does just that.
LEMMA RpcnbIs ==
    ASSUME TypeInv, CallerInv, NEW c \in Callers, npc_rpcnb(c)
    PROVE  \E q \in Requests, s \in Slots : Queued(c, q, s)
<1>. DEFINE t == th[c]
            s == <<c, t.part>>
            m == [k |-> t.k, n |-> t.n, s |-> s]
            q == [tag |-> Lowest(Tags \ tags), m |-> m, flushed |-> FALSE]
<1>0. /\ th \in [Callers -> CallerType] /\ t \in CallerType /\ CallerOk(t, Parts[c]) /\ Parts[c] \in Nat
      /\ t.part \in Nat /\ t.part <= Parts[c] /\ t.pc = "queue" /\ t.n \in Fids \cup Tags /\ t.k \in Kinds
      /\ call \in [Slots -> Promise!Calls] /\ unsent \in Seq(Requests)
      /\ t.todo = {}
  BY SlotsOf DEF TypeInv, CallerInv, CallerOk, Sending, CallerType, npc_rpcnb, Rpcnb
<1>1. s \in Slots
  BY <1>0, SlotsOf
<1>2. m \in Messages /\ m.s = s
  BY <1>0, <1>1 DEF Messages
<1>3. Lowest(Tags \ tags) \in Tags \ tags
  BY LowestIn, NpcFsysAssumption DEF npc_rpcnb, Rpcnb
<1>4. q \in Requests /\ q.m = m /\ ~q.flushed /\ q.tag = Lowest(Tags \ tags)
  BY <1>2, <1>3 DEF Requests
<1>5. /\ tags' = tags \cup {q.tag} /\ unsent' = Append(unsent, q) /\ UNCHANGED <<pend, rd>>
      /\ call' = [call EXCEPT ![s] = [Promise!NoCall EXCEPT !.st = "asked", !.m = m]]
  <2>1. /\ tags' = tags \cup {Lowest(Tags \ tags)} /\ UNCHANGED <<pend, rd>>
        /\ unsent' = Append(unsent, q)
        /\ call' = [call EXCEPT ![s] = [Promise!NoCall EXCEPT !.st = "asked", !.m = m]]
    BY DEF npc_rpcnb, Rpcnb
  <2>. QED  BY <1>4, <2>1
<1>12. th' = [th EXCEPT ![c] = IF t.part = 0 THEN [t EXCEPT !.pc = "wait"]
                               ELSE IF t.part = Parts[c] THEN IdleCaller
                               ELSE [t EXCEPT !.pc = "check", !.part = t.part + 1]]
  BY DEF npc_rpcnb, Rpcnb
<1>13. q.m = [k |-> t.k, n |-> t.n, s |-> s] /\ q.m.s = s /\ q.tag \notin tags /\ q \in Requests /\ ~q.flushed
  BY <1>2, <1>3, <1>4
<1>14. call' = [call EXCEPT ![s] = [Promise!NoCall EXCEPT !.st = "asked", !.m = q.m]]
  BY <1>4, <1>5
<1>. HIDE DEF q, m
<1>6. ToSet(unsent') = ToSet(unsent) \cup {q} /\ unsent' \in Seq(Requests)
  BY <1>0, <1>4, <1>5, AppendOf
<1>7. /\ [Promise!NoCall EXCEPT !.st = "asked", !.m = m] \in Promise!Calls
      /\ [Promise!NoCall EXCEPT !.st = "asked", !.m = m].st = "asked"
      /\ [Promise!NoCall EXCEPT !.st = "asked", !.m = m].m = m
  BY <1>2 DEF Promise!Calls, Promise!NoCall
<1>8. call' \in [Slots -> Promise!Calls] /\ call'[s].st = "asked" /\ call'[s].m = m
  BY <1>0, <1>1, <1>5, <1>7
<1>9. /\ \/ t.part = 0 /\ th'[c] = [t EXCEPT !.pc = "wait"]
         \/ t.part > 0 /\ th'[c] = IdleCaller
         \/ t.part > 0 /\ t.part < Parts[c] /\ th'[c] = [t EXCEPT !.pc = "check", !.part = t.part + 1]
      /\ \A d \in Callers \ {c} : th'[d] = th[d]
  <2>1. CASE t.part = 0
    BY <1>0, <1>12, <2>1
  <2>2. CASE t.part > 0 /\ t.part = Parts[c]
    BY <1>0, <1>12, <2>2
  <2>3. CASE t.part > 0 /\ t.part < Parts[c]
    BY <1>0, <1>12, <2>3
  <2>. QED  BY <1>0, <2>1, <2>2, <2>3
<1>10. th'[c] \in CallerType /\ CallerOk(th'[c], Parts[c]) /\ th'[c].todo = t.todo
  <2>1. ASSUME t.part = 0, NEW u, u = [t EXCEPT !.pc = "wait"]
        PROVE  u \in CallerType /\ CallerOk(u, Parts[c]) /\ u.todo = t.todo
    <3>1. /\ u \in CallerType /\ u.pc = "wait" /\ u.op = t.op /\ u.k = t.k /\ u.n = t.n /\ u.fid = t.fid
          /\ u.part = 0 /\ u.ftags = t.ftags /\ u.todo = t.todo
      BY <1>0, <2>1 DEF CallerType
    <3>. QED  BY <1>0, <3>1 DEF CallerOk, Sending
  <2>2. CASE th'[c] = IdleCaller
    BY <1>0, <2>2 DEF IdleCaller, CallerType, CallerOk, Ops, Kinds, Sending
  <2>3. ASSUME t.part > 0, t.part < Parts[c], NEW u, u = [t EXCEPT !.pc = "check", !.part = t.part + 1]
        PROVE  u \in CallerType /\ CallerOk(u, Parts[c]) /\ u.todo = t.todo
    <3>1. /\ u \in CallerType /\ u.pc = "check" /\ u.op = t.op /\ u.k = t.k /\ u.n = t.n /\ u.fid = t.fid
          /\ u.part = t.part + 1 /\ u.ftags = t.ftags /\ u.todo = t.todo
      <4>1. t.part + 1 \in Nat
        BY <1>0
      <4>. QED  BY <1>0, <2>3, <4>1 DEF CallerType
    <3>. QED  BY <1>0, <2>3, <3>1 DEF CallerOk, Sending
  <2>. QED  BY <1>9, <2>1, <2>2, <2>3
<1>11. th' \in [Callers -> CallerType]
  BY <1>0, <1>9, <1>10, <1>12
<1>15. Queued(c, q, s)
  BY <1>1, <1>4, <1>5, <1>6, <1>8, <1>9, <1>10, <1>11, <1>13, <1>14 DEF Queued
<1>. QED  BY <1>1, <1>13, <1>15

\* The place it is put in is free.
LEMMA QueuedIdle ==
    ASSUME TypeInv, CallerInv, SlotInv, NEW c \in Callers, npc_rpcnb(c),
           NEW q \in Requests, NEW s \in Slots, Queued(c, q, s)
    PROVE  call[s].st = "idle"
<1>1. /\ th[c].pc = "queue" /\ th[c].part \in Nat /\ th[c].part <= Parts[c] /\ s = <<c, th[c].part>>
      /\ Parts[c] \in Nat
  BY SlotsOf DEF npc_rpcnb, Rpcnb, Queued, TypeInv, CallerType, CallerInv, CallerOk
<1>2. CASE th[c].part = 0
  BY <1>1, <1>2 DEF SlotInv, SlotOk
<1>3. CASE th[c].part > 0
  <2>1. th[c].part \in 1 .. Parts[c]
    BY <1>1, <1>3
  <2>2. \A i \in 1 .. Parts[c] : i >= th[c].part => call[<<c, i>>].st = "idle"
    BY <1>1, <1>3 DEF SlotInv, SlotOk
  <2>3. th[c].part >= th[c].part
    BY <1>1
  <2>. QED  BY <1>1, <2>1, <2>2, <2>3
<1>. QED  BY <1>1, <1>2, <1>3

\* Every step keeps the types, and the callers where they can be.
LEMMA TypeKeeps ==
    ASSUME TypeInv, CallerInv, WayInv, SrvInv, SlotInv, Next
    PROVE  TypeInv' /\ CallerInv'
<1>1. ASSUME NEW c \in Callers, NEW op \in {"open", "stat", "remove"}, StartWalk(c, op)
      PROVE  TypeInv' /\ CallerInv'
  <2>0. th \in [Callers -> CallerType] /\ th[c] \in CallerType /\ CallerOk(th[c], Parts[c]) /\ Parts[c] \in Nat
    BY SlotsOf DEF TypeInv, CallerInv
  <2>. DEFINE f == Lowest({y \in Fids : file[y] = "free"})
              u == [th[c] EXCEPT !.pc = "check", !.op = op, !.k = "walk", !.n = f, !.fid = f]
  <2>1. f \in Fids
    BY <1>1, LowestIn, NpcFsysAssumption DEF StartWalk
  <2>2. th' = [th EXCEPT ![c] = u] /\ file' = [file EXCEPT ![f] = "busy"] /\ th[c].pc = "idle"
    BY <1>1 DEF StartWalk
  <2>. HIDE DEF f
  <2>3. u \in CallerType /\ CallerOk(u, Parts[c])
    BY <2>0, <2>1, <2>2 DEF CallerType, CallerOk, Sending, Reads, Ops, Kinds
  <2>. HIDE DEF u
  <2>4. TypeInv'
    BY <2>0, <2>1, <2>2, <2>3, <1>1 DEF TypeInv, StartWalk, queue, server
  <2>5. CallerInv'
    BY <2>0, <2>2, <2>3 DEF CallerInv
  <2>. QED  BY <2>4, <2>5
<1>2. ASSUME NEW c \in Callers, NEW op \in Reads, NEW n \in Fids, StartRead(c, op, n)
      PROVE  TypeInv' /\ CallerInv'
  <2>0. th \in [Callers -> CallerType] /\ th[c] \in CallerType /\ CallerOk(th[c], Parts[c]) /\ Parts[c] \in Nat
    BY SlotsOf DEF TypeInv, CallerInv
  <2>. DEFINE u == [th[c] EXCEPT !.pc = "check", !.op = op, !.k = "read", !.n = n, !.fid = n,
                                 !.part = IF op = "readnb" THEN 1 ELSE 0]
  <2>1. th' = [th EXCEPT ![c] = u] /\ th[c].pc = "idle" /\ (op = "readnb" => Parts[c] > 0)
    BY <2>0, <1>2 DEF StartRead
  <2>5. /\ u \in CallerType /\ u.pc = "check" /\ u.op = op /\ u.k = "read" /\ u.n = n /\ u.fid = n
        /\ u.part = (IF op = "readnb" THEN 1 ELSE 0) /\ u.ftags = th[c].ftags /\ u.todo = th[c].todo
    BY <2>0 DEF CallerType, Reads, Ops, Kinds
  <2>. HIDE DEF u
  <2>2. u \in CallerType /\ CallerOk(u, Parts[c])
    BY <2>0, <2>1, <2>5, <1>2 DEF CallerOk, Sending, Reads
  <2>3. TypeInv'
    BY <2>0, <2>1, <2>2, <1>2 DEF TypeInv, StartRead, queue, server
  <2>4. CallerInv'
    BY <2>0, <2>1, <2>2 DEF CallerInv
  <2>. QED  BY <2>3, <2>4
<1>3. ASSUME NEW c \in Callers, NEW n \in Fids, StartClose(c, n)
      PROVE  TypeInv' /\ CallerInv'
  <2>0. th \in [Callers -> CallerType] /\ th[c] \in CallerType /\ CallerOk(th[c], Parts[c]) /\ Parts[c] \in Nat
    BY SlotsOf DEF TypeInv, CallerInv
  <2>. DEFINE u == [th[c] EXCEPT !.pc = "cancel", !.op = "close", !.fid = n]
  <2>1. th' = [th EXCEPT ![c] = u]
    BY <2>0, <1>3 DEF StartClose, CallerType
  <2>2. u \in CallerType /\ CallerOk(u, Parts[c])
    BY <2>0, <1>3 DEF StartClose, CallerType, CallerOk, Sending, Reads, Ops, Kinds
  <2>. HIDE DEF u
  <2>3. TypeInv'
    BY <2>0, <2>1, <2>2, <1>3 DEF TypeInv, StartClose, queue, server
  <2>4. CallerInv'
    BY <2>0, <2>1, <2>2 DEF CallerInv
  <2>. QED  BY <2>3, <2>4
<1>4. ASSUME NEW c \in Callers, RpcCheck(c)
      PROVE  TypeInv' /\ CallerInv'
  <2>0. th \in [Callers -> CallerType] /\ th[c] \in CallerType /\ CallerOk(th[c], Parts[c]) /\ Parts[c] \in Nat
    BY SlotsOf DEF TypeInv, CallerInv
  <2>1. ASSUME NEW l \in {"queue", "stuck"}, l = "stuck" => th[c].part > 0,
               th' = [th EXCEPT ![c].pc = l], UNCHANGED file
        PROVE  TypeInv' /\ CallerInv'
    <3>. DEFINE u == [th[c] EXCEPT !.pc = l]
    <3>1. th' = [th EXCEPT ![c] = u]
      BY <2>0, <2>1
    <3>2. u \in CallerType /\ CallerOk(u, Parts[c])
      BY <2>0, <2>1, <1>4 DEF RpcCheck, CallerType, CallerOk, Sending
    <3>. HIDE DEF u
    <3>3. TypeInv'
      BY <2>0, <2>1, <3>1, <3>2, <1>4 DEF TypeInv, RpcCheck, queue, server
    <3>4. CallerInv'
      BY <2>0, <3>1, <3>2 DEF CallerInv
    <3>. QED  BY <3>3, <3>4
  <2>2. CASE trans
    BY <2>1, <2>2, <1>4 DEF RpcCheck
  <2>3. CASE ~trans /\ th[c].part > 0
    BY <2>1, <2>3, <1>4 DEF RpcCheck
  <2>4. CASE ~trans /\ ~(th[c].part > 0)
    <3>0. Continue(c, "err") /\ th[c].pc = "check" /\ th[c].part = 0
      BY <2>0, <2>4, <1>4 DEF RpcCheck, CallerType
    <3>1. Continued(c, "err")
      BY <1>4, <3>0, ContinueIs
    <3>2. TypeInv'
      BY <3>1, <1>4, <3>0 DEF TypeInv, RpcCheck, Continued, queue, server
    <3>3. CallerInv'
      BY <3>1 DEF CallerInv, Continued
    <3>. QED  BY <3>2, <3>3
  <2>. QED  BY <2>2, <2>3, <2>4
<1>5. ASSUME NEW c \in Callers, npc_rpcnb(c)
      PROVE  TypeInv' /\ CallerInv'
  <2>1. PICK q \in Requests, s \in Slots : Queued(c, q, s)
    BY <1>5, RpcnbIs
  <2>2. TypeInv'
    <3>1. wr' \in WriterType
      BY <1>5 DEF TypeInv, npc_rpcnb, Rpcnb, WriterType
    <3>2. broken' \in BOOLEAN /\ UNCHANGED <<careful, trans, stale, pend, file, rd, srv, sfids>>
      BY <1>5 DEF npc_rpcnb, Rpcnb, server
    <3>3. tags' \in SUBSET Tags
      BY <2>1, RequestIs DEF TypeInv, Queued
    <3>. QED  BY <2>1, <3>1, <3>2, <3>3 DEF TypeInv, Queued
  <2>3. CallerInv'
    BY <2>1 DEF CallerInv, Queued
  <2>. QED  BY <2>2, <2>3
<1>6. ASSUME NEW c \in Callers, RpcReturn(c)
      PROVE  TypeInv' /\ CallerInv'
  <2>0. th \in [Callers -> CallerType] /\ th[c] \in CallerType /\ CallerOk(th[c], Parts[c]) /\ Parts[c] \in Nat
    BY SlotsOf DEF TypeInv, CallerInv
  <2>1. CASE TRUE
    <3>0. Continue(c, call[<<c, 0>>].out) /\ th[c].pc = "wait" /\ th[c].part = 0
      BY <2>0, <1>6 DEF RpcReturn, CallerType, CallerOk
    <3>9. call' \in [Slots -> Promise!Calls]
      BY <1>6, CallsOf DEF TypeInv, RpcReturn
    <3>1. Continued(c, call[<<c, 0>>].out)
      BY <1>6, <3>0, ContinueIs
    <3>2. TypeInv'
      BY <3>1, <1>6, <3>0, <3>9 DEF TypeInv, RpcReturn, Continued, queue, server
    <3>3. CallerInv'
      BY <3>1 DEF CallerInv, Continued
    <3>. QED  BY <3>2, <3>3
  <2>. QED  BY <2>1
<1>7. ASSUME NEW c \in Callers, CancelTake(c)
      PROVE  TypeInv' /\ CallerInv'
  <2>0. th \in [Callers -> CallerType] /\ th[c] \in CallerType /\ CallerOk(th[c], Parts[c]) /\ Parts[c] \in Nat
    BY SlotsOf DEF TypeInv, CallerInv
  <2>1. PICK mine : /\ unsent' = Without(unsent, mine)
                    /\ broken' = (stale /\ unsent # <<>> /\ unsent[1] \in mine)
                    /\ pend' = {IF q \in mine THEN [q EXCEPT !.flushed = TRUE] ELSE q : q \in pend}
                    /\ th' = [th EXCEPT ![c].pc = "report", ![c].todo = mine \cap ToSet(unsent),
                                        ![c].ftags = {q.tag : q \in mine \cap pend}]
    BY <1>7 DEF CancelTake
  <2>2. unsent \in Seq(Requests) /\ ToSet(unsent) \subseteq Requests /\ pend \in SUBSET Requests
    BY QueueOf DEF TypeInv
  <2>3. unsent' \in Seq(Requests)
    BY <2>1, <2>2, WithoutIs
  <2>4. pend' \in SUBSET Requests /\ {q.tag : q \in mine \cap pend} \in SUBSET Tags
    <3>1. ASSUME NEW q \in pend PROVE q \in Requests /\ [q EXCEPT !.flushed = TRUE] \in Requests /\ q.tag \in Tags
      BY <2>2, RequestIs
    <3>. QED  BY <2>1, <3>1
  <2>. DEFINE u == [th[c] EXCEPT !.pc = "report", !.todo = mine \cap ToSet(unsent),
                                 !.ftags = {q.tag : q \in mine \cap pend}]
  <2>5. th' = [th EXCEPT ![c] = u]
    BY <2>0, <2>1
  <2>6. u \in CallerType /\ CallerOk(u, Parts[c])
    BY <2>0, <2>2, <2>4, <1>7 DEF CancelTake, CallerType, CallerOk, Sending
  <2>. HIDE DEF u
  <2>7. TypeInv'
    <3>1. broken' \in BOOLEAN
      BY <2>1
    <3>. QED  BY <2>0, <2>3, <2>4, <2>5, <2>6, <3>1, <1>7 DEF TypeInv, CancelTake, server
  <2>8. CallerInv'
    BY <2>0, <2>5, <2>6 DEF CallerInv
  <2>. QED  BY <2>7, <2>8
<1>8. ASSUME NEW c \in Callers, CancelReport(c)
      PROVE  TypeInv' /\ CallerInv'
  <2>0. th \in [Callers -> CallerType] /\ th[c] \in CallerType /\ CallerOk(th[c], Parts[c]) /\ Parts[c] \in Nat
    BY SlotsOf DEF TypeInv, CallerInv
  <2>1. PICK q \in th[c].todo : /\ Callback(q.m.s, Error, "err") /\ tags' = tags \ {q.tag}
                                 /\ th' = [th EXCEPT ![c].todo = @ \ {q}]
    BY <1>8 DEF CancelReport
  <2>2. q \in Requests /\ q.m.s \in Slots /\ call[q.m.s].st = "asked"
    BY <2>1, RequestIs DEF TypeInv, WayInv, AskedInv, At, Places, CallerType, ReaderType
  <2>3. call' \in [Slots -> Promise!Calls]
    BY <2>1, <2>2, CallbackIs DEF Outs
  <2>. DEFINE u == [th[c] EXCEPT !.todo = @ \ {q}]
  <2>4. th' = [th EXCEPT ![c] = u]
    BY <2>0, <2>1
  <2>5. u \in CallerType /\ CallerOk(u, Parts[c])
    BY <2>0, <2>1, <1>8 DEF CancelReport, CallerType, CallerOk, Sending
  <2>. HIDE DEF u
  <2>6. TypeInv'
    BY <2>0, <2>1, <2>3, <2>4, <2>5, <1>8 DEF TypeInv, CancelReport, queue, server
  <2>7. CallerInv'
    BY <2>0, <2>4, <2>5 DEF CallerInv
  <2>. QED  BY <2>6, <2>7
<1>9. ASSUME NEW c \in Callers, CancelFlush(c)
      PROVE  TypeInv' /\ CallerInv'
  <2>0. th \in [Callers -> CallerType] /\ th[c] \in CallerType /\ CallerOk(th[c], Parts[c]) /\ Parts[c] \in Nat
    BY SlotsOf DEF TypeInv, CallerInv
  <2>1. PICK k \in {"clunk", "flush"}, n \in Fids \cup Tags :
          Rpc(c, k, n) /\ (k # "flush" => n = th[c].fid)
    <3>1. th[c].fid \in Fids /\ th[c].ftags \subseteq Tags
      BY <2>0, <1>9 DEF CancelFlush, CallerOk, CallerType
    <3>2. th[c].ftags # {} => Lowest(th[c].ftags) \in Tags
      BY <3>1, LowestIn, NpcFsysAssumption
    <3>. QED  BY <3>1, <3>2, <1>9 DEF CancelFlush
  <2>. DEFINE u == [th[c] EXCEPT !.pc = "check", !.k = k, !.n = n]
  <2>2. th' = [th EXCEPT ![c] = u]
    BY <2>0, <2>1 DEF Rpc
  <2>3. u \in CallerType /\ CallerOk(u, Parts[c])
    BY <2>0, <2>1, <1>9 DEF CancelFlush, CallerType, CallerOk, Sending, Kinds
  <2>. HIDE DEF u
  <2>4. TypeInv'
    BY <2>0, <2>2, <2>3, <1>9 DEF TypeInv, CancelFlush, queue, server
  <2>5. CallerInv'
    BY <2>0, <2>2, <2>3 DEF CallerInv
  <2>. QED  BY <2>4, <2>5
<1>10. ASSUME WriterWait
      PROVE  TypeInv' /\ CallerInv'
  <2>1. wr' \in WriterType
    BY <1>10 DEF TypeInv, WriterWait, WriterType
  <2>2. TypeInv'
    BY <2>1, <1>10 DEF TypeInv, WriterWait, queue, server
  <2>3. CallerInv'
    BY <1>10 DEF CallerInv, WriterWait
  <2>. QED  BY <2>2, <2>3
<1>11. ASSUME WriterTake
      PROVE  TypeInv' /\ CallerInv'
  <2>1. unsent \in Seq(Requests) /\ unsent # <<>> /\ TakeFirst(Len(unsent) > 1)
    BY <1>11 DEF TypeInv, WriterTake, TakeFirst
  <2>2. unsent[1] \in Requests /\ Tail(unsent) \in Seq(Requests) /\ Len(unsent) \in Nat
    BY <2>1, TailOf
  <2>3. wr' \in WriterType /\ pend' \in SUBSET Requests /\ unsent' \in Seq(Requests) /\ stale' \in BOOLEAN
    BY <2>1, <2>2 DEF TypeInv, TakeFirst, WriterType
  <2>4. TypeInv'
    BY <2>1, <2>3 DEF TypeInv, TakeFirst, server
  <2>5. CallerInv'
    BY <2>1 DEF CallerInv, TakeFirst
  <2>. QED  BY <2>4, <2>5
<1>12. ASSUME WriterWrite
      PROVE  TypeInv' /\ CallerInv'
  <2>1. wr' \in WriterType /\ (wr.pc = "write" => wr.q \in Requests)
    BY <1>12 DEF TypeInv, WriterWrite, WriterType
  <2>2. TypeInv'
    BY <2>1, <1>12 DEF TypeInv, WriterWrite, DropTrans, queue, server
  <2>3. CallerInv'
    BY <1>12 DEF CallerInv, WriterWrite
  <2>. QED  BY <2>2, <2>3
<1>13. ASSUME NEW x \in srv, ReaderReply(x)
      PROVE  TypeInv' /\ CallerInv'
  <2>0. x \in Requests /\ x.m \in Messages /\ x.m.n \in Fids \cup Tags /\ x.m.k \in Kinds
    BY RequestIs DEF TypeInv
  <2>. DEFINE match == {q \in pend : q.tag = x.tag}
              wrong(out) == out # "err" /\ \E q \in match : q.m.k # x.m.k
  <2>1. PICK out \in Outcomes(x.m) :
          /\ sfids' = FidsAfter(x.m, out) /\ srv' = srv \ Settled(x) /\ pend' = pend \ match
          /\ rd' = IF match = {} THEN rd
                   ELSE [pc |-> "cb", todo |-> match, got |-> IF wrong(out) THEN Error ELSE x.m,
                         out |-> IF wrong(out) THEN "err" ELSE out]
    BY <1>13 DEF ReaderReply, Reply
  <2>2. out \in Outs
    BY <2>1 DEF Outcomes, Outs
  <2>3. rd' \in ReaderType
    BY <2>0, <2>1, <2>2 DEF TypeInv, ReaderType, Outs
  <2>4. sfids' \in SUBSET Fids
    <3>1. x.m.k = "walk" => x.m.n \in Fids
      BY WalkSent
    <3>2. \/ sfids' \subseteq sfids
          \/ x.m.k = "walk" /\ sfids' = sfids \cup {x.m.n}
      BY <2>1 DEF FidsAfter
    <3>. QED  BY <3>1, <3>2 DEF TypeInv
  <2>5. TypeInv'
    BY <2>1, <2>3, <2>4, <1>13 DEF TypeInv, ReaderReply, Reply, queue
  <2>6. CallerInv'
    BY <1>13 DEF CallerInv, ReaderReply, Reply
  <2>. QED  BY <2>5, <2>6
<1>14. ASSUME ReaderCallback
      PROVE  TypeInv' /\ CallerInv'
  <2>0. rd \in ReaderType /\ Reading \in ReaderType
    BY DEF TypeInv, ReaderType, Reading, Outs
  <2>1. PICK q \in rd.todo : /\ Callback(q.m.s, rd.got, rd.out)
                             /\ tags' = IF q.flushed THEN tags ELSE tags \ {q.tag}
    BY <1>14 DEF ReaderCallback
  <2>2. q \in Requests /\ q.m.s \in Slots /\ call[q.m.s].st = "asked"
    BY <2>1, RequestIs DEF TypeInv, WayInv, AskedInv, At, Places, CallerType, ReaderType
  <2>3. call' \in [Slots -> Promise!Calls]
    BY <2>1, <2>2, <2>0, CallbackIs DEF ReaderType
  <2>4. TypeInv'
    BY <2>0, <2>1, <2>3, <1>14 DEF TypeInv, ReaderCallback, queue, server
  <2>5. CallerInv'
    BY <1>14 DEF CallerInv, ReaderCallback
  <2>. QED  BY <2>4, <2>5
<1>15. ASSUME ReaderDrain
      PROVE  TypeInv' /\ CallerInv'
  <2>1. PICK q \in rd.todo : /\ Callback(q.m.s, Error, "err")
                             /\ rd' = [rd EXCEPT !.todo = @ \ {q}]
    BY <1>15 DEF ReaderDrain
  <2>2. q \in Requests /\ q.m.s \in Slots /\ call[q.m.s].st = "asked"
    BY <2>1, RequestIs DEF TypeInv, WayInv, AskedInv, At, Places, CallerType, ReaderType
  <2>3. call' \in [Slots -> Promise!Calls]
    BY <2>1, <2>2, CallbackIs DEF Outs
  <2>4. rd' \in ReaderType
    BY <2>1 DEF TypeInv, ReaderType
  <2>5. TypeInv'
    BY <2>1, <2>3, <2>4, <1>15 DEF TypeInv, ReaderDrain, queue, server
  <2>6. CallerInv'
    BY <1>15 DEF CallerInv, ReaderDrain
  <2>. QED  BY <2>5, <2>6
<1>16. ASSUME ReaderExit
      PROVE  TypeInv' /\ CallerInv'
  <2>0. rd' \in ReaderType
    BY <1>16 DEF TypeInv, ReaderType, ReaderExit
  <2>1. TypeInv'
    BY <1>16, <2>0 DEF TypeInv, ReaderExit, queue, server
  <2>2. CallerInv'
    BY <1>16 DEF CallerInv, ReaderExit
  <2>. QED  BY <2>1, <2>2
<1>17. ASSUME ReaderEnd
      PROVE  TypeInv' /\ CallerInv'
  <2>0. /\ unsent' = <<>> /\ pend' = {} /\ stale' = (unsent # <<>>)
        /\ rd' = [rd EXCEPT !.pc = "drain", !.todo = ToSet(unsent) \cup pend]
        /\ trans' = FALSE /\ srv' = {} /\ sfids' = {}
        /\ UNCHANGED <<careful, broken, tags, file, th, call, wr>>
    BY <1>17 DEF ReaderEnd, DropTrans
  <2>1. ToSet(unsent) \subseteq Requests
    BY QueueOf DEF TypeInv
  <2>2. rd' \in ReaderType /\ stale' \in BOOLEAN /\ unsent' \in Seq(Requests)
    <3>1. rd \in ReaderType /\ ToSet(unsent) \cup pend \in SUBSET Requests
      BY <2>1 DEF TypeInv
    <3>2. rd' \in ReaderType
      BY <2>0, <3>1 DEF ReaderType
    <3>. QED  BY <2>0, <3>2
  <2>3. TypeInv'
    BY <2>0, <2>2 DEF TypeInv
  <2>4. CallerInv'
    BY <2>0 DEF CallerInv
  <2>. QED  BY <2>3, <2>4
<1>18. ASSUME Disconnect
      PROVE  TypeInv' /\ CallerInv'
  <2>1. TypeInv'
    BY <1>18 DEF TypeInv, Disconnect, DropTrans, queue, server
  <2>2. CallerInv'
    BY <1>18 DEF CallerInv, Disconnect
  <2>. QED  BY <2>1, <2>2
<1>19. ASSUME DisconnectWake
      PROVE  TypeInv' /\ CallerInv'
  <2>1. wr' \in WriterType
    BY <1>19 DEF TypeInv, DisconnectWake, WriterType
  <2>2. TypeInv'
    BY <2>1, <1>19 DEF TypeInv, DisconnectWake, queue, server
  <2>3. CallerInv'
    BY <1>19 DEF CallerInv, DisconnectWake
  <2>. QED  BY <2>2, <2>3
<1>. QED
  BY <1>1, <1>2, <1>3, <1>4, <1>5, <1>6, <1>7, <1>8, <1>9, <1>10, <1>11, <1>12, 
     <1>13, <1>14, <1>15, <1>16, <1>17, <1>18, <1>19
     DEF Next, Start, Run, Writer, ReaderStep, npc_read, npc_readnb, npc_write, npc_writenb, Reads

\* Requests only move, each to the place g gives it, with call and tag left.
Came(g, p, y, p0, y0) ==
    /\ At(p0, y0) /\ y0.m = y.m /\ y0.tag = y.tag
    /\ Tagged(p)' => Tagged(p0)
    /\ g[<<p0, y0>>] = <<p, y>>
Moves(g) ==
    /\ \A p \in Places, y \in Requests : At(p, y)' =>
         \E p0 \in Places, y0 \in Requests : Came(g, p, y, p0, y0)
    /\ \A p \in Places, y \in Requests : At(p, y)' => call'[y.m.s] = call[y.m.s]
    /\ \A p \in Places, y \in Requests : At(p, y)' /\ Tagged(p)' /\ y.tag \in tags => y.tag \in tags'
    /\ \A i, j \in DOMAIN unsent' : unsent'[i] = unsent'[j] => i = j
    /\ \A c, d \in Callers : \A q \in th'[c].todo \cap th'[d].todo : c = d

\* Such a move keeps WayInv.
LEMMA WayMoved ==
    ASSUME TypeInv, TypeInv', WayInv, NEW g, Moves(g)
    PROVE  WayInv'
<1>0. ASSUME NEW p \in Places, NEW y \in Requests, At(p, y)'
      PROVE  \E p0 \in Places, y0 \in Requests : Came(g, p, y, p0, y0)
  BY <1>0 DEF Moves
<1>1. AskedInv'
  <2>1. ASSUME NEW p \in Places, NEW q \in Requests, At(p, q)'
        PROVE  call'[q.m.s].st = "asked" /\ call'[q.m.s].m = q.m
    <3>1. PICK p0 \in Places, y0 \in Requests : Came(g, p, q, p0, y0)
      BY <1>0, <2>1
    <3>2. call[y0.m.s].st = "asked" /\ call[y0.m.s].m = y0.m /\ y0.m = q.m
      BY <3>1 DEF WayInv, AskedInv, Came
    <3>3. call'[q.m.s] = call[q.m.s]
      BY <2>1 DEF Moves
    <3>. QED  BY <3>2, <3>3
  <2>. QED  BY <2>1 DEF AskedInv
<1>2. ASSUME NEW p1 \in Places, NEW p2 \in Places, NEW q1 \in Requests, NEW q2 \in Requests,
             At(p1, q1)', At(p2, q2)',
             \/ q1.m.s = q2.m.s
             \/ Tagged(p1)' /\ Tagged(p2)' /\ q1.tag = q2.tag
      PROVE  p1 = p2 /\ q1 = q2
  <2>1. PICK o1 \in Places, y1 \in Requests : Came(g, p1, q1, o1, y1)
    BY <1>0, <1>2
  <2>2. PICK o2 \in Places, y2 \in Requests : Came(g, p2, q2, o2, y2)
    BY <1>0, <1>2
  <2>3. o1 = o2 /\ y1 = y2
    <3>1. CASE q1.m.s = q2.m.s
      BY <2>1, <2>2, <3>1 DEF WayInv, OnePlace, Came
    <3>2. CASE Tagged(p1)' /\ Tagged(p2)' /\ q1.tag = q2.tag
      BY <2>1, <2>2, <3>2 DEF WayInv, TagInv, Came
    <3>. QED  BY <1>2, <3>1, <3>2
  <2>4. <<p1, q1>> = <<p2, q2>>
    BY <2>1, <2>2, <2>3 DEF Came
  <2>. QED  BY <2>4
<1>3. OnePlace'
  BY <1>2 DEF OnePlace, Moves
<1>4. ASSUME NEW p \in Places, NEW q \in Requests, At(p, q)', Tagged(p)' PROVE q.tag \in tags'
  <2>1. PICK p0 \in Places, y0 \in Requests : Came(g, p, q, p0, y0)
    BY <1>0, <1>4
  <2>2. q.tag \in tags
    BY <1>4, <2>1 DEF WayInv, TagInv, Came
  <2>. QED  BY <1>4, <2>2 DEF Moves
<1>5. TagInv'
  BY <1>2, <1>4 DEF TagInv
<1>. QED  BY <1>1, <1>3, <1>5 DEF WayInv

\* Requests that stay where they are, or leave, keep WayInv.
LEMMA WaySame ==
    ASSUME TypeInv, TypeInv', WayInv,
           \A p \in Places, y \in Requests : At(p, y)' => At(p, y) /\ (Tagged(p)' => Tagged(p)),
           \A p \in Places, y \in Requests : At(p, y)' => call'[y.m.s] = call[y.m.s],
           \A p \in Places, y \in Requests : At(p, y)' /\ Tagged(p)' /\ y.tag \in tags => y.tag \in tags',
           unsent' = unsent \/ unsent' = <<>>,
           \A c \in Callers : th'[c].todo \subseteq th[c].todo
    PROVE  WayInv'
<1>. DEFINE g == [z \in Places \X Requests |-> z]
<1>1. \A p \in Places, y \in Requests : At(p, y)' =>
        \E p0 \in Places, y0 \in Requests : Came(g, p, y, p0, y0)
  BY DEF Came
<1>. HIDE DEF g
<1>2. \A i, j \in DOMAIN unsent' : unsent'[i] = unsent'[j] => i = j
  BY DEF WayInv, OnePlace
<1>3. \A c, d \in Callers : \A q \in th'[c].todo \cap th'[d].todo : c = d
  BY DEF WayInv, OnePlace
<1>4. Moves(g)
  BY <1>1, <1>2, <1>3 DEF Moves
<1>. QED  BY <1>4, WayMoved

\* Steps that do nothing to the requests keep WayInv.
LEMMA WayKept ==
    ASSUME TypeInv, TypeInv', WayInv, UNCHANGED <<unsent, pend, rd, tags>>,
           \A c \in Callers : th'[c].todo = th[c].todo,
           \A s \in Slots : call[s].st = "asked" => call'[s] = call[s]
    PROVE  WayInv'
<1>1. \A p \in Places, y \in Requests : (At(p, y)' <=> At(p, y)) /\ (Tagged(p)' <=> Tagged(p))
  BY DEF At, Tagged
<1>2. \A p \in Places, y \in Requests : At(p, y) => call'[y.m.s] = call[y.m.s]
  BY RequestIs DEF WayInv, AskedInv
<1>. QED  BY <1>1, <1>2, WaySame

\* A callback ends the way of its request.
LEMMA WayEnds ==
    ASSUME TypeInv, TypeInv', WayInv, NEW p0 \in Places, NEW q \in Requests, At(p0, q),
           NEW got \in Messages \cup {None, Error}, NEW out \in Outs, Callback(q.m.s, got, out),
           \A p \in Places, y \in Requests : At(p, y)' => At(p, y) /\ y # q /\ (Tagged(p)' => Tagged(p)),
           tags' = tags \/ (Tagged(p0) /\ tags' = tags \ {q.tag}),
           unsent' = unsent, \A c \in Callers : th'[c].todo \subseteq th[c].todo
    PROVE  WayInv'
<1>1. q.m.s \in Slots /\ call[q.m.s].st = "asked"
  BY RequestIs DEF WayInv, AskedInv
<1>2. \A x \in Slots : x # q.m.s /\ (call[x].st # "answered" \/ x[2] = 0) => call'[x] = call[x]
  BY <1>1, CallbackIs
<1>3. ASSUME NEW p \in Places, NEW y \in Requests, At(p, y)' PROVE call'[y.m.s] = call[y.m.s]
  <2>1. y.m.s # q.m.s
    BY <1>3 DEF WayInv, OnePlace
  <2>2. y.m.s \in Slots /\ call[y.m.s].st = "asked"
    BY <1>3, RequestIs DEF WayInv, AskedInv
  <2>. QED  BY <1>2, <2>1, <2>2
<1>4. ASSUME NEW p \in Places, NEW y \in Requests, At(p, y)', Tagged(p)', y.tag \in tags PROVE y.tag \in tags'
  BY <1>4 DEF WayInv, TagInv
<1>. QED  BY <1>3, <1>4, WaySame

\* Every step keeps WayInv.
LEMMA WayKeeps ==
    ASSUME TypeInv, CallerInv, WayInv, SrvInv, SlotInv, TypeInv', Next
    PROVE  WayInv'
<1>1. ASSUME NEW c \in Callers, NEW op \in {"open", "stat", "remove"}, StartWalk(c, op)
      PROVE  WayInv'
  <2>1. UNCHANGED <<unsent, pend, rd, tags, call>>
    BY <1>1 DEF StartWalk, queue
  <2>2. \A d \in Callers : th'[d].todo = th[d].todo
    <3>. DEFINE f == Lowest({y \in Fids : file[y] = "free"})
    <3>1. th' = [th EXCEPT ![c] = [th[c] EXCEPT !.pc = "check", !.op = op, !.k = "walk", !.n = f, !.fid = f]]
      BY <1>1 DEF StartWalk
    <3>. HIDE DEF f
    <3>. QED  BY <3>1 DEF TypeInv, CallerType
  <2>. QED  BY <2>1, <2>2, WayKept
<1>2. ASSUME NEW c \in Callers, NEW op \in Reads, NEW n \in Fids, StartRead(c, op, n)
      PROVE  WayInv'
  <2>1. UNCHANGED <<unsent, pend, rd, tags, call>>
    BY <1>2 DEF StartRead, queue
  <2>2. \A d \in Callers : th'[d].todo = th[d].todo
    BY <1>2 DEF StartRead, TypeInv, CallerType
  <2>. QED  BY <2>1, <2>2, WayKept
<1>3. ASSUME NEW c \in Callers, NEW n \in Fids, StartClose(c, n)
      PROVE  WayInv'
  <2>1. UNCHANGED <<unsent, pend, rd, tags, call>>
    BY <1>3 DEF StartClose, queue
  <2>2. \A d \in Callers : th'[d].todo = th[d].todo
    BY <1>3 DEF StartClose, TypeInv, CallerType
  <2>. QED  BY <2>1, <2>2, WayKept
<1>4. ASSUME NEW c \in Callers, RpcCheck(c)
      PROVE  WayInv'
  <2>1. UNCHANGED <<unsent, pend, rd, tags, call>>
    BY <1>4 DEF RpcCheck, queue
  <2>2. \A d \in Callers : th'[d].todo = th[d].todo
    <3>1. CASE trans \/ th[c].part > 0
      BY <3>1, <1>4 DEF RpcCheck, TypeInv, CallerType
    <3>2. CASE ~trans /\ ~(th[c].part > 0)
      <4>1. Continue(c, "err") /\ th[c].pc = "check" /\ th[c].part = 0 /\ th[c].todo = {}
        BY <3>2, <1>4 DEF RpcCheck, TypeInv, CallerType, CallerInv, CallerOk
      <4>. QED  BY <4>1, ContinueIs DEF Continued
    <3>. QED  BY <3>1, <3>2
  <2>. QED  BY <2>1, <2>2, WayKept
<1>5. ASSUME NEW c \in Callers, npc_rpcnb(c)
      PROVE  WayInv'
  <2>1. PICK q \in Requests, s \in Slots : Queued(c, q, s)
    BY <1>5, RpcnbIs
  <2>2. /\ q.m.s = s /\ call'[s].st = "asked" /\ call'[s].m = q.m /\ q.tag \notin tags /\ q.tag \in tags'
        /\ tags \subseteq tags' /\ \A x \in Slots \ {s} : call'[x] = call[x]
        /\ \A d \in Callers : th'[d].todo = th[d].todo
        /\ UNCHANGED <<pend, rd>> /\ ToSet(unsent') = ToSet(unsent) \cup {q} /\ unsent' = Append(unsent, q)
    BY <2>1 DEF Queued, TypeInv
  <2>3. call[s].st = "idle"
    BY <1>5, <2>1, QueuedIdle
  <2>4. \A p \in Places, y \in Requests : /\ At(p, y)' <=> At(p, y) \/ (p = "unsent" /\ y = q)
                                          /\ Tagged(p)' <=> Tagged(p)
    BY <2>2 DEF At, Tagged
  <2>5. \A p \in Places, y \in Requests : At(p, y) => /\ y.m.s # s /\ call'[y.m.s] = call[y.m.s]
                                                     /\ (Tagged(p) => y.tag # q.tag)
    BY <2>2, <2>3, RequestIs DEF WayInv, AskedInv, TagInv
  <2>6. AskedInv'
    BY <2>2, <2>4, <2>5 DEF WayInv, AskedInv
  <2>7. TagInv'
    BY <2>2, <2>4, <2>5 DEF WayInv, TagInv
  <2>8. OnePlace'
    <3>1. \A p1, p2 \in Places, q1, q2 \in Requests :
            At(p1, q1)' /\ At(p2, q2)' /\ q1.m.s = q2.m.s => p1 = p2 /\ q1 = q2
      BY <2>2, <2>4, <2>5 DEF WayInv, OnePlace
    <3>2. q \notin ToSet(unsent) /\ unsent \in Seq(Requests)
      BY <2>2, <2>5 DEF At, Places, TypeInv
    <3>3. \A i, j \in DOMAIN unsent' : unsent'[i] = unsent'[j] => i = j
      <4>1. /\ Len(unsent) \in Nat /\ DOMAIN unsent = 1 .. Len(unsent) /\ DOMAIN unsent' = 1 .. (Len(unsent) + 1)
            /\ unsent'[Len(unsent) + 1] = q /\ \A i \in 1 .. Len(unsent) : unsent'[i] = unsent[i]
            /\ \A i \in DOMAIN unsent : unsent[i] # q
        BY <2>2, <3>2, AppendOf, QueueOf
      <4>. QED  BY <4>1 DEF WayInv, OnePlace
    <3>. QED  BY <2>2, <3>1, <3>3 DEF WayInv, OnePlace
  <2>. QED  BY <2>6, <2>7, <2>8 DEF WayInv
<1>6. ASSUME NEW c \in Callers, RpcReturn(c)
      PROVE  WayInv'
  <2>1. UNCHANGED <<unsent, pend, rd, tags>>
    BY <1>6 DEF RpcReturn, queue
  <2>2. \A d \in Callers : th'[d].todo = th[d].todo
    <3>1. /\ Continue(c, call[<<c, 0>>].out) /\ th[c].pc = "wait" /\ th[c].part = 0 /\ th[c].todo = {}
      <4>1. th[c].pc = "wait" /\ CallerOk(th[c], Parts[c]) /\ th[c].part \in Nat
        BY <1>6 DEF RpcReturn, TypeInv, CallerType, CallerInv
      <4>2. th[c].part = 0 /\ th[c].todo = {}
        BY <4>1 DEF CallerOk
      <4>. QED  BY <4>1, <4>2, <1>6 DEF RpcReturn
    <3>. QED  BY <3>1, ContinueIs DEF Continued
  <2>3. \A s \in Slots : call[s].st = "asked" => call'[s] = call[s]
    BY <1>6 DEF RpcReturn, TypeInv
  <2>. QED  BY <2>1, <2>2, <2>3, WayKept
<1>7. ASSUME NEW c \in Callers, CancelTake(c)
      PROVE  WayInv'
  <2>1. PICK mine : /\ unsent' = Without(unsent, mine)
                    /\ pend' = {IF q \in mine THEN [q EXCEPT !.flushed = TRUE] ELSE q : q \in pend}
                    /\ th' = [th EXCEPT ![c].pc = "report", ![c].todo = mine \cap ToSet(unsent),
                                        ![c].ftags = {q.tag : q \in mine \cap pend}]
    BY <1>7 DEF CancelTake
  <2>2. /\ ToSet(unsent') = ToSet(unsent) \ mine /\ UNCHANGED <<rd, tags, call>>
        /\ \A i, j \in DOMAIN unsent' : unsent'[i] = unsent'[j] => i = j
    <3>1. UNCHANGED <<rd, tags, call>> /\ unsent \in Seq(Requests)
          /\ \A i, j \in DOMAIN unsent : unsent[i] = unsent[j] => i = j
      BY <1>7 DEF TypeInv, WayInv, OnePlace, CancelTake
    <3>. QED  BY <2>1, <3>1, WithoutIs
  <2>3. /\ th'[c].todo = mine \cap ToSet(unsent) /\ th[c].todo = {}
        /\ \A d \in Callers \ {c} : th'[d].todo = th[d].todo
    BY <1>7, <2>1 DEF TypeInv, CallerType, CallerInv, CallerOk, CancelTake
  <2>4. pend \subseteq Requests /\ ToSet(unsent) \subseteq Requests
    BY QueueOf DEF TypeInv
  <2>. DEFINE g == [z \in Places \X Requests |->
                      IF z[1] = "unsent" /\ z[2] \in mine THEN <<"todo", z[2]>>
                      ELSE IF z[1] = "pend" /\ z[2] \in mine THEN <<"pend", [z[2] EXCEPT !.flushed = TRUE]>>
                      ELSE z]
  <2>5. \A p0 \in Places, y0 \in Requests :
          g[<<p0, y0>>] = IF p0 = "unsent" /\ y0 \in mine THEN <<"todo", y0>>
                          ELSE IF p0 = "pend" /\ y0 \in mine THEN <<"pend", [y0 EXCEPT !.flushed = TRUE]>>
                          ELSE <<p0, y0>>
    OBVIOUS
  <2>. HIDE DEF g
  <2>6. ASSUME NEW p \in Places, NEW y \in Requests, At(p, y)'
        PROVE  \E p0 \in Places, y0 \in Requests : Came(g, p, y, p0, y0)
    <3>1. CASE p = "unsent"
      BY <2>2, <2>5, <2>6, <3>1 DEF At, Tagged, Came
    <3>2. CASE p = "rd"
      BY <2>2, <2>5, <2>6, <3>2 DEF At, Tagged, Came
    <3>3. CASE p = "todo"
      <4>1. PICK d \in Callers : y \in th'[d].todo
        BY <2>6, <3>3 DEF At
      <4>2. CASE d = c
        <5>1. At("unsent", y) /\ g[<<"unsent", y>>] = <<"todo", y>> /\ "unsent" \in Places
          BY <2>3, <2>5, <4>1, <4>2 DEF At, Places
        <5>. QED  BY <3>3, <5>1 DEF Tagged, Came
      <4>3. CASE d # c
        BY <2>3, <2>5, <3>3, <4>1, <4>3 DEF At, Tagged, Came
      <4>. QED  BY <4>2, <4>3
    <3>4. CASE p = "pend"
      <4>1. PICK y0 \in pend : y = IF y0 \in mine THEN [y0 EXCEPT !.flushed = TRUE] ELSE y0
        BY <2>1, <2>6, <3>4 DEF At
      <4>2. y0 \in Requests /\ y0.m = y.m /\ y0.tag = y.tag
        BY <2>4, <4>1, RequestIs
      <4>3. At("pend", y0) /\ g[<<"pend", y0>>] = <<"pend", y>> /\ "pend" \in Places
        BY <2>5, <4>1, <4>2 DEF At, Places
      <4>. QED  BY <3>4, <4>2, <4>3 DEF Tagged, Came
    <3>. QED  BY <3>1, <3>2, <3>3, <3>4 DEF Places
  <2>7. ASSUME NEW d \in Callers, NEW e \in Callers, NEW q \in th'[d].todo \cap th'[e].todo PROVE d = e
    <3>1. CASE d # c /\ e # c
      BY <2>3, <3>1 DEF WayInv, OnePlace
    <3>2. ASSUME d # e, d = c \/ e = c PROVE FALSE
      <4>1. q \in ToSet(unsent) /\ \E a \in Callers : q \in th[a].todo
        BY <2>3, <2>7, <3>2
      <4>2. q \in Requests /\ At("unsent", q) /\ At("todo", q) /\ "unsent" \in Places /\ "todo" \in Places
        BY <2>4, <4>1 DEF At, Places
      <4>. QED  BY <4>2 DEF WayInv, OnePlace
    <3>. QED  BY <3>1, <3>2
  <2>9. Moves(g)
    BY <2>2, <2>6, <2>7 DEF Moves
  <2>. QED  BY <2>9, WayMoved
<1>8. ASSUME NEW c \in Callers, CancelReport(c)
      PROVE  WayInv'
  <2>1. PICK q \in th[c].todo : /\ Callback(q.m.s, Error, "err") /\ tags' = tags \ {q.tag}
                                 /\ th' = [th EXCEPT ![c].todo = @ \ {q}]
    BY <1>8 DEF CancelReport
  <2>2. q \in Requests /\ At("todo", q) /\ "todo" \in Places /\ Tagged("todo")
    BY <2>1 DEF TypeInv, CallerType, At, Places, Tagged
  <2>3. UNCHANGED <<unsent, pend, rd>> /\ \A d \in Callers : th'[d].todo = IF d = c THEN th[d].todo \ {q} ELSE th[d].todo
    BY <1>8, <2>1 DEF CancelReport, queue, TypeInv, CallerType
  <2>4. ASSUME NEW p \in Places, NEW y \in Requests, At(p, y)'
        PROVE  At(p, y) /\ y # q /\ (Tagged(p)' => Tagged(p))
    <3>1. At(p, y) /\ (Tagged(p)' => Tagged(p))
      BY <2>3, <2>4 DEF At, Tagged, Came
    <3>2. ASSUME y = q PROVE FALSE
      <4>1. p = "todo"
        BY <2>2, <3>1, <3>2 DEF WayInv, OnePlace
      <4>2. PICK d \in Callers : q \in th'[d].todo
        BY <2>4, <3>2, <4>1 DEF At
      <4>3. d # c /\ q \in th[d].todo
        BY <2>3, <4>2
      <4>. QED  BY <2>1, <4>3 DEF WayInv, OnePlace
    <3>. QED  BY <3>1, <3>2
  <2>. QED  BY <2>1, <2>2, <2>3, <2>4, WayEnds DEF Outs
<1>9. ASSUME NEW c \in Callers, CancelFlush(c)
      PROVE  WayInv'
  <2>1. UNCHANGED <<unsent, pend, rd, tags, call>>
    BY <1>9 DEF CancelFlush, queue
  <2>2. \A d \in Callers : th'[d].todo = th[d].todo
    BY <1>9 DEF CancelFlush, TypeInv, CallerType, Rpc
  <2>. QED  BY <2>1, <2>2, WayKept
<1>10. ASSUME WriterWait
      PROVE  WayInv'
  <2>1. UNCHANGED <<unsent, pend, rd, tags, call>>
    BY <1>10 DEF WriterWait, queue
  <2>2. \A d \in Callers : th'[d].todo = th[d].todo
    BY <1>10 DEF WriterWait, TypeInv, CallerType
  <2>. QED  BY <2>1, <2>2, WayKept
<1>11. ASSUME WriterTake
      PROVE  WayInv'
  <2>1. unsent \in Seq(Requests) /\ unsent # <<>> /\ TakeFirst(Len(unsent) > 1)
    BY <1>11 DEF TypeInv, WriterTake, TakeFirst
  <2>. DEFINE h == unsent[1]
              g == [z \in Places \X Requests |-> IF z = <<"unsent", h>> THEN <<"pend", h>> ELSE z]
  <2>2. /\ h \in Requests /\ ToSet(unsent) = ToSet(unsent') \cup {h}
        /\ h \notin ToSet(unsent') /\ \A i, j \in DOMAIN unsent' : unsent'[i] = unsent'[j] => i = j
    BY <2>1, TailOf DEF TakeFirst, WayInv, OnePlace
  <2>3. pend' = pend \cup {h} /\ UNCHANGED <<th, rd, tags, call>>
    BY <2>1 DEF TakeFirst
  <2>4. \A p0 \in Places, y0 \in Requests :
          g[<<p0, y0>>] = IF p0 = "unsent" /\ y0 = h THEN <<"pend", h>> ELSE <<p0, y0>>
    OBVIOUS
  <2>. HIDE DEF g, h
  <2>5. ASSUME NEW p \in Places, NEW y \in Requests, At(p, y)'
        PROVE  \E p0 \in Places, y0 \in Requests : Came(g, p, y, p0, y0)
    <3>1. CASE p = "pend" /\ y = h
      <4>1. At("unsent", y) /\ "unsent" \in Places /\ g[<<"unsent", y>>] = <<p, y>>
        BY <2>2, <2>4, <3>1 DEF At, Places
      <4>. QED  BY <4>1 DEF Tagged, Came
    <3>2. CASE ~(p = "pend" /\ y = h)
      <4>1. At(p, y) /\ ~(p = "unsent" /\ y = h) /\ (Tagged(p)' => Tagged(p))
        BY <2>2, <2>3, <2>5, <3>2 DEF At, Tagged
      <4>. QED  BY <2>4, <4>1 DEF Came
    <3>. QED  BY <3>1, <3>2
  <2>6. \A d, e \in Callers : \A q \in th'[d].todo \cap th'[e].todo : d = e
    BY <2>3 DEF WayInv, OnePlace
  <2>9. Moves(g)
    BY <2>2, <2>3, <2>5, <2>6 DEF Moves
  <2>. QED  BY <2>9, WayMoved
<1>12. ASSUME WriterWrite
      PROVE  WayInv'
  <2>1. UNCHANGED <<unsent, pend, rd, tags, call>>
    BY <1>12 DEF WriterWrite, queue
  <2>2. \A d \in Callers : th'[d].todo = th[d].todo
    BY <1>12 DEF WriterWrite, TypeInv, CallerType
  <2>. QED  BY <2>1, <2>2, WayKept
<1>13. ASSUME NEW x \in srv, ReaderReply(x)
      PROVE  WayInv'
  <2>. DEFINE match == {q \in pend : q.tag = x.tag}
              g == [z \in Places \X Requests |-> IF z[1] = "pend" /\ z[2] \in match THEN <<"rd", z[2]>> ELSE z]
  <2>1. /\ pend' = pend \ match /\ rd.todo = {} /\ UNCHANGED <<unsent, tags, th, call>>
        /\ rd'.todo = match
    BY <1>13 DEF ReaderReply, Reply, SrvInv, queue
  <2>2. \A p0 \in Places, y0 \in Requests :
          g[<<p0, y0>>] = IF p0 = "pend" /\ y0 \in match THEN <<"rd", y0>> ELSE <<p0, y0>>
    OBVIOUS
  <2>3. match \subseteq pend
    OBVIOUS
  <2>. HIDE DEF g, match
  <2>4. ASSUME NEW p \in Places, NEW y \in Requests, At(p, y)'
        PROVE  \E p0 \in Places, y0 \in Requests : Came(g, p, y, p0, y0)
    <3>1. CASE p = "rd"
      <4>1. At("pend", y) /\ "pend" \in Places /\ g[<<"pend", y>>] = <<p, y>>
        BY <2>1, <2>2, <2>3, <2>4, <3>1 DEF At, Places
      <4>. QED  BY <4>1 DEF Tagged, Came
    <3>2. CASE p # "rd"
      <4>1. At(p, y) /\ ~(p = "pend" /\ y \in match) /\ Tagged(p)
        BY <2>1, <2>4, <3>2 DEF At, Tagged
      <4>. QED  BY <2>2, <4>1 DEF Came
    <3>. QED  BY <3>1, <3>2
  <2>5. /\ \A i, j \in DOMAIN unsent' : unsent'[i] = unsent'[j] => i = j
        /\ \A d, e \in Callers : \A q \in th'[d].todo \cap th'[e].todo : d = e
    BY <2>1 DEF WayInv, OnePlace
  <2>9. Moves(g)
    BY <2>1, <2>4, <2>5 DEF Moves
  <2>. QED  BY <2>9, WayMoved
<1>14. ASSUME ReaderCallback
      PROVE  WayInv'
  <2>1. PICK q \in rd.todo : /\ Callback(q.m.s, rd.got, rd.out)
                             /\ tags' = IF q.flushed THEN tags ELSE tags \ {q.tag}
    BY <1>14 DEF ReaderCallback
  <2>2. q \in Requests /\ At("rd", q) /\ "rd" \in Places /\ Tagged("rd")
        /\ rd.got \in Messages \cup {None, Error} /\ rd.out \in Outs
    BY <1>14, <2>1 DEF ReaderCallback, TypeInv, ReaderType, At, Places, Tagged
  <2>3. UNCHANGED <<unsent, pend, th>> /\ rd'.todo = {}
    BY <1>14 DEF ReaderCallback, queue, Reading
  <2>4. ASSUME NEW p \in Places, NEW y \in Requests, At(p, y)'
        PROVE  At(p, y) /\ y # q /\ (Tagged(p)' => Tagged(p))
    <3>1. p # "rd" /\ At(p, y)
      BY <2>3, <2>4 DEF At
    <3>. QED  BY <2>2, <3>1 DEF WayInv, OnePlace, Tagged
  <2>5. tags' = tags \/ (Tagged("rd") /\ tags' = tags \ {q.tag})
    BY <2>1, <2>2
  <2>. QED  BY <2>1, <2>2, <2>3, <2>4, <2>5, WayEnds
<1>15. ASSUME ReaderDrain
      PROVE  WayInv'
  <2>1. PICK q \in rd.todo : /\ Callback(q.m.s, Error, "err")
                             /\ rd' = [rd EXCEPT !.todo = @ \ {q}]
    BY <1>15 DEF ReaderDrain
  <2>2. q \in Requests /\ At("rd", q) /\ "rd" \in Places
    BY <2>1 DEF TypeInv, ReaderType, At, Places
  <2>3. UNCHANGED <<unsent, pend, th, tags>> /\ rd'.todo = rd.todo \ {q} /\ rd'.pc = rd.pc
    BY <1>15, <2>1 DEF ReaderDrain, queue, TypeInv, ReaderType
  <2>4. ASSUME NEW p \in Places, NEW y \in Requests, At(p, y)'
        PROVE  At(p, y) /\ y # q /\ (Tagged(p)' => Tagged(p))
    <3>1. At(p, y) /\ (Tagged(p)' => Tagged(p)) /\ ~(p = "rd" /\ y = q)
      BY <2>3, <2>4 DEF At, Tagged, Came
    <3>. QED  BY <2>2, <3>1 DEF WayInv, OnePlace
  <2>. QED  BY <2>1, <2>2, <2>3, <2>4, WayEnds DEF Outs
<1>16. ASSUME ReaderExit
      PROVE  WayInv'
  <2>1. UNCHANGED <<unsent, pend, tags, call, th>> /\ rd'.todo = rd.todo /\ rd'.pc = "exit"
    BY <1>16 DEF ReaderExit, queue, TypeInv, ReaderType
  <2>2. \A p \in Places, y \in Requests : At(p, y)' => At(p, y) /\ (Tagged(p)' => Tagged(p))
    BY <2>1 DEF At, Tagged
  <2>. QED  BY <2>1, <2>2, WaySame
<1>17. ASSUME ReaderEnd
      PROVE  WayInv'
  <2>1. /\ unsent' = <<>> /\ pend' = {} /\ UNCHANGED <<tags, call, th>>
        /\ rd'.todo = ToSet(unsent) \cup pend /\ rd'.pc = "drain"
    BY <1>17 DEF ReaderEnd, TypeInv, ReaderType
  <2>2. ToSet(<<>>) = {} /\ DOMAIN <<>> = {}
    BY QueueOf DEF TypeInv
  <2>. DEFINE g == [z \in Places \X Requests |-> IF z[1] \in {"unsent", "pend"} THEN <<"rd", z[2]>> ELSE z]
  <2>3. \A p0 \in Places, y0 \in Requests :
          g[<<p0, y0>>] = IF p0 \in {"unsent", "pend"} THEN <<"rd", y0>> ELSE <<p0, y0>>
    OBVIOUS
  <2>. HIDE DEF g
  <2>4. ASSUME NEW p \in Places, NEW y \in Requests, At(p, y)'
        PROVE  \E p0 \in Places, y0 \in Requests : Came(g, p, y, p0, y0)
    <3>1. CASE p = "rd"
      <4>1. PICK p0 \in {"unsent", "pend"} : At(p0, y)
        BY <2>1, <2>4, <3>1 DEF At
      <4>2. p0 \in Places /\ g[<<p0, y>>] = <<p, y>> /\ Tagged(p0)
        BY <2>3, <3>1, <4>1 DEF Places, Tagged
      <4>. QED  BY <4>1, <4>2 DEF Came
    <3>2. CASE p = "todo"
      BY <2>1, <2>3, <2>4, <3>2 DEF At, Tagged, Came, Came
    <3>. QED  BY <2>1, <2>2, <2>4, <3>1, <3>2 DEF Places, At
  <2>5. /\ \A i, j \in DOMAIN unsent' : unsent'[i] = unsent'[j] => i = j
        /\ \A d, e \in Callers : \A q \in th'[d].todo \cap th'[e].todo : d = e
    BY <2>1, <2>2 DEF WayInv, OnePlace
  <2>9. Moves(g)
    BY <2>1, <2>4, <2>5 DEF Moves
  <2>. QED  BY <2>9, WayMoved
<1>18. ASSUME Disconnect
      PROVE  WayInv'
  <2>1. UNCHANGED <<unsent, pend, rd, tags, call>>
    BY <1>18 DEF Disconnect, queue
  <2>2. \A d \in Callers : th'[d].todo = th[d].todo
    BY <1>18 DEF Disconnect, TypeInv, CallerType
  <2>. QED  BY <2>1, <2>2, WayKept
<1>19. ASSUME DisconnectWake
      PROVE  WayInv'
  <2>1. UNCHANGED <<unsent, pend, rd, tags, call>>
    BY <1>19 DEF DisconnectWake, queue
  <2>2. \A d \in Callers : th'[d].todo = th[d].todo
    BY <1>19 DEF DisconnectWake, TypeInv, CallerType
  <2>. QED  BY <2>1, <2>2, WayKept
<1>. QED
  BY <1>1, <1>2, <1>3, <1>4, <1>5, <1>6, <1>7, <1>8, <1>9, <1>10, <1>11, <1>12, 
     <1>13, <1>14, <1>15, <1>16, <1>17, <1>18, <1>19
     DEF Next, Start, Run, Writer, ReaderStep, npc_read, npc_readnb, npc_write, npc_writenb, Reads

\* Steps that leave the lists, the writer's request and the server alone keep SrvInv.
LEMMA SrvKept ==
    ASSUME TypeInv, SrvInv, UNCHANGED <<unsent, pend, trans, srv, rd>>,
           wr' = wr \/ wr'.pc # "write"
    PROVE  SrvInv'
BY DEF SrvInv, Pending

\* Two requests at the server with one tag are one, and so are two of the client.
LEMMA SrvTags ==
    ASSUME TypeInv, WayInv, SrvInv
    PROVE  /\ \A x, y \in pend : x.tag = y.tag => x = y
           /\ \A x, y \in srv : x.tag = y.tag => x = y
           /\ \A x \in pend, y \in ToSet(unsent) : x.tag # y.tag
<1>1. /\ pend \subseteq Requests /\ srv \subseteq Requests /\ ToSet(unsent) \subseteq Requests
      /\ "pend" \in Places /\ "unsent" \in Places /\ Tagged("pend") /\ Tagged("unsent")
  BY QueueOf DEF TypeInv, Places, Tagged
<1>2. /\ \A x, y \in pend : x.tag = y.tag => x = y
      /\ \A x \in pend, y \in ToSet(unsent) : x.tag # y.tag
  BY <1>1 DEF At, WayInv, TagInv
<1>3. ASSUME NEW x \in srv, NEW y \in srv, x.tag = y.tag PROVE x = y
  <2>1. x.m = y.m /\ x.flushed = FALSE /\ y.flushed = FALSE
    <3>1. x.flushed \in BOOLEAN /\ y.flushed \in BOOLEAN
      BY <1>1, RequestIs
    <3>. QED  BY <1>2, <1>3, <3>1 DEF SrvInv, Pending
  <2>. QED  BY <1>1, <1>3, <2>1, RequestIs
<1>. QED  BY <1>2, <1>3

\* What ReaderReply does: the one pending request with the tag of x is that of
\* x, and its callback is called next.
Replied(x, q, out) ==
    /\ q \in pend /\ q.tag = x.tag /\ q.m = x.m
    /\ pend' = pend \ {q} /\ srv' \subseteq srv \ {x}
    /\ out \in Outcomes(x.m) /\ sfids' = FidsAfter(x.m, out)
    /\ rd.pc = "read" /\ rd' = [pc |-> "cb", todo |-> {q}, got |-> x.m, out |-> out]
    /\ UNCHANGED <<careful, trans, unsent, stale, broken, tags, file, th, call, wr>>

\* npc_read_proc does just that: no reply finds another request, or none.
LEMMA ReplyIs ==
    ASSUME TypeInv, WayInv, SrvInv, NEW x \in srv, ReaderReply(x)
    PROVE  \E q \in pend, out \in Outs : Replied(x, q, out)
<1>. DEFINE match == {q \in pend : q.tag = x.tag}
            wrong(out) == out # "err" /\ \E q \in match : q.m.k # x.m.k
<1>1. PICK out \in Outcomes(x.m) :
        /\ sfids' = FidsAfter(x.m, out) /\ srv' = srv \ Settled(x) /\ pend' = pend \ match
        /\ rd' = IF match = {} THEN rd
                 ELSE [pc |-> "cb", todo |-> match, got |-> IF wrong(out) THEN Error ELSE x.m,
                       out |-> IF wrong(out) THEN "err" ELSE out]
  BY DEF ReaderReply, Reply
<1>2. PICK q \in pend : q.tag = x.tag /\ q.m = x.m
  BY DEF SrvInv, Pending
<1>3. match = {q}
  BY <1>2, SrvTags
<1>4. ~wrong(out)
  BY <1>2, <1>3
<1>5. x \in Settled(x)
  BY DEF Settled
<1>6. out \in Outs
  BY <1>1 DEF Outcomes, Outs
<1>7. pend' = pend \ {q} /\ rd' = [pc |-> "cb", todo |-> {q}, got |-> x.m, out |-> out]
  <2>1. match # {}
    BY <1>3
  <2>. HIDE DEF match, wrong
  <2>. QED  BY <1>1, <1>3, <1>4, <2>1
<1>8. rd.pc = "read" /\ UNCHANGED <<careful, trans, unsent, stale, broken, tags, file, th, call, wr>>
  BY DEF ReaderReply, Reply, queue
<1>9. Replied(x, q, out)
  BY <1>1, <1>2, <1>5, <1>7, <1>8 DEF Replied
<1>. QED  BY <1>6, <1>9

\* Every step keeps SrvInv.
LEMMA SrvKeeps ==
    ASSUME TypeInv, CallerInv, WayInv, SrvInv, SlotInv, Next
    PROVE  SrvInv'
<1>1. ASSUME NEW c \in Callers, NEW op \in {"open", "stat", "remove"}, StartWalk(c, op)
      PROVE  SrvInv'
  <2>1. UNCHANGED <<unsent, pend, trans, srv, rd>> /\ (wr' = wr \/ wr'.pc # "write")
    BY <1>1 DEF StartWalk, queue, server, TypeInv, WriterType
  <2>. QED  BY <2>1, SrvKept
<1>2. ASSUME NEW c \in Callers, NEW op \in Reads, NEW n \in Fids, StartRead(c, op, n)
      PROVE  SrvInv'
  <2>1. UNCHANGED <<unsent, pend, trans, srv, rd>> /\ (wr' = wr \/ wr'.pc # "write")
    BY <1>2 DEF StartRead, queue, server, TypeInv, WriterType
  <2>. QED  BY <2>1, SrvKept
<1>3. ASSUME NEW c \in Callers, NEW n \in Fids, StartClose(c, n)
      PROVE  SrvInv'
  <2>1. UNCHANGED <<unsent, pend, trans, srv, rd>> /\ (wr' = wr \/ wr'.pc # "write")
    BY <1>3 DEF StartClose, queue, server, TypeInv, WriterType
  <2>. QED  BY <2>1, SrvKept
<1>4. ASSUME NEW c \in Callers, RpcCheck(c)
      PROVE  SrvInv'
  <2>1. UNCHANGED <<unsent, pend, trans, srv, rd>> /\ (wr' = wr \/ wr'.pc # "write")
    BY <1>4 DEF RpcCheck, queue, server, TypeInv, WriterType
  <2>. QED  BY <2>1, SrvKept
<1>5. ASSUME NEW c \in Callers, npc_rpcnb(c)
      PROVE  SrvInv'
  <2>1. PICK q \in Requests, s \in Slots : Queued(c, q, s)
    BY <1>5, RpcnbIs
  <2>2. \A y \in ToSet(unsent') : ~y.flushed
    BY <2>1 DEF Queued, SrvInv
  <2>3. UNCHANGED <<pend, trans, srv, rd>> /\ (wr' = wr \/ wr'.pc # "write")
    BY <1>5 DEF npc_rpcnb, Rpcnb, server, TypeInv, WriterType
  <2>. QED  BY <2>2, <2>3 DEF SrvInv, Pending
<1>6. ASSUME NEW c \in Callers, RpcReturn(c)
      PROVE  SrvInv'
  <2>1. UNCHANGED <<unsent, pend, trans, srv, rd>> /\ (wr' = wr \/ wr'.pc # "write")
    BY <1>6 DEF RpcReturn, queue, server, TypeInv, WriterType
  <2>. QED  BY <2>1, SrvKept
<1>7. ASSUME NEW c \in Callers, CancelTake(c)
      PROVE  SrvInv'
  <2>1. PICK mine : /\ unsent' = Without(unsent, mine)
                    /\ pend' = {IF q \in mine THEN [q EXCEPT !.flushed = TRUE] ELSE q : q \in pend}
    BY <1>7 DEF CancelTake
  <2>2. UNCHANGED <<trans, srv, rd, wr>> /\ ToSet(unsent') \subseteq ToSet(unsent)
    <3>1. unsent \in Seq(Requests)
      BY DEF TypeInv
    <3>2. ToSet(unsent') = ToSet(unsent) \ mine
      BY <2>1, <3>1, WithoutIs
    <3>. QED  BY <3>2, <1>7 DEF CancelTake, server
  <2>3. ASSUME NEW y, Pending(y) PROVE Pending(y)'
    <3>1. PICK q \in pend : q.tag = y.tag /\ q.m = y.m
      BY <2>3 DEF Pending
    <3>2. q \in Requests
      BY DEF TypeInv
    <3>3. PICK p \in pend' : p.tag = q.tag /\ p.m = q.m
      BY <2>1, <3>2, RequestIs
    <3>. QED  BY <3>1, <3>3 DEF Pending
  <2>4. \A y \in srv : Pending(y)'
    BY <2>3 DEF SrvInv
  <2>5. wr.pc = "write" /\ trans => Pending(wr.q)'
    BY <2>2, <2>3 DEF SrvInv
  <2>. QED  BY <2>2, <2>4, <2>5 DEF SrvInv, Pending
<1>8. ASSUME NEW c \in Callers, CancelReport(c)
      PROVE  SrvInv'
  <2>1. UNCHANGED <<unsent, pend, trans, srv, rd>> /\ (wr' = wr \/ wr'.pc # "write")
    BY <1>8 DEF CancelReport, queue, server, TypeInv, WriterType
  <2>. QED  BY <2>1, SrvKept
<1>9. ASSUME NEW c \in Callers, CancelFlush(c)
      PROVE  SrvInv'
  <2>1. UNCHANGED <<unsent, pend, trans, srv, rd>> /\ (wr' = wr \/ wr'.pc # "write")
    BY <1>9 DEF CancelFlush, queue, server, TypeInv, WriterType
  <2>. QED  BY <2>1, SrvKept
<1>10. ASSUME WriterWait
      PROVE  SrvInv'
  <2>1. UNCHANGED <<unsent, pend, trans, srv, rd>> /\ (wr' = wr \/ wr'.pc # "write")
    BY <1>10 DEF WriterWait, queue, server, TypeInv, WriterType
  <2>. QED  BY <2>1, SrvKept
<1>11. ASSUME WriterTake
      PROVE  SrvInv'
  <2>1. unsent \in Seq(Requests) /\ unsent # <<>> /\ TakeFirst(Len(unsent) > 1)
    BY <1>11 DEF TypeInv, WriterTake, TakeFirst
  <2>. DEFINE h == unsent[1]
  <2>2. h \in ToSet(unsent) /\ ToSet(unsent') \subseteq ToSet(unsent)
    BY <2>1, TailOf DEF TakeFirst
  <2>3. /\ pend' = pend \cup {h} /\ wr' = [pc |-> "write", q |-> h] /\ UNCHANGED <<rd, trans, srv>>
    BY <2>1 DEF TakeFirst, server
  <2>. HIDE DEF h
  <2>4. \A x \in srv : x.tag # h.tag
    BY <2>2, SrvTags DEF SrvInv, Pending
  <2>5. ~h.flushed
    BY <2>2 DEF SrvInv
  <2>. QED  BY <2>2, <2>3, <2>4, <2>5 DEF SrvInv, Pending
<1>12. ASSUME WriterWrite
      PROVE  SrvInv'
  <2>1. /\ UNCHANGED <<unsent, pend, rd>> /\ wr'.pc = "loop" /\ wr.pc = "write"
        /\ \/ trans /\ srv' = srv \cup {wr.q} /\ trans' = trans
           \/ trans' = FALSE /\ srv' \subseteq srv /\ (trans => srv' = {})
    BY <1>12 DEF WriterWrite, DropTrans, queue, server
  <2>2. ~trans => srv = {}
    BY DEF SrvInv
  <2>. QED  BY <2>1, <2>2 DEF SrvInv, Pending
<1>13. ASSUME NEW x \in srv, ReaderReply(x)
      PROVE  SrvInv'
  <2>1. PICK q \in pend, out \in Outs : Replied(x, q, out)
    BY <1>13, ReplyIs
  <2>2. UNCHANGED <<unsent, trans, wr>> /\ pend' = pend \ {q} /\ srv' \subseteq srv \ {x} /\ q.m = x.m
        /\ q.tag = x.tag
    BY <2>1 DEF Replied
  <2>3. ASSUME NEW y, Pending(y), y.tag # x.tag PROVE Pending(y)'
    BY <2>2, <2>3 DEF Pending
  <2>4. \A y \in srv' : trans' /\ ~y.flushed /\ Pending(y)'
    <3>1. \A y \in srv' : y \in srv /\ y.tag # x.tag
      BY <2>2, SrvTags
    <3>. QED  BY <2>2, <2>3, <3>1 DEF SrvInv
  <2>5. wr'.pc = "write" /\ trans' => ~wr'.q.flushed /\ Pending(wr.q)' /\ \A y \in srv' : y.tag # wr'.q.tag
    BY <2>2, <2>3 DEF SrvInv
  <2>6. rd'.pc = "cb" /\ \A y \in rd'.todo : rd'.got = y.m
    BY <2>1 DEF Replied
  <2>7. (wr.q)' = wr.q /\ \A y \in ToSet(unsent') : ~y.flushed
    BY <2>2 DEF SrvInv
  <2>. QED  BY <2>4, <2>5, <2>6, <2>7 DEF SrvInv, Pending
<1>14. ASSUME ReaderCallback
      PROVE  SrvInv'
  <2>1. UNCHANGED <<unsent, pend, trans, srv, wr>> /\ rd'.pc = "read" /\ rd'.todo = {}
    BY <1>14 DEF ReaderCallback, Reading, queue, server
  <2>. QED  BY <2>1 DEF SrvInv, Pending
<1>15. ASSUME ReaderDrain
      PROVE  SrvInv'
  <2>1. UNCHANGED <<unsent, pend, trans, srv, wr>> /\ rd'.pc = "drain" /\ rd.pc = "drain"
    BY <1>15 DEF ReaderDrain, queue, server, TypeInv, ReaderType
  <2>. QED  BY <2>1 DEF SrvInv, Pending
<1>16. ASSUME ReaderExit
      PROVE  SrvInv'
  <2>1. UNCHANGED <<unsent, pend, trans, srv, wr>> /\ rd'.pc = "exit" /\ rd.pc = "drain"
    BY <1>16 DEF ReaderExit, queue, server, TypeInv, ReaderType
  <2>. QED  BY <2>1 DEF SrvInv, Pending
<1>17. ASSUME ReaderEnd
      PROVE  SrvInv'
  <2>1. unsent' = <<>> /\ trans' = FALSE /\ srv' = {} /\ rd'.pc = "drain"
    BY <1>17 DEF ReaderEnd, DropTrans, TypeInv, ReaderType
  <2>2. ToSet(<<>>) = {}
    BY QueueOf DEF TypeInv
  <2>. QED  BY <2>1, <2>2 DEF SrvInv
<1>18. ASSUME Disconnect
      PROVE  SrvInv'
  <2>1. trans' = FALSE /\ srv' = {} /\ UNCHANGED <<unsent, rd>>
    BY <1>18 DEF Disconnect, DropTrans, queue
  <2>. QED  BY <2>1 DEF SrvInv
<1>19. ASSUME DisconnectWake
      PROVE  SrvInv'
  <2>1. UNCHANGED <<unsent, pend, trans, srv, rd>> /\ (wr' = wr \/ wr'.pc # "write")
    BY <1>19 DEF DisconnectWake, queue, server, TypeInv, WriterType
  <2>. QED  BY <2>1, SrvKept
<1>. QED
  BY <1>1, <1>2, <1>3, <1>4, <1>5, <1>6, <1>7, <1>8, <1>9, <1>10, <1>11, <1>12, 
     <1>13, <1>14, <1>15, <1>16, <1>17, <1>18, <1>19
     DEF Next, Start, Run, Writer, ReaderStep, npc_read, npc_readnb, npc_write, npc_writenb, Reads

\* A callback answers one call, and makes none.
LEMMA CallbackKeeps ==
    ASSUME TypeInv, WayInv, NEW p \in Places, NEW q \in Requests, At(p, q),
           NEW got \in Messages \cup {None, Error}, NEW out \in Outs, Callback(q.m.s, got, out)
    PROVE  /\ q.m.s \in Slots /\ call[q.m.s].st = "asked"
           /\ \A s \in Slots : call'[s].st # "idle" => call[s].st # "idle" /\ call'[s].m = call[s].m
           /\ \A s \in Slots : call'[s].st = "asked" => call'[s] = call[s]
           /\ \A c \in Callers : \/ call'[<<c, 0>>] = call[<<c, 0>>]
                                 \/ q.m.s = <<c, 0>> /\ call'[<<c, 0>>].out = out
<1>1. q.m.s \in Slots /\ call[q.m.s].st = "asked"
  BY RequestIs DEF WayInv, AskedInv
<1>2. /\ \A s \in Slots : call'[s].st # "idle" => call[s].st # "idle" /\ call'[s].m = call[s].m
      /\ \A s \in Slots : call'[s].st = "asked" => call'[s] = call[s]
      /\ \A s \in Slots : s # q.m.s /\ (call[s].st # "answered" \/ s[2] = 0) => call'[s] = call[s]
      /\ q.m.s[2] = 0 => call'[q.m.s].out = out
  BY <1>1, CallbackIs
<1>3. ASSUME NEW c \in Callers
      PROVE  call'[<<c, 0>>] = call[<<c, 0>>] \/ (q.m.s = <<c, 0>> /\ call'[<<c, 0>>].out = out)
  <2>1. <<c, 0>> \in Slots /\ <<c, 0>>[2] = 0
    BY SlotsOf
  <2>2. CASE q.m.s = <<c, 0>>
    BY <1>2, <2>1, <2>2
  <2>3. CASE q.m.s # <<c, 0>>
    BY <1>2, <2>1, <2>3
  <2>. QED  BY <2>2, <2>3
<1>. QED  BY <1>1, <1>2, <1>3

\* No call is made; a caller stays where it is, or has no npc_rpc under way and
\* does not go to send another part of a read than before.
SlotStill(d) ==
    \/ th'[d].pc = th[d].pc /\ th'[d].k = th[d].k /\ th'[d].n = th[d].n /\ th'[d].part = th[d].part
    \/ /\ th[d].pc # "wait" \/ call'[<<d, 0>>].st = "idle"
       /\ \/ th'[d].part = 0 \/ th'[d].pc \notin {"check", "queue"}
          \/ th[d].pc = "check" /\ th'[d].part = th[d].part
NoNewCall == \A s \in Slots : call'[s].st # "idle" => call[s].st # "idle" /\ call'[s].m = call[s].m

\* Such a step keeps SlotInv.
LEMMA SlotKept ==
    ASSUME TypeInv, TypeInv', SlotInv, NoNewCall, \A d \in Callers : SlotStill(d)
    PROVE  SlotInv'
<1>1. ASSUME NEW d \in Callers
      PROVE  SlotOk(d)'
  <2>0. /\ SlotStill(d) /\ <<d, 0>> \in Slots /\ Parts[d] \in Nat
        /\ \A i \in 1 .. Parts[d] : <<d, i>> \in Slots
        /\ th[d].part \in Nat /\ th'[d].part \in Nat
    <3>1. \A i \in 1 .. Parts[d] : i \in Nat /\ i <= Parts[d]
      BY SlotsOf
    <3>. QED  BY <3>1, SlotsOf DEF TypeInv, CallerType
  <2>1. /\ call[<<d, 0>>].st # "idle" =>
                  th[d].pc = "wait" /\ call[<<d, 0>>].m = [k |-> th[d].k, n |-> th[d].n, s |-> <<d, 0>>]
        /\ \A i \in 1 .. Parts[d] :
                  /\ call[<<d, i>>].st # "idle" => call[<<d, i>>].m.k = "read"
                  /\ th[d].part > 0 /\ th[d].pc \in {"check", "queue"} /\ i >= th[d].part =>
                       call[<<d, i>>].st = "idle"
    BY DEF SlotInv, SlotOk
  <2>2. call'[<<d, 0>>].st # "idle" =>
          th'[d].pc = "wait" /\ call'[<<d, 0>>].m = [k |-> th'[d].k, n |-> th'[d].n, s |-> <<d, 0>>]
    BY <2>0, <2>1 DEF SlotStill, NoNewCall
  <2>3. ASSUME NEW i \in 1 .. Parts[d]
        PROVE  /\ call'[<<d, i>>].st # "idle" => call'[<<d, i>>].m.k = "read"
               /\ th'[d].part > 0 /\ th'[d].pc \in {"check", "queue"} /\ i >= th'[d].part =>
                       call'[<<d, i>>].st = "idle"
    BY <2>0, <2>1 DEF SlotStill, NoNewCall
  <2>. QED  BY <2>2, <2>3 DEF SlotOk
<1>. QED  BY <1>1 DEF SlotInv

\* Every step keeps SlotInv.
LEMMA SlotKeeps ==
    ASSUME TypeInv, CallerInv, WayInv, SlotInv, TypeInv', Next
    PROVE  SlotInv'
<1>1. ASSUME NEW c \in Callers, NEW op \in {"open", "stat", "remove"}, StartWalk(c, op)
      PROVE  SlotInv'
  <2>1. NoNewCall
    BY <1>1 DEF StartWalk, NoNewCall
  <2>2. \A d \in Callers : SlotStill(d)
    <3>. DEFINE f == Lowest({y \in Fids : file[y] = "free"})
    <3>1. th' = [th EXCEPT ![c] = [th[c] EXCEPT !.pc = "check", !.op = op, !.k = "walk", !.n = f, !.fid = f]]
          /\ th[c].pc = "idle"
      BY <1>1 DEF StartWalk
    <3>. HIDE DEF f
    <3>2. CallerOk(th[c], Parts[c])
      BY DEF CallerInv
    <3>. QED  BY <3>1, <3>2 DEF TypeInv, CallerType, CallerOk, SlotStill
  <2>. QED  BY <2>1, <2>2, SlotKept
<1>2. ASSUME NEW c \in Callers, NEW op \in Reads, NEW n \in Fids, StartRead(c, op, n)
      PROVE  SlotInv'
  <2>1. /\ th[c].pc = "idle" /\ call' = call /\ \A d \in Callers \ {c} : th'[d] = th[d]
        /\ th'[c].pc = "check" /\ th'[c].part = IF op = "readnb" THEN 1 ELSE 0
        /\ op = "readnb" => \A i \in 1 .. Parts[c] : call[<<c, i>>].st = "idle"
    BY <1>2 DEF StartRead, TypeInv, CallerType
  <2>2. call[<<c, 0>>].st = "idle"
    BY <2>1 DEF SlotInv, SlotOk
  <2>3. SlotOk(c)'
    <3>1. call'[<<c, 0>>].st = "idle"
      BY <2>1, <2>2
    <3>2. th'[c].part > 0 => op = "readnb"
      BY <2>1
    <3>3. ASSUME NEW i \in 1 .. Parts[c]
          PROVE  /\ call'[<<c, i>>].st # "idle" => call'[<<c, i>>].m.k = "read"
                 /\ th'[c].part > 0 => call'[<<c, i>>].st = "idle"
      BY <2>1, <3>2 DEF SlotInv, SlotOk
    <3>. QED  BY <3>1, <3>3 DEF SlotOk
  <2>4. \A d \in Callers \ {c} : SlotOk(d)'
    BY <2>1 DEF SlotInv, SlotOk
  <2>. QED  BY <2>3, <2>4 DEF SlotInv
<1>3. ASSUME NEW c \in Callers, NEW n \in Fids, StartClose(c, n)
      PROVE  SlotInv'
  <2>1. NoNewCall
    BY <1>3 DEF StartClose, NoNewCall
  <2>2. \A d \in Callers : SlotStill(d)
    BY <1>3 DEF StartClose, SlotStill, TypeInv, CallerType
  <2>. QED  BY <2>1, <2>2, SlotKept
<1>4. ASSUME NEW c \in Callers, RpcCheck(c)
      PROVE  SlotInv'
  <2>1. NoNewCall
    BY <1>4 DEF RpcCheck, NoNewCall
  <2>2. \A d \in Callers : SlotStill(d)
    <3>1. CASE trans \/ th[c].part > 0
      <4>1. PICK l : th' = [th EXCEPT ![c].pc = l]
        BY <3>1, <1>4 DEF RpcCheck
      <4>2. th[c].pc = "check" /\ th'[c].part = th[c].part /\ \A d \in Callers \ {c} : th'[d] = th[d]
        BY <4>1, <1>4 DEF RpcCheck, TypeInv, CallerType
      <4>. QED  BY <4>2 DEF SlotStill
    <3>2. CASE ~trans /\ ~(th[c].part > 0)
      <4>1. th[c].part \in Nat
        BY DEF TypeInv, CallerType
      <4>2. Continue(c, "err") /\ th[c].pc = "check" /\ th[c].part = 0
        BY <3>2, <4>1, <1>4 DEF RpcCheck
      <4>. QED  BY <4>2, ContinueIs DEF Continued, SlotStill
    <3>. QED  BY <3>1, <3>2
  <2>. QED  BY <2>1, <2>2, SlotKept
<1>5. ASSUME NEW c \in Callers, npc_rpcnb(c)
      PROVE  SlotInv'
  <2>1. PICK q \in Requests, s \in Slots : Queued(c, q, s)
    BY <1>5, RpcnbIs
  <2>2. /\ s = <<c, th[c].part>> /\ q.m = [k |-> th[c].k, n |-> th[c].n, s |-> s]
        /\ call'[s].m = q.m /\ (\A x \in Slots \ {s} : call'[x] = call[x])
        /\ \A d \in Callers \ {c} : th'[d] = th[d]
    BY <2>1 DEF Queued, TypeInv
  <2>3. /\ th[c].pc = "queue" /\ th[c] \in CallerType /\ CallerOk(th[c], Parts[c]) /\ Parts[c] \in Nat
        /\ th[c].part \in Nat
    BY <1>5, SlotsOf DEF npc_rpcnb, Rpcnb, TypeInv, CallerInv, CallerType
  <2>4. \A d \in Callers : <<d, 0>> \in Slots /\ Parts[d] \in Nat /\ \A i \in 1 .. Parts[d] : <<d, i>> \in Slots
    <3>1. \A d \in Callers : \A i \in 1 .. Parts[d] : i \in Nat /\ i <= Parts[d]
      BY SlotsOf
    <3>. QED  BY <3>1, SlotsOf
  <2>5. ASSUME NEW d \in Callers, d # c
        PROVE  SlotOk(d)'
    <3>1. call'[<<d, 0>>] = call[<<d, 0>>] /\ \A i \in 1 .. Parts[d] : call'[<<d, i>>] = call[<<d, i>>]
      BY <2>2, <2>4, <2>5
    <3>. QED  BY <2>2, <2>5, <3>1 DEF SlotInv, SlotOk
  <2>8. SUFFICES SlotOk(c)'
    BY <2>5 DEF SlotInv
  <2>6. CASE th[c].part = 0
    <3>1. th'[c] = [th[c] EXCEPT !.pc = "wait"]
      BY <2>1, <2>6 DEF Queued
    <3>2. th'[c].pc = "wait" /\ th'[c].k = th[c].k /\ th'[c].n = th[c].n /\ th'[c].part = 0
      BY <2>3, <2>6, <3>1 DEF CallerType
    <3>3. \A i \in 1 .. Parts[c] : call'[<<c, i>>] = call[<<c, i>>]
      BY <2>2, <2>4, <2>6
    <3>. QED  BY <2>2, <2>6, <3>2, <3>3 DEF SlotInv, SlotOk
  <2>7. CASE th[c].part > 0
    <3>1. call[<<c, 0>>].st = "idle" /\ call'[<<c, 0>>] = call[<<c, 0>>] /\ th[c].k = "read"
      <4>1. th[c].op \in Reads /\ th[c].k = "read" /\ s # <<c, 0>>
        BY <2>2, <2>3, <2>7 DEF CallerOk, Sending
      <4>. QED  BY <2>2, <2>3, <2>4, <4>1 DEF SlotInv, SlotOk
    <3>2. \A i \in 1 .. Parts[c] : i # th[c].part => call'[<<c, i>>] = call[<<c, i>>]
      BY <2>2, <2>4
    <3>3. call'[s].m.k = "read"
      BY <2>2, <3>1
    <3>4. \A i \in 1 .. Parts[c] : i >= th[c].part => call[<<c, i>>].st = "idle"
      BY <2>3, <2>7 DEF SlotInv, SlotOk
    <3>5. CASE th'[c] = IdleCaller
      <4>1. th'[c].pc = "idle"
        BY <3>5 DEF IdleCaller
      <4>. QED  BY <2>2, <3>1, <3>2, <3>3, <4>1 DEF SlotInv, SlotOk
    <3>6. CASE th'[c] = [th[c] EXCEPT !.pc = "check", !.part = th[c].part + 1]
      <4>1. th'[c].pc = "check" /\ th'[c].part = th[c].part + 1
        BY <2>3, <3>6 DEF CallerType
      <4>2. \A i \in 1 .. Parts[c] : i >= th'[c].part => i # th[c].part /\ i >= th[c].part
        BY <2>3, <4>1
      <4>3. \A i \in 1 .. Parts[c] : /\ call'[<<c, i>>].st # "idle" => call'[<<c, i>>].m.k = "read"
                                     /\ i >= th'[c].part => call'[<<c, i>>].st = "idle"
        <5>1. ASSUME NEW i \in 1 .. Parts[c] PROVE call'[<<c, i>>].st # "idle" => call'[<<c, i>>].m.k = "read"
          <6>1. CASE i = th[c].part
            BY <2>2, <3>3, <6>1
          <6>2. CASE i # th[c].part
            BY <3>2, <6>2 DEF SlotInv, SlotOk
          <6>. QED  BY <6>1, <6>2
        <5>2. ASSUME NEW i \in 1 .. Parts[c], i >= th'[c].part PROVE call'[<<c, i>>].st = "idle"
          BY <3>2, <3>4, <4>2, <5>2
        <5>. QED  BY <5>1, <5>2
      <4>4. call'[<<c, 0>>].st = "idle"
        BY <3>1
      <4>. QED  BY <4>3, <4>4 DEF SlotOk
    <3>. QED  BY <2>1, <2>3, <2>7, <3>5, <3>6 DEF Queued
  <2>. QED  BY <2>3, <2>6, <2>7
<1>6. ASSUME NEW c \in Callers, RpcReturn(c)
      PROVE  SlotInv'
  <2>0. Continue(c, call[<<c, 0>>].out) /\ th[c].pc = "wait" /\ th[c].part = 0
    <3>1. th[c].part \in Nat /\ CallerOk(th[c], Parts[c])
      BY DEF TypeInv, CallerType, CallerInv
    <3>. QED  BY <3>1, <1>6 DEF RpcReturn, CallerOk
  <2>1. call' = [call EXCEPT ![<<c, 0>>] = Promise!NoCall] /\ <<c, 0>> \in Slots
    BY <1>6, SlotsOf DEF RpcReturn
  <2>2. NoNewCall /\ call'[<<c, 0>>].st = "idle"
    BY <2>1, CallsOf DEF NoNewCall, TypeInv
  <2>3. \A d \in Callers : SlotStill(d)
    BY <2>0, <2>2, ContinueIs DEF Continued, SlotStill
  <2>. QED  BY <2>2, <2>3, SlotKept
<1>7. ASSUME NEW c \in Callers, CancelTake(c)
      PROVE  SlotInv'
  <2>1. NoNewCall
    BY <1>7 DEF CancelTake, NoNewCall
  <2>2. \A d \in Callers : SlotStill(d)
    <3>1. th[c].pc = "cancel" /\ th'[c].pc = "report" /\ \A d \in Callers \ {c} : th'[d] = th[d]
      <4>1. PICK a, b : th' = [th EXCEPT ![c].pc = "report", ![c].todo = a, ![c].ftags = b]
        BY <1>7 DEF CancelTake
      <4>. QED  BY <4>1, <1>7 DEF CancelTake, TypeInv, CallerType
    <3>. QED  BY <3>1 DEF SlotStill
  <2>. QED  BY <2>1, <2>2, SlotKept
<1>8. ASSUME NEW c \in Callers, CancelReport(c)
      PROVE  SlotInv'
  <2>1. PICK q \in th[c].todo : Callback(q.m.s, Error, "err") /\ th' = [th EXCEPT ![c].todo = @ \ {q}]
    BY <1>8 DEF CancelReport
  <2>2. q \in Requests /\ At("todo", q) /\ "todo" \in Places
    BY <1>8, <2>1 DEF TypeInv, CallerType, ReaderType, At, Places
  <2>3. Error \in Messages \cup {None, Error} /\ "err" \in Outs
    BY DEF TypeInv, ReaderType, Outs
  <2>4. NoNewCall
    BY <2>1, <2>2, <2>3, CallbackKeeps DEF NoNewCall
  <2>5. \A d \in Callers : SlotStill(d)
    BY <1>8, <2>1 DEF CancelReport, SlotStill, TypeInv, CallerType
  <2>. QED  BY <2>4, <2>5, SlotKept
<1>9. ASSUME NEW c \in Callers, CancelFlush(c)
      PROVE  SlotInv'
  <2>1. NoNewCall
    BY <1>9 DEF CancelFlush, NoNewCall
  <2>2. \A d \in Callers : SlotStill(d)
    <3>1. /\ th[c].pc \in {"report", "flush"} /\ th'[c].part = th[c].part
          /\ \A d \in Callers \ {c} : th'[d] = th[d]
      BY <1>9 DEF CancelFlush, Rpc, TypeInv, CallerType
    <3>2. th[c].part = 0
      <4>1. th[c].part \in Nat /\ CallerOk(th[c], Parts[c])
        BY DEF TypeInv, CallerType, CallerInv
      <4>. QED  BY <3>1, <4>1 DEF CallerOk
    <3>. QED  BY <3>1, <3>2 DEF SlotStill
  <2>. QED  BY <2>1, <2>2, SlotKept
<1>10. ASSUME WriterWait
      PROVE  SlotInv'
  <2>1. NoNewCall
    BY <1>10 DEF WriterWait, NoNewCall
  <2>2. \A d \in Callers : SlotStill(d)
    BY <1>10 DEF WriterWait, SlotStill, TypeInv, CallerType
  <2>. QED  BY <2>1, <2>2, SlotKept
<1>11. ASSUME WriterTake
      PROVE  SlotInv'
  <2>1. NoNewCall
    BY <1>11 DEF WriterTake, TakeFirst, NoNewCall
  <2>2. \A d \in Callers : SlotStill(d)
    BY <1>11 DEF WriterTake, TakeFirst, SlotStill, TypeInv, CallerType
  <2>. QED  BY <2>1, <2>2, SlotKept
<1>12. ASSUME WriterWrite
      PROVE  SlotInv'
  <2>1. NoNewCall
    BY <1>12 DEF WriterWrite, NoNewCall
  <2>2. \A d \in Callers : SlotStill(d)
    BY <1>12 DEF WriterWrite, SlotStill, TypeInv, CallerType
  <2>. QED  BY <2>1, <2>2, SlotKept
<1>13. ASSUME NEW x \in srv, ReaderReply(x)
      PROVE  SlotInv'
  <2>1. NoNewCall
    BY <1>13 DEF ReaderReply, Reply, NoNewCall
  <2>2. \A d \in Callers : SlotStill(d)
    BY <1>13 DEF ReaderReply, Reply, SlotStill, TypeInv, CallerType
  <2>. QED  BY <2>1, <2>2, SlotKept
<1>14. ASSUME ReaderCallback
      PROVE  SlotInv'
  <2>1. PICK q \in rd.todo : Callback(q.m.s, rd.got, rd.out)
    BY <1>14 DEF ReaderCallback
  <2>2. q \in Requests /\ At("rd", q) /\ "rd" \in Places
    BY <1>14, <2>1 DEF TypeInv, CallerType, ReaderType, At, Places
  <2>3. rd.got \in Messages \cup {None, Error} /\ rd.out \in Outs
    BY DEF TypeInv, ReaderType, Outs
  <2>4. NoNewCall
    BY <2>1, <2>2, <2>3, CallbackKeeps DEF NoNewCall
  <2>5. \A d \in Callers : SlotStill(d)
    BY <1>14, <2>1 DEF ReaderCallback, SlotStill, TypeInv, CallerType
  <2>. QED  BY <2>4, <2>5, SlotKept
<1>15. ASSUME ReaderDrain
      PROVE  SlotInv'
  <2>1. PICK q \in rd.todo : Callback(q.m.s, Error, "err")
    BY <1>15 DEF ReaderDrain
  <2>2. q \in Requests /\ At("rd", q) /\ "rd" \in Places
    BY <1>15, <2>1 DEF TypeInv, CallerType, ReaderType, At, Places
  <2>3. Error \in Messages \cup {None, Error} /\ "err" \in Outs
    BY DEF TypeInv, ReaderType, Outs
  <2>4. NoNewCall
    BY <2>1, <2>2, <2>3, CallbackKeeps DEF NoNewCall
  <2>5. \A d \in Callers : SlotStill(d)
    BY <1>15, <2>1 DEF ReaderDrain, SlotStill, TypeInv, CallerType
  <2>. QED  BY <2>4, <2>5, SlotKept
<1>16. ASSUME ReaderExit
      PROVE  SlotInv'
  <2>1. NoNewCall
    BY <1>16 DEF ReaderExit, NoNewCall
  <2>2. \A d \in Callers : SlotStill(d)
    BY <1>16 DEF ReaderExit, SlotStill, TypeInv, CallerType
  <2>. QED  BY <2>1, <2>2, SlotKept
<1>17. ASSUME ReaderEnd
      PROVE  SlotInv'
  <2>1. NoNewCall
    BY <1>17 DEF ReaderEnd, NoNewCall
  <2>2. \A d \in Callers : SlotStill(d)
    BY <1>17 DEF ReaderEnd, SlotStill, TypeInv, CallerType
  <2>. QED  BY <2>1, <2>2, SlotKept
<1>18. ASSUME Disconnect
      PROVE  SlotInv'
  <2>1. NoNewCall
    BY <1>18 DEF Disconnect, NoNewCall
  <2>2. \A d \in Callers : SlotStill(d)
    BY <1>18 DEF Disconnect, SlotStill, TypeInv, CallerType
  <2>. QED  BY <2>1, <2>2, SlotKept
<1>19. ASSUME DisconnectWake
      PROVE  SlotInv'
  <2>1. NoNewCall
    BY <1>19 DEF DisconnectWake, NoNewCall
  <2>2. \A d \in Callers : SlotStill(d)
    BY <1>19 DEF DisconnectWake, SlotStill, TypeInv, CallerType
  <2>. QED  BY <2>1, <2>2, SlotKept
<1>. QED
  BY <1>1, <1>2, <1>3, <1>4, <1>5, <1>6, <1>7, <1>8, <1>9, <1>10, <1>11, <1>12, 
     <1>13, <1>14, <1>15, <1>16, <1>17, <1>18, <1>19
     DEF Next, Start, Run, Writer, ReaderStep, npc_read, npc_readnb, npc_write, npc_writenb, Reads

\* Steps that only give up fids, on either side, keep FidInv.
FidLess ==
    /\ file' = file /\ sfids' \subseteq sfids
    /\ \A d \in Callers : Owner(d)' => Owner(d) /\ th'[d].fid = th[d].fid
    /\ \A d \in Callers : Agreed(d)' => Agreed(d) /\ th'[d].fid = th[d].fid
    /\ \A q \in Requests : Agreeing(q)' => Agreeing(q)

\* Such a step keeps FidInv.
LEMMA FidKept == ASSUME FidInv, FidLess PROVE FidInv'
<1>1. OwnerInv'
  BY DEF FidInv, FidLess, OwnerInv
<1>. QED  BY <1>1 DEF FidInv, FidLess

\* A caller that waits for the end of its fid owns it.
LEMMA EndsOwner ==
    ASSUME TypeInv, CallerInv, NEW c \in Callers, th[c].pc = "wait", Ends(th[c].k)
    PROVE  Owner(c) /\ th[c].fid \in Fids
<1>1. CallerOk(th[c], Parts[c])
  BY DEF CallerInv
<1>. QED  BY <1>1 DEF CallerOk, Sending, Ends, Owner

\* What a caller does with its fid when npc_rpc returns.
LEMMA FidContinued ==
    ASSUME TypeInv, CallerInv, FidInv, NEW c \in Callers, NEW res, Continued(c, res),
           th[c].pc \in {"check", "wait"}, UNCHANGED <<rd, sfids>>,
           Ends(th[c].k) /\ res = "ok" => th[c].fid \notin sfids,
           \A d \in Callers \ {c} : call'[<<d, 0>>] = call[<<d, 0>>]
    PROVE  FidInv'
<1>1. /\ \A d \in Callers \ {c} : th'[d] = th[d]
      /\ th'[c].pc \in {"idle", "check", "cancel", "flush"}
      /\ th'[c].pc # "idle" => th'[c].fid = th[c].fid /\ th'[c].op = th[c].op /\ file' = file
      /\ \A n \in Fids \ {th[c].fid} : file'[n] = file[n]
      /\ th[c].op \in Reads => file' = file
      /\ file'[th[c].fid] = "free" => file' = file \/ (Ends(th[c].k) /\ res = "ok")
  BY DEF Continued
<1>2. \A d \in Callers : Owner(d)' => Owner(d) /\ th'[d].fid = th[d].fid /\ th[d].fid \in Fids
  <2>1. \A d \in Callers : Owner(d) => th[d].fid \in Fids
    BY DEF CallerInv, CallerOk, Owner
  <2>. QED  BY <1>1, <2>1 DEF Owner
<1>3. ASSUME NEW d \in Callers, Owner(d)' PROVE file'[th'[d].fid] = "busy"
  <2>1. Owner(d) /\ th'[d].fid = th[d].fid /\ th[d].fid \in Fids /\ file[th[d].fid] = "busy"
    BY <1>2, <1>3 DEF FidInv, OwnerInv
  <2>2. CASE file' = file
    BY <2>1, <2>2
  <2>3. CASE file' # file
    <3>1. th'[c].pc = "idle" /\ Owner(c)
      BY <1>1, <2>3 DEF Owner
    <3>2. d # c
      BY <1>3, <3>1 DEF Owner
    <3>3. th[d].fid # th[c].fid
      BY <2>1, <3>1, <3>2 DEF FidInv, OwnerInv
    <3>. QED  BY <1>1, <2>1, <3>3
  <2>. QED  BY <2>2, <2>3
<1>4. OwnerInv'
  BY <1>2, <1>3 DEF FidInv, OwnerInv
<1>5. ASSUME NEW n \in sfids PROVE file'[n] # "free"
  <2>1. file[n] # "free" /\ n \in Fids
    BY DEF FidInv, TypeInv
  <2>2. CASE n = th[c].fid
    BY <1>1, <2>1, <2>2
  <2>3. CASE n # th[c].fid
    BY <1>1, <2>1, <2>3
  <2>. QED  BY <2>2, <2>3
<1>6. \A d \in Callers : Agreed(d)' => Agreed(d) /\ th'[d].fid = th[d].fid
  BY <1>1 DEF Agreed
<1>7. \A q \in Requests : Agreeing(q)' => Agreeing(q)
  BY DEF Agreeing
<1>. QED  BY <1>4, <1>5, <1>6, <1>7 DEF FidInv

\* A caller comes to own a fid that nobody owns.
LEMMA FidTaken ==
    ASSUME TypeInv, CallerInv, FidInv, NEW c \in Callers, NEW n \in Fids, file[n] # "busy",
           th[c].pc = "idle", th'[c].pc # "wait", th'[c].fid = n, \A d \in Callers \ {c} : th'[d] = th[d],
           file' = [file EXCEPT ![n] = "busy"], UNCHANGED <<rd, sfids, call>>
    PROVE  FidInv'
<1>1. file \in [Fids -> {"free", "busy", "open", "lost"}] /\ sfids \subseteq Fids
  BY DEF TypeInv
<1>2. \A d \in Callers \ {c} : (Owner(d)' <=> Owner(d)) /\ (Agreed(d)' <=> Agreed(d))
  BY DEF Owner, Agreed
<1>3. ASSUME NEW d \in Callers \ {c}, Owner(d)
      PROVE  file[th[d].fid] = "busy" /\ th[d].fid # n /\ th[d].fid \in Fids
  BY <1>3 DEF FidInv, OwnerInv, CallerInv, CallerOk, Owner
<1>4. OwnerInv'
  <2>1. \A d \in Callers : Owner(d)' => file'[th'[d].fid] = "busy"
    BY <1>1, <1>2, <1>3
  <2>2. ASSUME NEW d \in Callers, NEW e \in Callers, Owner(d)', Owner(e)', th'[d].fid = th'[e].fid
        PROVE  d = e
    <3>1. CASE d # c /\ e # c
      BY <1>2, <2>2, <3>1 DEF FidInv, OwnerInv
    <3>2. CASE d = c /\ e # c
      BY <1>2, <1>3, <2>2, <3>2
    <3>3. CASE d # c /\ e = c
      BY <1>2, <1>3, <2>2, <3>3
    <3>. QED  BY <3>1, <3>2, <3>3
  <2>. QED  BY <2>1, <2>2 DEF OwnerInv
<1>5. \A m \in sfids : file'[m] # "free"
  BY <1>1 DEF FidInv
<1>6. \A q \in Requests : Agreeing(q)' => Agreeing(q)
  BY DEF Agreeing
<1>7. ~Agreed(c)'
  BY DEF Agreed
<1>. QED  BY <1>2, <1>4, <1>5, <1>6, <1>7 DEF FidInv

\* Every step keeps FidInv.
LEMMA FidKeeps ==
    ASSUME TypeInv, CallerInv, WayInv, SrvInv, SlotInv, FidInv, Next
    PROVE  FidInv'
<1>1. ASSUME NEW c \in Callers, NEW op \in {"open", "stat", "remove"}, StartWalk(c, op)
      PROVE  FidInv'
  <2>. DEFINE f == Lowest({y \in Fids : file[y] = "free"})
  <2>1. f \in Fids /\ file[f] = "free"
    <3>1. f \in {y \in Fids : file[y] = "free"}
      BY <1>1, LowestIn, NpcFsysAssumption DEF StartWalk
    <3>. QED  BY <3>1
  <2>2. /\ th' = [th EXCEPT ![c] = [th[c] EXCEPT !.pc = "check", !.op = op, !.k = "walk", !.n = f, !.fid = f]]
        /\ th[c].pc = "idle" /\ file' = [file EXCEPT ![f] = "busy"] /\ UNCHANGED <<rd, sfids, call>>
    BY <1>1 DEF StartWalk, server
  <2>. HIDE DEF f
  <2>3. th'[c].pc = "check" /\ th'[c].fid = f /\ \A d \in Callers \ {c} : th'[d] = th[d]
    BY <2>2 DEF TypeInv, CallerType
  <2>. QED  BY <2>1, <2>2, <2>3, FidTaken
<1>2. ASSUME NEW c \in Callers, NEW op \in Reads, NEW n \in Fids, StartRead(c, op, n)
      PROVE  FidInv'
  <2>1. /\ UNCHANGED <<file, sfids, call, rd>> /\ \A d \in Callers \ {c} : th'[d] = th[d]
        /\ th'[c].pc = "check" /\ th'[c].op \in Reads
    BY <1>2 DEF StartRead, TypeInv, CallerType, server
  <2>2. FidLess
    BY <2>1 DEF FidLess, Owner, Agreed, Agreeing
  <2>. QED  BY <2>2, FidKept
<1>3. ASSUME NEW c \in Callers, NEW n \in Fids, StartClose(c, n)
      PROVE  FidInv'
  <2>1. /\ file[n] = "open" /\ file' = [file EXCEPT ![n] = "busy"] /\ UNCHANGED <<rd, sfids, call>>
        /\ th[c].pc = "idle" /\ th'[c].pc = "cancel" /\ th'[c].fid = n /\ \A d \in Callers \ {c} : th'[d] = th[d]
    BY <1>3 DEF StartClose, server, TypeInv, CallerType
  <2>. QED  BY <2>1, FidTaken
<1>4. ASSUME NEW c \in Callers, RpcCheck(c)
      PROVE  FidInv'
  <2>1. CASE trans \/ th[c].part > 0
    <3>1. /\ UNCHANGED <<file, sfids, call, rd>> /\ \A d \in Callers \ {c} : th'[d] = th[d]
          /\ th[c].pc = "check" /\ th'[c].pc \in {"queue", "stuck"} /\ th'[c].op = th[c].op /\ th'[c].fid = th[c].fid
      BY <2>1, <1>4 DEF RpcCheck, TypeInv, CallerType, server
    <3>2. FidLess
      BY <3>1 DEF FidLess, Owner, Agreed, Agreeing
    <3>. QED  BY <3>2, FidKept
  <2>2. CASE ~trans /\ ~(th[c].part > 0)
    <3>1. th[c].part \in Nat
      BY DEF TypeInv, CallerType
    <3>2. Continue(c, "err") /\ th[c].pc = "check" /\ th[c].part = 0 /\ UNCHANGED <<rd, sfids, call>>
      BY <2>2, <3>1, <1>4 DEF RpcCheck, server
    <3>3. Continued(c, "err")
      BY <3>2, ContinueIs
    <3>. QED  BY <3>2, <3>3, FidContinued
  <2>. QED  BY <2>1, <2>2
<1>5. ASSUME NEW c \in Callers, npc_rpcnb(c)
      PROVE  FidInv'
  <2>1. PICK q \in Requests, s \in Slots : Queued(c, q, s)
    BY <1>5, RpcnbIs
  <2>2. /\ s = <<c, th[c].part>> /\ call'[s].st = "asked" /\ (\A x \in Slots \ {s} : call'[x] = call[x])
        /\ \A d \in Callers \ {c} : th'[d] = th[d]
    BY <2>1 DEF Queued, TypeInv
  <2>3. UNCHANGED <<file, sfids, rd>> /\ th[c] \in CallerType /\ th[c].pc = "queue" /\ th[c].part \in Nat
    BY <1>5 DEF npc_rpcnb, Rpcnb, server, TypeInv, CallerType
  <2>4. \A d \in Callers \ {c} : call'[<<d, 0>>] = call[<<d, 0>>]
    BY <2>2, SlotsOf
  <2>5. Owner(c)' => Owner(c) /\ th'[c].fid = th[c].fid
    <3>1. CASE th'[c] = IdleCaller
      BY <3>1 DEF Owner, IdleCaller
    <3>2. CASE th'[c] = [th[c] EXCEPT !.pc = "wait"]
      BY <2>3, <3>2 DEF Owner, CallerType
    <3>3. CASE th'[c] = [th[c] EXCEPT !.pc = "check", !.part = th[c].part + 1]
      BY <2>3, <3>3 DEF Owner, CallerType
    <3>. QED  BY <2>1, <3>1, <3>2, <3>3 DEF Queued
  <2>6. ~Agreed(c)'
    <3>1. CASE th[c].part = 0
      BY <2>2, <3>1 DEF Agreed
    <3>2. CASE th'[c] = IdleCaller
      BY <3>2 DEF Agreed, IdleCaller
    <3>3. CASE th'[c] = [th[c] EXCEPT !.pc = "check", !.part = th[c].part + 1]
      BY <2>3, <3>3 DEF Agreed, CallerType
    <3>. QED  BY <2>1, <3>1, <3>2, <3>3 DEF Queued
  <2>7. FidLess
    BY <2>2, <2>3, <2>4, <2>5, <2>6 DEF FidLess, Owner, Agreed, Agreeing
  <2>. QED  BY <2>7, FidKept
<1>6. ASSUME NEW c \in Callers, RpcReturn(c)
      PROVE  FidInv'
  <2>0. Continue(c, call[<<c, 0>>].out) /\ th[c].pc = "wait" /\ th[c].part = 0
    <3>1. th[c].part \in Nat /\ CallerOk(th[c], Parts[c])
      BY DEF TypeInv, CallerType, CallerInv
    <3>. QED  BY <3>1, <1>6 DEF RpcReturn, CallerOk
  <2>1. /\ call' = [call EXCEPT ![<<c, 0>>] = Promise!NoCall] /\ <<c, 0>> \in Slots
        /\ UNCHANGED <<rd, sfids>> /\ call[<<c, 0>>].st = "answered"
    BY <1>6, SlotsOf DEF RpcReturn, server
  <2>2. \A d \in Callers \ {c} : call'[<<d, 0>>] = call[<<d, 0>>]
    BY <2>1, SlotsOf DEF TypeInv
  <2>3. Ends(th[c].k) /\ call[<<c, 0>>].out = "ok" => th[c].fid \notin sfids
    BY <2>0, <2>1 DEF FidInv, Agreed
  <2>4. Continued(c, call[<<c, 0>>].out)
    BY <2>0, ContinueIs
  <2>. QED  BY <2>0, <2>1, <2>2, <2>3, <2>4, FidContinued
<1>7. ASSUME NEW c \in Callers, CancelTake(c)
      PROVE  FidInv'
  <2>1. /\ UNCHANGED <<file, sfids, call, rd>> /\ \A d \in Callers \ {c} : th'[d] = th[d]
        /\ th[c].pc # "idle" /\ th'[c].pc \in {"report", "check"} /\ th'[c].op = th[c].op /\ th'[c].fid = th[c].fid
    <3>1. PICK a, b : th' = [th EXCEPT ![c].pc = "report", ![c].todo = a, ![c].ftags = b]
      BY <1>7 DEF CancelTake
    <3>2. UNCHANGED <<file, sfids, call, rd>> /\ th[c].pc = "cancel"
      BY <1>7 DEF CancelTake, server
    <3>3. th \in [Callers -> CallerType]
      BY DEF TypeInv
    <3>. QED  BY <3>1, <3>2, <3>3 DEF CallerType
  <2>2. FidLess
    BY <2>1 DEF FidLess, Owner, Agreed, Agreeing
  <2>. QED  BY <2>2, FidKept
<1>8. ASSUME NEW c \in Callers, CancelReport(c)
      PROVE  FidInv'
  <2>1. PICK q \in th[c].todo : Callback(q.m.s, Error, "err") /\ th' = [th EXCEPT ![c].todo = @ \ {q}]
    BY <1>8 DEF CancelReport
  <2>2. q \in Requests /\ At("todo", q) /\ "todo" \in Places
    BY <1>8, <2>1 DEF TypeInv, CallerType, ReaderType, At, Places
  <2>3. Error \in Messages \cup {None, Error} /\ "err" \in Outs
    BY DEF TypeInv, ReaderType, Outs
  <2>4. \A d \in Callers : \/ call'[<<d, 0>>] = call[<<d, 0>>]
                           \/ q.m.s = <<d, 0>> /\ call'[<<d, 0>>].out = "err"
    BY <2>1, <2>2, <2>3, CallbackKeeps
  <2>5. /\ UNCHANGED <<file, sfids, rd>>
        /\ \A d \in Callers : th'[d].pc = th[d].pc /\ th'[d].k = th[d].k /\ th'[d].op = th[d].op /\ th'[d].fid = th[d].fid
    BY <1>8, <2>1 DEF CancelReport, TypeInv, CallerType, server
  <2>6. FidLess
    BY <2>4, <2>5 DEF FidLess, Owner, Agreed, Agreeing
  <2>. QED  BY <2>6, FidKept
<1>9. ASSUME NEW c \in Callers, CancelFlush(c)
      PROVE  FidInv'
  <2>1. /\ UNCHANGED <<file, sfids, call, rd>> /\ \A d \in Callers \ {c} : th'[d] = th[d]
        /\ th[c].pc # "idle" /\ th'[c].pc \in {"report", "check"} /\ th'[c].op = th[c].op /\ th'[c].fid = th[c].fid
    BY <1>9 DEF CancelFlush, Rpc, TypeInv, CallerType, server
  <2>2. FidLess
    BY <2>1 DEF FidLess, Owner, Agreed, Agreeing
  <2>. QED  BY <2>2, FidKept
<1>10. ASSUME WriterWait
      PROVE  FidInv'
  <2>1. FidLess
    BY <1>10 DEF WriterWait, FidLess, Owner, Agreed, Agreeing, queue, server
  <2>. QED  BY <2>1, FidKept
<1>11. ASSUME WriterTake
      PROVE  FidInv'
  <2>1. FidLess
    BY <1>11 DEF WriterTake, TakeFirst, FidLess, Owner, Agreed, Agreeing, queue, server
  <2>. QED  BY <2>1, FidKept
<1>12. ASSUME WriterWrite
      PROVE  FidInv'
  <2>1. FidLess
    BY <1>12 DEF WriterWrite, DropTrans, FidLess, Owner, Agreed, Agreeing, queue, server
  <2>. QED  BY <2>1, FidKept
<1>13. ASSUME NEW x \in srv, ReaderReply(x)
      PROVE  FidInv'
  <2>1. PICK q \in pend, out \in Outs : Replied(x, q, out)
    BY <1>13, ReplyIs
  <2>2. /\ UNCHANGED <<file, th, call>> /\ q.m = x.m /\ rd'.todo = {q} /\ rd'.out = out
        /\ sfids' = FidsAfter(x.m, out)
    BY <2>1 DEF Replied
  <2>3. q \in Requests /\ At("pend", q) /\ "pend" \in Places
    BY DEF TypeInv, At, Places
  <2>4. OwnerInv'
    BY <2>2 DEF FidInv, OwnerInv, Owner
  <2>5. CASE x.m.k = "walk" /\ out = "ok"
    <3>1. sfids' = sfids \cup {x.m.n}
      BY <2>2, <2>5 DEF FidsAfter
    <3>2. PICK c \in Callers : Sender(q, c)
      BY <2>2, <2>3, <2>5, SentBy
    <3>3. Owner(c) /\ x.m.n = th[c].fid /\ call[<<c, 0>>].st = "asked"
      BY <2>2, <2>5, <3>2 DEF Sender
    <3>4. file[x.m.n] # "free"
      BY <3>3 DEF FidInv, OwnerInv
    <3>5. ASSUME NEW d \in Callers, Agreed(d) PROVE th[d].fid # x.m.n /\ th[d].fid \notin sfids
      BY <3>3, <3>5, EndsOwner DEF FidInv, OwnerInv, Agreed
    <3>6. \A d \in Callers : Agreed(d)' => Agreed(d)
      BY <2>2 DEF Agreed
    <3>7. \A y \in Requests : ~Agreeing(y)'
      BY <2>2, <2>5 DEF Agreeing, Ends
    <3>. QED  BY <2>2, <2>4, <3>1, <3>4, <3>5, <3>6, <3>7 DEF FidInv
  <2>6. CASE ~(x.m.k = "walk" /\ out = "ok")
    <3>1. sfids' \subseteq sfids /\ (Ends(x.m.k) /\ out = "ok" => x.m.n \notin sfids')
      BY <2>2, <2>6 DEF FidsAfter, Ends
    <3>2. \A y \in Requests : Agreeing(y)' => y.m = x.m /\ Ends(x.m.k) /\ out = "ok"
      BY <2>2 DEF Agreeing
    <3>3. \A d \in Callers : Agreed(d)' => Agreed(d)
      BY <2>2 DEF Agreed
    <3>. QED  BY <2>2, <2>4, <3>1, <3>2, <3>3 DEF FidInv
  <2>. QED  BY <2>5, <2>6
<1>14. ASSUME ReaderCallback
      PROVE  FidInv'
  <2>1. PICK q \in rd.todo : Callback(q.m.s, rd.got, rd.out)
    BY <1>14 DEF ReaderCallback
  <2>2. q \in Requests /\ At("rd", q) /\ "rd" \in Places
    BY <1>14, <2>1 DEF TypeInv, CallerType, ReaderType, At, Places
  <2>3. rd.got \in Messages \cup {None, Error} /\ rd.out \in Outs
    BY DEF TypeInv, ReaderType, Outs
  <2>4. \A d \in Callers : \/ call'[<<d, 0>>] = call[<<d, 0>>]
                           \/ q.m.s = <<d, 0>> /\ call'[<<d, 0>>].out = rd.out
    BY <2>1, <2>2, <2>3, CallbackKeeps
  <2>5. UNCHANGED <<file, sfids, th>> /\ rd'.pc = "read" /\ rd.pc = "cb"
    BY <1>14 DEF ReaderCallback, Reading, server
  <2>6. ASSUME NEW d \in Callers, Agreed(d)' PROVE th[d].fid \notin sfids
    <3>1. CASE call'[<<d, 0>>] = call[<<d, 0>>]
      BY <2>5, <2>6, <3>1 DEF FidInv, Agreed
    <3>2. CASE q.m.s = <<d, 0>> /\ call'[<<d, 0>>].out = rd.out
      <4>1. PICK e \in Callers : Sender(q, e)
        BY <2>2, <3>2, SentBy
      <4>2. e = d /\ th[d].k = q.m.k /\ q.m.n = th[d].fid
        BY <2>5, <2>6, <3>2, <4>1 DEF Sender, Agreed, Ends
      <4>3. Agreeing(q)
        BY <2>1, <2>5, <2>6, <3>2, <4>2 DEF Agreeing, Agreed
      <4>. QED  BY <2>2, <4>2, <4>3 DEF FidInv
    <3>. QED  BY <2>4, <3>1, <3>2
  <2>7. OwnerInv'
    BY <2>5 DEF FidInv, OwnerInv, Owner
  <2>8. \A y \in Requests : ~Agreeing(y)'
    BY <2>5 DEF Agreeing
  <2>. QED  BY <2>5, <2>6, <2>7, <2>8 DEF FidInv
<1>15. ASSUME ReaderDrain
      PROVE  FidInv'
  <2>1. PICK q \in rd.todo : Callback(q.m.s, Error, "err")
    BY <1>15 DEF ReaderDrain
  <2>2. q \in Requests /\ At("rd", q) /\ "rd" \in Places
    BY <1>15, <2>1 DEF TypeInv, CallerType, ReaderType, At, Places
  <2>3. Error \in Messages \cup {None, Error} /\ "err" \in Outs
    BY DEF TypeInv, ReaderType, Outs
  <2>4. \A d \in Callers : \/ call'[<<d, 0>>] = call[<<d, 0>>]
                           \/ q.m.s = <<d, 0>> /\ call'[<<d, 0>>].out = "err"
    BY <2>1, <2>2, <2>3, CallbackKeeps
  <2>5. UNCHANGED <<file, sfids, th>> /\ rd'.pc = "drain"
    BY <1>15 DEF ReaderDrain, TypeInv, ReaderType, server
  <2>6. FidLess
    BY <2>4, <2>5 DEF FidLess, Owner, Agreed, Agreeing
  <2>. QED  BY <2>6, FidKept
<1>16. ASSUME ReaderExit
      PROVE  FidInv'
  <2>1. UNCHANGED <<file, sfids, th, call>> /\ rd'.pc = "exit"
    BY <1>16 DEF ReaderExit, TypeInv, ReaderType, server
  <2>2. FidLess
    BY <2>1 DEF FidLess, Owner, Agreed, Agreeing
  <2>. QED  BY <2>2, FidKept
<1>17. ASSUME ReaderEnd
      PROVE  FidInv'
  <2>1. UNCHANGED <<file, th, call>> /\ sfids' = {} /\ rd'.pc = "drain"
    BY <1>17 DEF ReaderEnd, DropTrans, TypeInv, ReaderType
  <2>2. FidLess
    BY <2>1 DEF FidLess, Owner, Agreed, Agreeing
  <2>. QED  BY <2>2, FidKept
<1>18. ASSUME Disconnect
      PROVE  FidInv'
  <2>1. FidLess
    BY <1>18 DEF Disconnect, DropTrans, FidLess, Owner, Agreed, Agreeing, queue, server
  <2>. QED  BY <2>1, FidKept
<1>19. ASSUME DisconnectWake
      PROVE  FidInv'
  <2>1. FidLess
    BY <1>19 DEF DisconnectWake, FidLess, Owner, Agreed, Agreeing, queue, server
  <2>. QED  BY <2>1, FidKept
<1>. QED
  BY <1>1, <1>2, <1>3, <1>4, <1>5, <1>6, <1>7, <1>8, <1>9, <1>10, <1>11, <1>12, 
     <1>13, <1>14, <1>15, <1>16, <1>17, <1>18, <1>19
     DEF Next, Start, Run, Writer, ReaderStep, npc_read, npc_readnb, npc_write, npc_writenb, Reads

\* Steps that put no request on the way, ask nothing and leave open fids open.
Stays == \A p \in Places, q \in Requests : At(p, q)' => \E p0 \in Places : At(p0, q)
Fewer == \A s \in Slots : call'[s].st = "asked" => call'[s] = call[s]
FileSafe == \A n \in Fids : file[n] = "open" => file'[n] = "open"
CareStill(d) ==
    /\ th'[d].ftags \subseteq th[d].ftags /\ th'[d].todo \subseteq th[d].todo
    /\ \/ th'[d].pc = th[d].pc /\ th'[d].k = th[d].k /\ th'[d].fid = th[d].fid
       \/ th'[d].pc \notin Sending \/ th'[d].k \notin {"flush", "read"}
       \/ th[d].pc = "check" /\ th'[d].k = th[d].k /\ th'[d].fid = th[d].fid
       \/ th'[d].k = "read" /\ th'[d].fid \in Fids /\ file[th'[d].fid] = "open"

\* Such a step keeps CareInv.
LEMMA CareKept ==
    ASSUME TypeInv, CallerInv, CareInv, careful' = careful, Stays, Fewer, FileSafe,
           \A d \in Callers : CareStill(d), careful => Behind'
    PROVE  CareInv'
<1>1. SUFFICES ASSUME careful PROVE NoFlush' /\ (\A d \in Callers : CareOk(th[d])') /\ OpenRead'
  BY DEF CareInv
<1>2. NoFlush'
  BY <1>1 DEF CareInv, NoFlush, Stays
<1>3. ASSUME NEW d \in Callers PROVE CareOk(th[d])'
  <2>1. CareOk(th[d]) /\ CareStill(d) /\ (th[d].pc # "idle" => th[d].fid \in Fids)
    BY <1>1 DEF CareInv, CallerInv, CallerOk
  <2>2. th[d].pc \in Sending => th[d].pc # "idle"
    BY DEF Sending
  <2>. QED  BY <2>1, <2>2 DEF CareOk, CareStill, FileSafe, Sending
<1>4. ASSUME NEW n \in Fids, Outstanding(n)' PROVE file'[n] = "open"
  <2>1. Outstanding(n)
    BY <1>4 DEF Outstanding, Fewer
  <2>. QED  BY <1>1, <2>1 DEF CareInv, OpenRead, FileSafe
<1>. QED  BY <1>2, <1>3, <1>4 DEF OpenRead

\* What a caller does when npc_rpc returns.
LEMMA CareContinued ==
    ASSUME TypeInv, CallerInv, FidInv, CareInv, NEW c \in Callers, NEW res, Continued(c, res),
           th[c].pc \in {"check", "wait"}, UNCHANGED <<careful, trans, unsent, stale, broken, pend, rd>>, Fewer
    PROVE  CareInv'
<1>1. /\ \A d \in Callers \ {c} : th'[d] = th[d]
      /\ th'[c].pc \in {"idle", "check", "cancel", "flush"} /\ th'[c].todo = {} /\ th'[c].ftags \subseteq th[c].ftags
      /\ th'[c].pc # "idle" => file' = file
      /\ \A n \in Fids \ {th[c].fid} : file'[n] = file[n]
      /\ th[c].op \in Reads => file' = file
      /\ th'[c].pc = "check" => th'[c].k \notin {"flush", "read"}
  BY DEF Continued
<1>2. FileSafe
  <2>1. CASE th[c].op \notin Reads
    <3>1. Owner(c)
      BY <2>1 DEF Owner
    <3>. QED  BY <1>1, <3>1 DEF FidInv, OwnerInv, FileSafe
  <2>. QED  BY <1>1, <2>1 DEF FileSafe
<1>3. \A d \in Callers : CareStill(d)
  BY <1>1 DEF CareStill, Sending
<1>4. Stays
  BY <1>1 DEF Stays, At
<1>5. careful => Behind'
  BY DEF CareInv, Behind
<1>. QED  BY <1>2, <1>3, <1>4, <1>5, CareKept

\* npc_close of a careful caller finds nothing to cancel.
LEMMA NothingToCancel ==
    ASSUME TypeInv, CallerInv, WayInv, SlotInv, FidInv, CareInv, careful,
           NEW c \in Callers, th[c].pc = "cancel",
           NEW q \in ToSet(unsent) \cup pend
    PROVE  FidOf(q.m) # th[c].fid /\ q.m.k # "flush"
<1>1. PICK p \in Places : At(p, q)
  BY DEF At, Places
<1>2. q \in Requests
  BY QueueOf DEF TypeInv
<1>3. q.m.k # "flush"
  BY <1>1, <1>2 DEF CareInv, NoFlush
<1>4. th[c].fid \in Fids /\ Owner(c) /\ file[th[c].fid] = "busy" /\ None \notin Fids
  <2>1. CallerOk(th[c], Parts[c])
    BY DEF CallerInv
  <2>2. th[c].fid \in Fids /\ Owner(c)
    BY <2>1 DEF CallerOk, Owner
  <2>. QED  BY <2>2, NpcFsysAssumption DEF FidInv, OwnerInv
<1>5. CASE q.m.k = "read"
  <2>1. q.m.s \in Slots /\ call[q.m.s].st = "asked" /\ call[q.m.s].m = q.m
    BY <1>1, <1>2, RequestIs DEF WayInv, AskedInv
  <2>2. ASSUME q.m.n = th[c].fid PROVE FALSE
    <3>1. Outstanding(th[c].fid)
      BY <1>5, <2>1, <2>2 DEF Outstanding
    <3>. QED  BY <1>4, <3>1 DEF CareInv, OpenRead
  <2>. QED  BY <1>5, <2>2 DEF FidOf
<1>6. CASE q.m.k # "read" /\ q.m.k # "walk"
  <2>1. PICK d \in Callers : Sender(q, d)
    BY <1>1, <1>2, <1>6, SentBy
  <2>2. Owner(d) /\ q.m.n = th[d].fid /\ d # c
    BY <1>3, <1>6, <2>1 DEF Sender
  <2>. QED  BY <1>3, <1>4, <1>6, <2>2 DEF FidOf, FidInv, OwnerInv
<1>7. CASE q.m.k = "walk"
  BY <1>3, <1>4, <1>7 DEF FidOf
<1>. QED  BY <1>3, <1>5, <1>6, <1>7

\* Nothing of it is touched, but that the connection may be lost.
LEMMA CareUntouched ==
    ASSUME TypeInv, TypeInv', CallerInv, CareInv, trans' => trans,
           UNCHANGED <<careful, unsent, pend, rd, th, call, file, stale, broken>>
    PROVE  CareInv'
<1>1. Stays /\ Fewer /\ FileSafe
  BY DEF Stays, At, Fewer, FileSafe
<1>2. \A d \in Callers : CareStill(d)
  BY DEF CareStill
<1>3. careful => Behind'
  BY DEF CareInv, Behind, TypeInv
<1>. QED  BY <1>1, <1>2, <1>3, CareKept

\* Every step keeps CareInv.
LEMMA CareKeeps ==
    ASSUME TypeInv, TypeInv', CallerInv, WayInv, SrvInv, SlotInv, FidInv, CareInv, Next
    PROVE  CareInv'
<1>1. ASSUME NEW c \in Callers, NEW op \in {"open", "stat", "remove"}, StartWalk(c, op)
      PROVE  CareInv'
  <2>. DEFINE f == Lowest({y \in Fids : file[y] = "free"})
  <2>1. f \in Fids /\ file[f] = "free"
    <3>1. f \in {y \in Fids : file[y] = "free"}
      BY <1>1, LowestIn, NpcFsysAssumption DEF StartWalk
    <3>. QED  BY <3>1
  <2>2. /\ th' = [th EXCEPT ![c] = [th[c] EXCEPT !.pc = "check", !.op = op, !.k = "walk", !.n = f, !.fid = f]]
        /\ file' = [file EXCEPT ![f] = "busy"]
        /\ UNCHANGED <<careful, trans, unsent, stale, broken, pend, rd, call>>
    BY <1>1 DEF StartWalk, queue
  <2>. HIDE DEF f
  <2>3. th'[c].k = "walk" /\ \A d \in Callers \ {c} : th'[d] = th[d]
    BY <2>2 DEF TypeInv, CallerType
  <2>4. \A d \in Callers : th'[d].ftags = th[d].ftags /\ th'[d].todo = th[d].todo
    BY <2>2 DEF TypeInv, CallerType
  <2>5. \A d \in Callers : CareStill(d)
    BY <2>3, <2>4 DEF CareStill
  <2>6. FileSafe
    BY <2>1, <2>2 DEF FileSafe, TypeInv
  <2>7. Stays /\ Fewer
    BY <2>2, <2>4 DEF Stays, At, Fewer
  <2>8. careful => Behind'
    BY <2>2 DEF CareInv, Behind
  <2>. QED  BY <2>2, <2>5, <2>6, <2>7, <2>8, CareKept
<1>2. ASSUME NEW c \in Callers, NEW op \in Reads, NEW n \in Fids, StartRead(c, op, n)
      PROVE  CareInv'
  <2>1. /\ UNCHANGED <<careful, trans, unsent, stale, broken, pend, rd, call, file>>
        /\ th'[c].k = "read" /\ th'[c].fid = n /\ file[n] = "open" /\ \A d \in Callers \ {c} : th'[d] = th[d]
    BY <1>2 DEF StartRead, queue, TypeInv, CallerType
  <2>2. \A d \in Callers : th'[d].ftags = th[d].ftags /\ th'[d].todo = th[d].todo
    BY <1>2 DEF StartRead, TypeInv, CallerType
  <2>3. \A d \in Callers : CareStill(d)
    BY <2>1, <2>2 DEF CareStill
  <2>4. FileSafe /\ Stays /\ Fewer
    BY <2>1, <2>2 DEF FileSafe, Stays, At, Fewer
  <2>5. careful => Behind'
    BY <2>1 DEF CareInv, Behind
  <2>. QED  BY <2>1, <2>3, <2>4, <2>5, CareKept
<1>3. ASSUME NEW c \in Callers, NEW n \in Fids, StartClose(c, n)
      PROVE  CareInv'
  <2>1. /\ UNCHANGED <<careful, trans, unsent, stale, broken, pend, rd, call>> /\ ~Asking(n)
        /\ careful => ~Outstanding(n)
        /\ th'[c].pc = "cancel" /\ (\A d \in Callers \ {c} : th'[d] = th[d])
        /\ file' = [file EXCEPT ![n] = "busy"]
    BY <1>3 DEF StartClose, queue, TypeInv, CallerType
  <2>2. \A d \in Callers : th'[d].ftags = th[d].ftags /\ th'[d].todo = th[d].todo
    BY <1>3 DEF StartClose, TypeInv, CallerType
  <2>3. SUFFICES ASSUME careful PROVE NoFlush' /\ (\A d \in Callers : CareOk(th[d])') /\ OpenRead' /\ Behind'
    BY <2>1 DEF CareInv
  <2>4. NoFlush'
    BY <2>1, <2>2, <2>3 DEF NoFlush, At, CareInv
  <2>5. ASSUME NEW d \in Callers PROVE CareOk(th[d])'
    <3>1. CareOk(th[d]) /\ CallerOk(th[d], Parts[d])
      BY <2>3 DEF CareInv, CallerInv
    <3>2. CASE d = c
      BY <2>1, <2>2, <3>1, <3>2 DEF CareOk, Sending
    <3>3. CASE d # c
      <4>1. th[d].pc \in {"check", "queue"} => th[d].fid # n /\ th[d].fid \in Fids
        BY <2>1, <3>1 DEF Asking, CallerOk
      <4>2. th[d].pc \in {"check", "queue"} => file'[th[d].fid] = file[th[d].fid]
        BY <2>1, <4>1 DEF TypeInv
      <4>. QED  BY <2>1, <3>1, <3>3, <4>2 DEF CareOk
    <3>. QED  BY <3>2, <3>3
  <2>6. OpenRead'
    <3>1. \A m \in Fids : Outstanding(m)' => Outstanding(m) /\ m # n
      BY <2>1, <2>3 DEF Outstanding
    <3>. QED  BY <2>1, <2>3, <3>1 DEF CareInv, OpenRead, TypeInv
  <2>7. Behind'
    BY <2>1, <2>3 DEF CareInv, Behind
  <2>. QED  BY <2>4, <2>5, <2>6, <2>7
<1>4. ASSUME NEW c \in Callers, RpcCheck(c)
      PROVE  CareInv'
  <2>0. UNCHANGED <<careful, trans, unsent, stale, broken, pend, rd, call>> /\ th[c].pc = "check" /\ Fewer
    BY <1>4 DEF RpcCheck, queue, Fewer
  <2>1. CASE trans \/ th[c].part > 0
    <3>1. /\ file' = file /\ \A d \in Callers \ {c} : th'[d] = th[d]
          /\ th'[c].k = th[c].k /\ th'[c].fid = th[c].fid
      BY <2>1, <1>4 DEF RpcCheck, TypeInv, CallerType
    <3>2. \A d \in Callers : th'[d].ftags = th[d].ftags /\ th'[d].todo = th[d].todo
      <4>1. PICK l : th' = [th EXCEPT ![c].pc = l]
        BY <2>1, <1>4 DEF RpcCheck
      <4>. QED  BY <4>1 DEF TypeInv, CallerType
    <3>3. \A d \in Callers : CareStill(d)
      BY <2>0, <3>1, <3>2 DEF CareStill
    <3>4. FileSafe /\ Stays
      BY <2>0, <3>1, <3>2 DEF FileSafe, Stays, At
    <3>5. careful => Behind'
      BY <2>0 DEF CareInv, Behind
    <3>. QED  BY <2>0, <3>3, <3>4, <3>5, CareKept
  <2>2. CASE ~trans /\ ~(th[c].part > 0)
    <3>1. th[c].part \in Nat
      BY DEF TypeInv, CallerType
    <3>2. Continue(c, "err") /\ th[c].part = 0
      BY <2>2, <3>1, <1>4 DEF RpcCheck
    <3>3. Continued(c, "err")
      BY <2>0, <3>2, ContinueIs
    <3>. QED  BY <2>0, <3>3, CareContinued
  <2>. QED  BY <2>1, <2>2
<1>5. ASSUME NEW c \in Callers, npc_rpcnb(c)
      PROVE  CareInv'
  <2>1. PICK q \in Requests, s \in Slots : Queued(c, q, s)
    BY <1>5, RpcnbIs
  <2>2. /\ q.m.k = th[c].k /\ q.m.n = th[c].n /\ call'[s].m = q.m /\ unsent' = Append(unsent, q)
        /\ ToSet(unsent') = ToSet(unsent) \cup {q} /\ (\A x \in Slots \ {s} : call'[x] = call[x])
        /\ (\A d \in Callers \ {c} : th'[d] = th[d]) /\ UNCHANGED <<pend, rd>>
        /\ th'[c].todo = th[c].todo
    BY <2>1 DEF Queued, TypeInv
  <2>3. /\ UNCHANGED <<careful, trans, stale, file>> /\ broken' = (stale /\ unsent = <<>>) /\ th[c].pc = "queue"
    BY <1>5 DEF npc_rpcnb, Rpcnb
  <2>4. SUFFICES ASSUME careful PROVE NoFlush' /\ (\A d \in Callers : CareOk(th[d])') /\ OpenRead' /\ Behind'
    BY <2>3 DEF CareInv
  <2>5. th[c] \in CallerType /\ CallerOk(th[c], Parts[c]) /\ CareOk(th[c])
    BY <2>4 DEF TypeInv, CallerInv, CareInv
  <2>6. NoFlush'
    <3>1. \A p \in Places, y \in Requests : At(p, y)' => At(p, y) \/ y = q
      BY <2>2 DEF At
    <3>2. q.m.k # "flush"
      BY <2>2, <2>3, <2>5 DEF CareOk, Sending
    <3>. QED  BY <2>4, <3>1, <3>2 DEF NoFlush, CareInv
  <2>7. ASSUME NEW d \in Callers PROVE CareOk(th[d])'
    <3>1. CASE d # c
      BY <2>2, <2>3, <2>4, <3>1 DEF CareOk, CareInv
    <3>2. CASE th'[c] = IdleCaller
      <4>1. CareOk(th[c])'
        BY <3>2 DEF CareOk, IdleCaller, Sending
      <4>. QED  BY <3>1, <4>1
    <3>3. CASE th'[c] = [th[c] EXCEPT !.pc = "wait"]
      <4>1. th'[c].pc = "wait" /\ th'[c].k = th[c].k /\ th'[c].ftags = th[c].ftags
        BY <2>5, <3>3 DEF CallerType
      <4>2. CareOk(th[c])'
        BY <2>2, <2>3, <2>5, <4>1 DEF CareOk, Sending
      <4>. QED  BY <3>1, <4>2
    <3>4. CASE th'[c] = [th[c] EXCEPT !.pc = "check", !.part = th[c].part + 1]
      <4>1. th'[c].pc = "check" /\ th'[c].k = th[c].k /\ th'[c].ftags = th[c].ftags /\ th'[c].fid = th[c].fid
        BY <2>5, <3>4 DEF CallerType
      <4>2. CareOk(th[c])'
        BY <2>2, <2>3, <2>5, <4>1 DEF CareOk, Sending
      <4>. QED  BY <3>1, <4>2
    <3>. QED  BY <2>1, <3>2, <3>3, <3>4 DEF Queued
  <2>8. ASSUME NEW n \in Fids, Outstanding(n)' PROVE file'[n] = "open"
    <3>1. PICK x \in Slots : call'[x].st = "asked" /\ call'[x].m.k = "read" /\ call'[x].m.n = n
      BY <2>8 DEF Outstanding
    <3>2. CASE x # s
      <4>1. Outstanding(n)
        BY <2>2, <3>1, <3>2 DEF Outstanding
      <4>. QED  BY <2>3, <2>4, <4>1 DEF CareInv, OpenRead
    <3>3. CASE x = s
      <4>1. th[c].k = "read" /\ th[c].n = n
        BY <2>2, <3>1, <3>3
      <4>2. th[c].n = th[c].fid
        BY <2>3, <2>5, <4>1 DEF CallerOk, Sending
      <4>. QED  BY <2>3, <2>5, <4>1, <4>2 DEF CareOk
    <3>. QED  BY <3>2, <3>3
  <2>9. Behind'
    <3>1. unsent' # <<>>
      <4>1. q \in ToSet(unsent') /\ ToSet(<<>>) = {}
        BY <2>2, QueueOf DEF TypeInv
      <4>. QED  BY <4>1
    <3>. QED  BY <2>3, <2>4, <3>1 DEF Behind, CareInv
  <2>. QED  BY <2>6, <2>7, <2>8, <2>9 DEF OpenRead
<1>6. ASSUME NEW c \in Callers, RpcReturn(c)
      PROVE  CareInv'
  <2>0. Continue(c, call[<<c, 0>>].out) /\ th[c].pc = "wait" /\ th[c].part = 0
    <3>1. th[c].part \in Nat /\ CallerOk(th[c], Parts[c])
      BY DEF TypeInv, CallerType, CallerInv
    <3>. QED  BY <3>1, <1>6 DEF RpcReturn, CallerOk
  <2>1. /\ call' = [call EXCEPT ![<<c, 0>>] = Promise!NoCall]
        /\ UNCHANGED <<careful, trans, unsent, stale, broken, pend, rd>>
    BY <1>6 DEF RpcReturn, queue
  <2>2. Fewer
    BY <2>1, CallsOf DEF Fewer, TypeInv
  <2>3. Continued(c, call[<<c, 0>>].out)
    BY <2>0, ContinueIs
  <2>. QED  BY <2>0, <2>1, <2>2, <2>3, CareContinued
<1>7. ASSUME NEW c \in Callers, CancelTake(c)
      PROVE  CareInv'
  <2>1. PICK mine :
             /\ \A q \in mine : q \in ToSet(unsent) \cup pend /\ (FidOf(q.m) = th[c].fid \/ q.m.k = "flush")
             /\ unsent' = Without(unsent, mine)
             /\ broken' = (stale /\ unsent # <<>> /\ unsent[1] \in mine)
             /\ pend' = {IF q \in mine THEN [q EXCEPT !.flushed = TRUE] ELSE q : q \in pend}
             /\ th' = [th EXCEPT ![c].pc = "report", ![c].todo = mine \cap ToSet(unsent),
                                 ![c].ftags = {q.tag : q \in mine \cap pend}]
    BY <1>7 DEF CancelTake
  <2>2. th[c].pc = "cancel" /\ UNCHANGED <<careful, trans, stale, file, rd, call>>
    BY <1>7 DEF CancelTake
  <2>3. CASE ~careful
    BY <2>2, <2>3 DEF CareInv
  <2>4. CASE careful
    <3>1. \A q \in ToSet(unsent) \cup pend : FidOf(q.m) # th[c].fid /\ q.m.k # "flush"
      BY <2>2, <2>4, NothingToCancel
    <3>2. mine = {}
      BY <2>1, <3>1
    <3>3. pend' = pend /\ ~broken'
      BY <2>1, <3>2
    <3>4. unsent \in Seq(Requests) /\ ToSet(unsent') = ToSet(unsent)
      <4>1. unsent \in Seq(Requests)
        BY DEF TypeInv
      <4>2. ToSet(unsent') = ToSet(unsent) \ mine
        BY <2>1, <4>1, WithoutIs
      <4>. QED  BY <3>2, <4>1, <4>2
    <3>5. th \in [Callers -> CallerType] /\ {q.tag : q \in mine \cap pend} = {}
      BY <3>2 DEF TypeInv
    <3>6. th' = [th EXCEPT ![c].pc = "report", ![c].todo = {}, ![c].ftags = {}]
      BY <2>1, <3>2, <3>5
    <3>7. /\ th'[c].todo = {} /\ th'[c].ftags = {} /\ th'[c].pc = "report"
          /\ \A d \in Callers \ {c} : th'[d] = th[d]
      BY <3>5, <3>6 DEF CallerType
    <3>8. \A d \in Callers : CareStill(d)
      BY <3>7 DEF CareStill, Sending
    <3>9. FileSafe /\ Stays /\ Fewer
      BY <2>2, <3>3, <3>4, <3>7 DEF FileSafe, Stays, At, Fewer
    <3>10. Behind'
      <4>1. unsent # <<>> => unsent' # <<>>
        <5>1. ToSet(<<>>) = {} /\ (unsent # <<>> => unsent[1] \in ToSet(unsent))
          BY <3>4, TailOf, QueueOf
        <5>. QED  BY <3>4, <5>1
      <4>. QED  BY <2>2, <2>4, <3>3, <4>1 DEF CareInv, Behind
    <3>. QED  BY <2>2, <3>8, <3>9, <3>10, CareKept
  <2>. QED  BY <2>3, <2>4
<1>8. ASSUME NEW c \in Callers, CancelReport(c)
      PROVE  CareInv'
  <2>1. PICK q \in th[c].todo : TRUE
    BY <1>8 DEF CancelReport
  <2>2. careful' = careful
    BY <1>8 DEF CancelReport
  <2>3. ~careful
    BY <2>1 DEF CareInv, CareOk
  <2>. QED  BY <2>2, <2>3 DEF CareInv
<1>9. ASSUME NEW c \in Callers, CancelFlush(c)
      PROVE  CareInv'
  <2>1. UNCHANGED <<careful, trans, unsent, stale, broken, pend, rd, call, file>>
    BY <1>9 DEF CancelFlush, queue
  <2>2. CASE ~careful
    BY <2>1, <2>2 DEF CareInv
  <2>3. CASE careful
    <3>1. Rpc(c, "clunk", th[c].fid)
      BY <2>3, <1>9 DEF CancelFlush, CareInv, CareOk
    <3>2. th'[c].k = "clunk" /\ \A d \in Callers \ {c} : th'[d] = th[d]
      BY <3>1 DEF Rpc, TypeInv, CallerType
    <3>3. \A d \in Callers : th'[d].ftags = th[d].ftags /\ th'[d].todo = th[d].todo
      BY <3>1 DEF Rpc, TypeInv, CallerType
    <3>4. \A d \in Callers : CareStill(d)
      BY <3>2, <3>3 DEF CareStill
    <3>5. FileSafe /\ Stays /\ Fewer
      BY <2>1, <3>3 DEF FileSafe, Stays, At, Fewer
    <3>6. careful => Behind'
      BY <2>1 DEF CareInv, Behind
    <3>. QED  BY <2>1, <3>4, <3>5, <3>6, CareKept
  <2>. QED  BY <2>2, <2>3
<1>10. ASSUME WriterWait
      PROVE  CareInv'
  <2>1. UNCHANGED <<careful, unsent, pend, rd, th, call, file, stale, broken>> /\ (trans' => trans)
    BY <1>10 DEF WriterWait, queue, DropTrans
  <2>. QED  BY <2>1, CareUntouched
<1>11. ASSUME WriterTake
      PROVE  CareInv'
  <2>1. unsent \in Seq(Requests) /\ unsent # <<>> /\ TakeFirst(Len(unsent) > 1)
    BY <1>11 DEF TypeInv, WriterTake, TakeFirst
  <2>. DEFINE h == unsent[1]
  <2>2. h \in ToSet(unsent) /\ ToSet(unsent') \subseteq ToSet(unsent) /\ Len(unsent) \in Nat
        /\ Len(unsent') = Len(unsent) - 1
    BY <2>1, TailOf DEF TakeFirst
  <2>3. /\ pend' = pend \cup {h} /\ UNCHANGED <<careful, trans, broken, rd, th, call, file>>
        /\ stale' = (Len(unsent) > 1)
    BY <2>1 DEF TakeFirst
  <2>. HIDE DEF h
  <2>4. Stays
    <3>1. ASSUME NEW p \in Places, NEW y \in Requests, At(p, y)' PROVE \E p0 \in Places : At(p0, y)
      <4>1. CASE y = h
        BY <2>2, <4>1 DEF At, Places
      <4>2. CASE y # h
        <5>1. At(p, y)
          BY <2>2, <2>3, <3>1, <4>2 DEF At
        <5>. QED  BY <5>1
      <4>. QED  BY <4>1, <4>2
    <3>. QED  BY <3>1 DEF Stays
  <2>5. Fewer /\ FileSafe /\ \A d \in Callers : CareStill(d)
    BY <2>3 DEF Fewer, FileSafe, CareStill
  <2>6. careful => Behind'
    <3>1. unsent' = <<>> => Len(unsent') = 0
      OBVIOUS
    <3>2. Len(unsent') = 0 => ~stale'
      <4>1. ASSUME Len(unsent') = 0 PROVE ~(Len(unsent) > 1)
        <5>1. PICK n \in Nat : n = Len(unsent)
          BY <2>2
        <5>2. n - 1 = 0
          BY <2>2, <4>1, <5>1
        <5>3. n = 1
          BY <5>2
        <5>. QED  BY <5>1, <5>3
      <4>2. stale' = (Len(unsent) > 1)
        BY <2>3
      <4>. QED  BY <4>1, <4>2, Zenon
    <3>. QED  BY <2>3, <3>1, <3>2 DEF CareInv, Behind
  <2>. QED  BY <2>3, <2>4, <2>5, <2>6, CareKept
<1>12. ASSUME WriterWrite
      PROVE  CareInv'
  <2>1. UNCHANGED <<careful, unsent, pend, rd, th, call, file, stale, broken>> /\ (trans' => trans)
    BY <1>12 DEF WriterWrite, queue, DropTrans
  <2>. QED  BY <2>1, CareUntouched
<1>13. ASSUME NEW x \in srv, ReaderReply(x)
      PROVE  CareInv'
  <2>1. PICK q \in pend, out \in Outs : Replied(x, q, out)
    BY <1>13, ReplyIs
  <2>2. /\ UNCHANGED <<careful, trans, unsent, stale, broken, file, th, call>> /\ pend' = pend \ {q}
        /\ rd'.todo = {q}
    BY <2>1 DEF Replied
  <2>3. Stays
    <3>1. \A y \in pend : At("pend", y) /\ "pend" \in Places
      BY DEF At, Places
    <3>2. ASSUME NEW p \in Places, NEW y \in Requests, At(p, y)' PROVE \E p0 \in Places : At(p0, y)
      <4>1. CASE y = q
        BY <3>1, <4>1
      <4>2. CASE y # q
        <5>1. At(p, y)
          BY <2>2, <3>2, <4>2 DEF At
        <5>. QED  BY <5>1
      <4>. QED  BY <4>1, <4>2
    <3>. QED  BY <3>2 DEF Stays
  <2>4. Fewer /\ FileSafe /\ \A d \in Callers : CareStill(d)
    BY <2>2 DEF Fewer, FileSafe, CareStill
  <2>5. careful => Behind'
    BY <2>2 DEF CareInv, Behind
  <2>. QED  BY <2>2, <2>3, <2>4, <2>5, CareKept
<1>14. ASSUME ReaderCallback
      PROVE  CareInv'
  <2>1. PICK q \in rd.todo : Callback(q.m.s, rd.got, rd.out)
    BY <1>14 DEF ReaderCallback
  <2>2. q \in Requests /\ At("rd", q) /\ "rd" \in Places
    BY <1>14, <2>1 DEF TypeInv, CallerType, ReaderType, At, Places
  <2>3. rd.got \in Messages \cup {None, Error} /\ rd.out \in Outs
    BY DEF TypeInv, ReaderType, Outs
  <2>4. Fewer
    BY <2>1, <2>2, <2>3, CallbackKeeps DEF Fewer
  <2>5. UNCHANGED <<careful, trans, unsent, stale, broken, pend, file, th>> /\ rd'.todo \subseteq rd.todo
    BY <1>14 DEF ReaderCallback, Reading, queue, TypeInv, ReaderType
  <2>6. Stays /\ FileSafe /\ \A d \in Callers : CareStill(d)
    BY <2>5 DEF Stays, At, FileSafe, CareStill
  <2>7. careful => Behind'
    BY <2>5 DEF CareInv, Behind
  <2>. QED  BY <2>4, <2>5, <2>6, <2>7, CareKept
<1>15. ASSUME ReaderDrain
      PROVE  CareInv'
  <2>1. PICK q \in rd.todo : Callback(q.m.s, Error, "err")
    BY <1>15 DEF ReaderDrain
  <2>2. q \in Requests /\ At("rd", q) /\ "rd" \in Places
    BY <1>15, <2>1 DEF TypeInv, CallerType, ReaderType, At, Places
  <2>3. Error \in Messages \cup {None, Error} /\ "err" \in Outs
    BY DEF TypeInv, ReaderType, Outs
  <2>4. Fewer
    BY <2>1, <2>2, <2>3, CallbackKeeps DEF Fewer
  <2>5. UNCHANGED <<careful, trans, unsent, stale, broken, pend, file, th>> /\ rd'.todo \subseteq rd.todo
    BY <1>15 DEF ReaderDrain, Outs, queue, TypeInv, ReaderType
  <2>6. Stays /\ FileSafe /\ \A d \in Callers : CareStill(d)
    BY <2>5 DEF Stays, At, FileSafe, CareStill
  <2>7. careful => Behind'
    BY <2>5 DEF CareInv, Behind
  <2>. QED  BY <2>4, <2>5, <2>6, <2>7, CareKept
<1>16. ASSUME ReaderExit
      PROVE  CareInv'
  <2>1. UNCHANGED <<careful, trans, unsent, stale, broken, pend, file, th, call>> /\ rd'.todo = rd.todo
    BY <1>16 DEF ReaderExit, queue, TypeInv, ReaderType
  <2>2. Stays
    BY <2>1 DEF Stays, At
  <2>3. Fewer /\ FileSafe /\ \A d \in Callers : CareStill(d)
    BY <2>1 DEF Fewer, FileSafe, CareStill
  <2>4. careful => Behind'
    BY <2>1 DEF CareInv, Behind
  <2>. QED  BY <2>1, <2>2, <2>3, <2>4, CareKept
<1>17. ASSUME ReaderEnd
      PROVE  CareInv'
  <2>1. /\ UNCHANGED <<careful, broken, file, th, call>> /\ rd'.todo = ToSet(unsent) \cup pend
        /\ trans' = FALSE /\ unsent' = <<>> /\ pend' = {}
    BY <1>17 DEF ReaderEnd, DropTrans, TypeInv, ReaderType
  <2>2. Stays
    <3>1. ToSet(<<>>) = {}
      BY QueueOf DEF TypeInv
    <3>. QED  BY <2>1, <3>1 DEF Stays, At, Places
  <2>3. Fewer /\ FileSafe /\ \A d \in Callers : CareStill(d)
    BY <2>1 DEF Fewer, FileSafe, CareStill
  <2>4. careful => Behind'
    BY <2>1 DEF CareInv, Behind
  <2>. QED  BY <2>1, <2>2, <2>3, <2>4, CareKept
<1>18. ASSUME Disconnect
      PROVE  CareInv'
  <2>1. UNCHANGED <<careful, unsent, pend, rd, th, call, file, stale, broken>> /\ (trans' => trans)
    BY <1>18 DEF Disconnect, queue, DropTrans
  <2>. QED  BY <2>1, CareUntouched
<1>19. ASSUME DisconnectWake
      PROVE  CareInv'
  <2>1. UNCHANGED <<careful, unsent, pend, rd, th, call, file, stale, broken>> /\ (trans' => trans)
    BY <1>19 DEF DisconnectWake, queue, DropTrans
  <2>. QED  BY <2>1, CareUntouched
<1>. QED
  BY <1>1, <1>2, <1>3, <1>4, <1>5, <1>6, <1>7, <1>8, <1>9, <1>10, <1>11, <1>12, 
     <1>13, <1>14, <1>15, <1>16, <1>17, <1>18, <1>19
     DEF Next, Start, Run, Writer, ReaderStep, npc_read, npc_readnb, npc_write, npc_writenb, Reads

\* Every step is one of the promise, or leaves the calls alone.
LEMMA PromiseStep ==
    ASSUME TypeInv, CallerInv, WayInv, SrvInv, SlotInv, Next
    PROVE  Promise!Next \/ call' = call
<1>1. ASSUME NEW c \in Callers, NEW op \in {"open", "stat", "remove"}, StartWalk(c, op)
      PROVE  Promise!Next \/ call' = call
  <2>1. call' = call
    BY <1>1 DEF StartWalk
  <2>. QED  BY <2>1
<1>2. ASSUME NEW c \in Callers, NEW op \in Reads, NEW n \in Fids, StartRead(c, op, n)
      PROVE  Promise!Next \/ call' = call
  <2>1. call' = call
    BY <1>2 DEF StartRead
  <2>. QED  BY <2>1
<1>3. ASSUME NEW c \in Callers, NEW n \in Fids, StartClose(c, n)
      PROVE  Promise!Next \/ call' = call
  <2>1. call' = call
    BY <1>3 DEF StartClose
  <2>. QED  BY <2>1
<1>4. ASSUME NEW c \in Callers, RpcCheck(c)
      PROVE  Promise!Next \/ call' = call
  <2>1. call' = call
    BY <1>4 DEF RpcCheck
  <2>. QED  BY <2>1
<1>5. ASSUME NEW c \in Callers, npc_rpcnb(c)
      PROVE  Promise!Next \/ call' = call
  <2>1. PICK q \in Requests, s \in Slots : Queued(c, q, s)
    BY <1>5, RpcnbIs
  <2>2. call[s].st = "idle"
    BY <1>5, <2>1, QueuedIdle
  <2>3. Promise!Ask(s)
    BY <2>1, <2>2, RequestIs DEF Queued, Promise!Ask
  <2>. QED  BY <2>3 DEF Promise!Next
<1>6. ASSUME NEW c \in Callers, RpcReturn(c)
      PROVE  Promise!Next \/ call' = call
  <2>1. /\ call' = [call EXCEPT ![<<c, 0>>] = Promise!NoCall] /\ <<c, 0>> \in Slots
        /\ call[<<c, 0>>].st = "answered"
    BY <1>6, SlotsOf DEF RpcReturn
  <2>2. {<<c, 0>>} \in Groups
    <3>. DEFINE S == {<<c, 0>>}
    <3>1. S \in {{<<c, 0>>}, {c} \X (1 .. Parts[c])} /\ S # {}
      OBVIOUS
    <3>. HIDE DEF S
    <3>2. S \in Groups
      BY <3>1 DEF Groups
    <3>. QED  BY <3>2 DEF S
  <2>3. call' = [x \in Slots |-> IF x \in {<<c, 0>>} THEN Promise!NoCall ELSE call[x]]
    BY <2>1 DEF TypeInv
  <2>4. Promise!Take({<<c, 0>>})
    BY <2>1, <2>3 DEF Promise!Take
  <2>. QED  BY <2>2, <2>4 DEF Promise!Next
<1>7. ASSUME NEW c \in Callers, CancelTake(c)
      PROVE  Promise!Next \/ call' = call
  <2>1. call' = call
    BY <1>7 DEF CancelTake
  <2>. QED  BY <2>1
<1>8. ASSUME NEW c \in Callers, CancelReport(c)
      PROVE  Promise!Next \/ call' = call
  <2>1. PICK q \in th[c].todo : Callback(q.m.s, Error, "err") /\ th' = [th EXCEPT ![c].todo = @ \ {q}]
    BY <1>8 DEF CancelReport
  <2>2. q \in Requests /\ At("todo", q) /\ "todo" \in Places
    BY <1>8, <2>1 DEF TypeInv, CallerType, ReaderType, At, Places
  <2>3. q.m.s \in Slots /\ call[q.m.s].st = "asked" /\ call[q.m.s].m = q.m /\ q.m \in Messages
    BY <2>2, RequestIs DEF WayInv, AskedInv
  <2>4. /\ Error \in Messages \cup {None, Error} /\ "err" \in Outs
        /\ Error \in {call[q.m.s].m, Error} /\ (Error = Error => "err" = "err")
    BY DEF Outs
  <2>5. Promise!Answer(q.m.s) \/ \E S \in Groups : Promise!Take(S)
    BY <2>1, <2>3, <2>4, CallbackIs
  <2>. QED  BY <2>3, <2>5 DEF Promise!Next
<1>9. ASSUME NEW c \in Callers, CancelFlush(c)
      PROVE  Promise!Next \/ call' = call
  <2>1. call' = call
    BY <1>9 DEF CancelFlush
  <2>. QED  BY <2>1
<1>10. ASSUME WriterWait
      PROVE  Promise!Next \/ call' = call
  <2>1. call' = call
    BY <1>10 DEF WriterWait
  <2>. QED  BY <2>1
<1>11. ASSUME WriterTake
      PROVE  Promise!Next \/ call' = call
  <2>1. call' = call
    BY <1>11 DEF WriterTake, TakeFirst
  <2>. QED  BY <2>1
<1>12. ASSUME WriterWrite
      PROVE  Promise!Next \/ call' = call
  <2>1. call' = call
    BY <1>12 DEF WriterWrite
  <2>. QED  BY <2>1
<1>13. ASSUME NEW x \in srv, ReaderReply(x)
      PROVE  Promise!Next \/ call' = call
  <2>1. call' = call
    BY <1>13 DEF ReaderReply, Reply
  <2>. QED  BY <2>1
<1>14. ASSUME ReaderCallback
      PROVE  Promise!Next \/ call' = call
  <2>1. PICK q \in rd.todo : Callback(q.m.s, rd.got, rd.out)
    BY <1>14 DEF ReaderCallback
  <2>2. q \in Requests /\ At("rd", q) /\ "rd" \in Places
    BY <1>14, <2>1 DEF TypeInv, CallerType, ReaderType, At, Places
  <2>3. q.m.s \in Slots /\ call[q.m.s].st = "asked" /\ call[q.m.s].m = q.m /\ q.m \in Messages
    BY <2>2, RequestIs DEF WayInv, AskedInv
  <2>4. /\ rd.got \in Messages \cup {None, Error} /\ rd.out \in Outs
        /\ rd.got \in {call[q.m.s].m, Error} /\ (rd.got = Error => rd.out = "err")
    BY <1>14, <2>1, <2>3, NpcFsysAssumption DEF ReaderCallback, SrvInv, TypeInv, ReaderType
  <2>5. Promise!Answer(q.m.s) \/ \E S \in Groups : Promise!Take(S)
    BY <2>1, <2>3, <2>4, CallbackIs
  <2>. QED  BY <2>3, <2>5 DEF Promise!Next
<1>15. ASSUME ReaderDrain
      PROVE  Promise!Next \/ call' = call
  <2>1. PICK q \in rd.todo : Callback(q.m.s, Error, "err")
    BY <1>15 DEF ReaderDrain
  <2>2. q \in Requests /\ At("rd", q) /\ "rd" \in Places
    BY <1>15, <2>1 DEF TypeInv, CallerType, ReaderType, At, Places
  <2>3. q.m.s \in Slots /\ call[q.m.s].st = "asked" /\ call[q.m.s].m = q.m /\ q.m \in Messages
    BY <2>2, RequestIs DEF WayInv, AskedInv
  <2>4. /\ Error \in Messages \cup {None, Error} /\ "err" \in Outs
        /\ Error \in {call[q.m.s].m, Error} /\ (Error = Error => "err" = "err")
    BY DEF Outs
  <2>5. Promise!Answer(q.m.s) \/ \E S \in Groups : Promise!Take(S)
    BY <2>1, <2>3, <2>4, CallbackIs
  <2>. QED  BY <2>3, <2>5 DEF Promise!Next
<1>16. ASSUME ReaderExit
      PROVE  Promise!Next \/ call' = call
  <2>1. call' = call
    BY <1>16 DEF ReaderExit
  <2>. QED  BY <2>1
<1>17. ASSUME ReaderEnd
      PROVE  Promise!Next \/ call' = call
  <2>1. call' = call
    BY <1>17 DEF ReaderEnd
  <2>. QED  BY <2>1
<1>18. ASSUME Disconnect
      PROVE  Promise!Next \/ call' = call
  <2>1. call' = call
    BY <1>18 DEF Disconnect
  <2>. QED  BY <2>1
<1>19. ASSUME DisconnectWake
      PROVE  Promise!Next \/ call' = call
  <2>1. call' = call
    BY <1>19 DEF DisconnectWake
  <2>. QED  BY <2>1
<1>. QED
  BY <1>1, <1>2, <1>3, <1>4, <1>5, <1>6, <1>7, <1>8, <1>9, <1>10, <1>11, <1>12, 
     <1>13, <1>14, <1>15, <1>16, <1>17, <1>18, <1>19
     DEF Next, Start, Run, Writer, ReaderStep, npc_read, npc_readnb, npc_write, npc_writenb, Reads

\* The invariant of the client.
ClientInv == TypeInv /\ CallerInv /\ WayInv /\ SrvInv /\ SlotInv /\ FidInv /\ CareInv

\* It holds when npc_create_fsys returns.
LEMMA InitInv == Init => ClientInv
<1>. SUFFICES ASSUME Init PROVE ClientInv
  OBVIOUS
<1>1. /\ unsent = <<>> /\ ToSet(unsent) = {} /\ pend = {} /\ rd.todo = {} /\ rd.pc = "read" /\ srv = {} /\ sfids = {}
      /\ \A c \in Callers : th[c] = IdleCaller
      /\ \A s \in Slots : call[s] = Promise!NoCall
  <2>1. unsent = <<>> /\ unsent \in Seq({}) /\ DOMAIN unsent = {}
    BY DEF Init
  <2>2. ToSet(unsent) = {}
    BY <2>1, QueueOf
  <2>. QED  BY <2>1, <2>2 DEF Init, Reading
<1>2. TypeInv
  <2>1. IdleCaller \in CallerType /\ Reading \in ReaderType /\ [pc |-> "loop", q |-> None] \in WriterType
    BY DEF IdleCaller, CallerType, Reading, ReaderType, WriterType, Ops, Kinds, Outs
  <2>2. /\ th \in [Callers -> CallerType] /\ rd \in ReaderType /\ wr \in WriterType
        /\ unsent \in Seq(Requests) /\ call \in [Slots -> Promise!Calls]
    BY <2>1, CallsOf DEF Init
  <2>3. file \in [Fids -> {"free", "busy", "open", "lost"}]
    BY DEF Init
  <2>. QED  BY <2>2, <2>3 DEF Init, TypeInv
<1>3. CallerInv
  <2>1. ASSUME NEW c \in Callers PROVE CallerOk(IdleCaller, Parts[c])
    <3>1. Parts[c] \in Nat
      BY SlotsOf
    <3>. QED  BY <3>1 DEF CallerOk, IdleCaller, Sending
  <2>. QED  BY <1>1, <2>1 DEF CallerInv
<1>4. \A p \in Places, q \in Requests : ~At(p, q)
  BY <1>1 DEF At, IdleCaller
<1>5. WayInv
  <2>1. DOMAIN unsent = {} /\ \A c \in Callers : th[c].todo = {}
    BY <1>1 DEF IdleCaller
  <2>. QED  BY <1>4, <2>1 DEF WayInv, AskedInv, OnePlace, TagInv
<1>6. SrvInv
  BY <1>1 DEF SrvInv, Init
<1>7. SlotInv
  <2>1. ASSUME NEW c \in Callers PROVE SlotOk(c)
    <3>1. call[<<c, 0>>].st = "idle" /\ \A i \in 1 .. Parts[c] : call[<<c, i>>].st = "idle"
      <4>1. \A i \in 1 .. Parts[c] : i \in Nat /\ i <= Parts[c]
        BY SlotsOf
      <4>. QED  BY <1>1, <4>1, SlotsOf, CallsOf
    <3>. QED  BY <3>1 DEF SlotOk
  <2>. QED  BY <2>1 DEF SlotInv
<1>8. FidInv
  BY <1>1 DEF FidInv, OwnerInv, Owner, Agreed, Agreeing, IdleCaller
<1>9. CareInv
  <2>1. \A n \in Fids : ~Outstanding(n)
    BY <1>1, CallsOf DEF Outstanding
  <2>2. \A c \in Callers : CareOk(th[c])
    BY <1>1 DEF CareOk, IdleCaller, Sending
  <2>. QED  BY <1>4, <2>1, <2>2 DEF CareInv, NoFlush, OpenRead, Behind, Init
<1>. QED  BY <1>2, <1>3, <1>5, <1>6, <1>7, <1>8, <1>9 DEF ClientInv

\* Every step keeps it.
LEMMA StepInv == ClientInv /\ [Next]_vars => ClientInv'
<1>. SUFFICES ASSUME ClientInv, [Next]_vars PROVE ClientInv'
  OBVIOUS
<1>. USE DEF ClientInv
<1>1. CASE Next
  <2>1. TypeInv' /\ CallerInv'
    BY <1>1, TypeKeeps
  <2>2. WayInv'
    BY <1>1, <2>1, WayKeeps
  <2>3. SrvInv'
    BY <1>1, SrvKeeps
  <2>4. SlotInv'
    BY <1>1, <2>1, SlotKeeps
  <2>5. FidInv'
    BY <1>1, FidKeeps
  <2>6. CareInv'
    BY <1>1, <2>1, CareKeeps
  <2>. QED  BY <2>1, <2>2, <2>3, <2>4, <2>5, <2>6
<1>2. CASE UNCHANGED vars
  <2>1. UNCHANGED <<careful, trans, unsent, stale, broken, pend, tags, file, th, call, rd, wr, srv, sfids>>
    BY <1>2 DEF vars, queue, server
  <2>2. TypeInv' /\ CallerInv'
    BY <2>1 DEF TypeInv, CallerInv
  <2>3. WayInv'
    BY <2>1, <2>2, WayKept
  <2>4. SrvInv'
    BY <2>1, SrvKept
  <2>5. SlotInv'
    BY <2>1 DEF SlotInv, SlotOk
  <2>6. FidInv'
    <3>1. FidLess
      BY <2>1 DEF FidLess, Owner, Agreed, Agreeing
    <3>. QED  BY <3>1, FidKept
  <2>7. CareInv'
    BY <2>1, <2>2, CareUntouched
  <2>. QED  BY <2>2, <2>3, <2>4, <2>5, <2>6, <2>7
<1>. QED  BY <1>1, <1>2

\* The client's invariant holds in every state.
LEMMA ClientInvAlways == Spec => []ClientInv
BY InitInv, StepInv, PTL DEF Spec

----------------------------------------------------------------------------
(* The properties *)

(***************************************************************************)
(* The client of fsys.c keeps its promise, for any number of callers, tags *)
(* and fids: the callback of a request is called at most once, for the     *)
(* call that made it, and with the reply to its own message or an error.   *)
(* That needs no care of the callers: neither closing a fid others use nor *)
(* losing the connection makes an answer go astray.                        *)
(***************************************************************************)
THEOREM PromiseRefined == Spec => PromiseKept
<1>1. Init => Promise!Init
  BY DEF Init, Promise!Init
<1>2. ClientInv /\ [Next]_vars => [Promise!Next]_call
  <2>. SUFFICES ASSUME ClientInv, [Next]_vars PROVE Promise!Next \/ call' = call
    OBVIOUS
  <2>1. CASE Next
    BY <2>1, PromiseStep DEF ClientInv
  <2>2. CASE UNCHANGED vars
    BY <2>2 DEF vars
  <2>. QED  BY <2>1, <2>2
<1>. QED  BY <1>1, <1>2, ClientInvAlways, PTL DEF Spec, PromiseKept, Promise!Spec

(***************************************************************************)
(* The queues, the tag and fid pools and the calls have the types of       *)
(* TypeOK after every section of fsys.c.                                   *)
(***************************************************************************)
THEOREM TypeCorrect == Spec => []TypeOK
<1>1. ClientInv => TypeOK
  <2>. SUFFICES ASSUME TypeInv, CallerInv PROVE TypeOK
    BY DEF ClientInv
  <2>1. ASSUME NEW c \in Callers PROVE [th[c] EXCEPT !.todo = {}] \in Caller
    <3>1. th[c] \in CallerType /\ th[c].part \in Nat /\ th[c].part <= Parts[c]
      BY DEF TypeInv, CallerInv, CallerOk, CallerType
    <3>2. <<c, th[c].part>> \in Slots
      BY <3>1, SlotsOf
    <3>3. th[c].part \in {s[2] : s \in Slots}
      BY <3>2
    <3>. QED  BY <3>1, <3>3 DEF CallerType, Caller
  <2>2. \A c \in Callers : th[c].todo \subseteq Requests
    BY DEF TypeInv, CallerType
  <2>3. ToSet(unsent) \cup pend \subseteq Requests
    BY QueueOf DEF TypeInv
  <2>. QED  BY <2>1, <2>2, <2>3 DEF TypeInv, TypeOK, ReaderType, WriterType
<1>. QED  BY <1>1, ClientInvAlways, PTL

(***************************************************************************)
(* npc_get_id and npc_put_id: the tags of the requests on their way are in *)
(* use and differ, at the server too, whatever is lost or cancelled.       *)
(***************************************************************************)
THEOREM TagsApartAlways == Spec => []TagsApart
<1>1. ClientInv => TagsApart
  <2>. SUFFICES ASSUME TypeInv, WayInv, SrvInv PROVE TagsApart
    BY DEF ClientInv
  <2>1. ASSUME NEW x \in ToSet(unsent) \cup pend
        PROVE  x \in Requests /\ \E p \in {"unsent", "pend"} : p \in Places /\ At(p, x) /\ Tagged(p)
    BY QueueOf DEF TypeInv, At, Places, Tagged
  <2>2. ASSUME NEW x \in ToSet(unsent) \cup pend \cup srv
        PROVE  \E y \in ToSet(unsent) \cup pend : y.tag = x.tag /\ y.m = x.m
    BY DEF SrvInv, Pending
  <2>3. \A x \in ToSet(unsent) \cup pend : x.tag \in tags
    BY <2>1 DEF WayInv, TagInv
  <2>4. \A x, y \in ToSet(unsent) \cup pend : x.tag = y.tag => x = y
    BY <2>1 DEF WayInv, TagInv
  <2>5. \A x \in ToSet(unsent) \cup pend \cup srv : x.tag \in tags
    BY <2>2, <2>3
  <2>6. ASSUME NEW x \in ToSet(unsent) \cup pend \cup srv, NEW y \in ToSet(unsent) \cup pend \cup srv,
               x.tag = y.tag
        PROVE  x.m = y.m
    <3>1. PICK x0 \in ToSet(unsent) \cup pend : x0.tag = x.tag /\ x0.m = x.m
      BY <2>2
    <3>2. PICK y0 \in ToSet(unsent) \cup pend : y0.tag = y.tag /\ y0.m = y.m
      BY <2>2
    <3>. QED  BY <2>4, <2>6, <3>1, <3>2
  <2>. QED  BY <2>5, <2>6 DEF TagsApart
<1>. QED  BY <1>1, ClientInvAlways, PTL

(***************************************************************************)
(* npc_fid_free after the Rclunk: a number npc_fid_alloc may hand out      *)
(* again is one the server does not know and is not about to learn.        *)
(***************************************************************************)
THEOREM FreeIdUnusedAlways == Spec => []FreeIdUnused
<1>1. ClientInv => FreeIdUnused
  <2>. SUFFICES ASSUME ClientInv, NEW n \in Fids, file[n] = "free"
                PROVE  /\ n \notin sfids
                       /\ \A q \in ToSet(unsent) \cup pend \cup srv : q.m.k = "walk" => q.m.n # n
    BY DEF FreeIdUnused
  <2>0. TypeInv /\ CallerInv /\ WayInv /\ SrvInv /\ SlotInv /\ FidInv
    BY DEF ClientInv
  <2>1. n \notin sfids
    BY <2>0 DEF FidInv
  <2>2. ASSUME NEW q \in ToSet(unsent) \cup pend, q.m.k = "walk" PROVE q.m.n # n
    <3>1. q \in Requests /\ \E p \in Places : At(p, q)
      BY <2>0, QueueOf DEF TypeInv, At, Places
    <3>2. PICK c \in Callers : Sender(q, c)
      BY <2>0, <2>2, <3>1, SentBy
    <3>3. Owner(c) /\ q.m.n = th[c].fid
      BY <2>2, <3>2 DEF Sender
    <3>. QED  BY <2>0, <3>3 DEF FidInv, OwnerInv
  <2>3. ASSUME NEW x \in srv, x.m.k = "walk" PROVE x.m.n # n
    <3>1. PICK q \in pend : q.m = x.m
      BY <2>0 DEF SrvInv, Pending
    <3>. QED  BY <2>2, <2>3, <3>1
  <2>. QED  BY <2>1, <2>2, <2>3
<1>. QED  BY <1>1, ClientInvAlways, PTL

(***************************************************************************)
(* With callers that close fids only when nothing is outstanding on them,  *)
(* npc_rpcnb and npc_cancel_fid_requests write through no pointer that     *)
(* npc_write_proc left behind, as long as the connection lives.            *)
(***************************************************************************)
THEOREM QueueSoundAlways == Spec => []QueueSound
<1>1. ClientInv => QueueSound
  BY DEF ClientInv, CareInv, Behind, QueueSound
<1>. QED  BY <1>1, ClientInvAlways, PTL
=============================================================================
