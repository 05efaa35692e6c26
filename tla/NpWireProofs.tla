----------------------------- MODULE NpWireProofs -----------------------------
(***************************************************************************)
(* The invariants of NpWire, proved for buffers, strings, walks and data   *)
(* of any length, for any number of messages, cut into pieces in any way.  *)
(***************************************************************************)
EXTENDS NpWire, NpSeqs, FiniteSetTheorems

----------------------------------------------------------------------------
(* Fields are put one after the other *)

\* The function that buf_put_all defines.
PutFold(b, s, m, c) == c = [k \in 0..m |-> IF k = 0 THEN b ELSE buf_put(c[k - 1], s[k])]

\* c is what buf_put_all goes through.
PutRun(b, s, c) == c[0] = b /\ \A k \in 1..Len(s) : c[k] = buf_put(c[k - 1], s[k])

\* There is such a function.
LEMMA PutExists ==
    ASSUME NEW b, NEW s, NEW m \in Nat
    PROVE  \E c : PutFold(b, s, m, c)
<1>. DEFINE F(c, n) == [k \in 0..n |-> IF k = 0 THEN b ELSE buf_put(c[k - 1], s[k])]
            T == {n \in 0..m : ~\E c : c = F(c, n)}
<1>1. SUFFICES ASSUME T # {} PROVE FALSE
  <2>. HIDE DEF F
  <2>1. m \in 0..m
    OBVIOUS
  <2>2. \E c : c = F(c, m)
    BY <2>1
  <2>. QED  BY <2>2 DEF F, PutFold
<1>0. T \subseteq Nat
  OBVIOUS
<1>. HIDE DEF T
<1>2. PICK n \in T : \A j \in T : n <= j
  BY <1>0, <1>1, LeastNat
<1>. USE DEF T
<1>. HIDE DEF F
<1>3. CASE n = 0
  <2>. DEFINE c == [k \in 0..0 |-> b]
  <2>1. F(c, 0) = c
    <3>1. \A k \in 0..0 : k = 0
      OBVIOUS
    <3>. QED  BY <3>1 DEF F
  <2>. QED  BY <1>2, <1>3, <2>1
<1>4. CASE n # 0
  <2>1. n - 1 \in 0..m /\ n - 1 \notin T /\ n \in 1..m /\ n \in Nat
    BY <1>2, <1>4
  <2>2. PICK d : d = F(d, n - 1)
    BY <2>1
  <2>. DEFINE c == [k \in 0..n |-> IF k = n THEN buf_put(d[n - 1], s[n]) ELSE d[k]]
  <2>3. ASSUME NEW k \in 0..n PROVE c[k] = IF k = 0 THEN b ELSE buf_put(c[k - 1], s[k])
    <3>1. CASE k = n
      <4>1. n - 1 \in 0..n /\ n - 1 # n /\ k # 0
        BY <1>4, <2>1, <3>1
      <4>2. c[n - 1] = d[n - 1]
        BY <4>1
      <4>. QED  BY <3>1, <4>1, <4>2
    <3>2. CASE k # n
      <4>1. k \in 0..(n - 1) /\ (k # 0 => k - 1 \in 0..n /\ k - 1 # n)
        BY <2>1, <3>2
      <4>2. d[k] = IF k = 0 THEN b ELSE buf_put(d[k - 1], s[k])
        <5>. DEFINE G(e) == [j \in 0..(n - 1) |-> IF j = 0 THEN b ELSE buf_put(e[j - 1], s[j])]
        <5>1. d = G(d)
          BY <2>2 DEF F
        <5>2. G(d)[k] = IF k = 0 THEN b ELSE buf_put(d[k - 1], s[k])
          BY <4>1
        <5>. HIDE DEF G
        <5>. QED  BY <5>1, <5>2
      <4>3. c[k] = d[k] /\ (k # 0 => c[k - 1] = d[k - 1])
        BY <3>2, <4>1
      <4>. QED  BY <4>2, <4>3
    <3>. QED  BY <3>1, <3>2
  <2>4. c = [k \in 0..n |-> c[k]]
    OBVIOUS
  <2>. HIDE DEF c
  <2>5. c = F(c, n)
    BY <2>3, <2>4 DEF F
  <2>. QED  BY <1>2, <2>5
<1>. QED  BY <1>3, <1>4

\* buf_put_all goes through it.
LEMMA PutRuns ==
    ASSUME NEW b, NEW s, Len(s) \in Nat
    PROVE  \E c : PutRun(b, s, c) /\ buf_put_all(b, s) = c[Len(s)]
<1>. DEFINE n == Len(s)
            F(c) == [k \in 0..n |-> IF k = 0 THEN b ELSE buf_put(c[k - 1], s[k])]
            d == CHOOSE c : c = F(c)
<1>1. \E c : c = F(c)
  <2>1. PICK c : PutFold(b, s, n, c)
    BY PutExists
  <2>2. c = F(c)
    BY <2>1 DEF PutFold
  <2>. HIDE DEF F
  <2>. QED  BY <2>2
<1>2. buf_put_all(b, s) = d[n]
  BY DEF buf_put_all
<1>3. d = F(d)
  <2>. HIDE DEF F
  <2>. QED  BY <1>1
<1>4. 0 \in 0..n /\ \A k \in 1..n : k \in 0..n /\ k # 0
  OBVIOUS
<1>. HIDE DEF d
<1>5. ASSUME NEW k \in 0..n PROVE d[k] = IF k = 0 THEN b ELSE buf_put(d[k - 1], s[k])
  <2>1. F(d)[k] = IF k = 0 THEN b ELSE buf_put(d[k - 1], s[k])
    OBVIOUS
  <2>. HIDE DEF F
  <2>. QED  BY <1>3, <2>1
<1>. HIDE DEF F
<1>6. d[0] = b
  BY <1>4, <1>5
<1>7. ASSUME NEW k \in 1..n PROVE d[k] = buf_put(d[k - 1], s[k])
  BY <1>4, <1>5
<1>8. PutRun(b, s, d)
  BY <1>6, <1>7 DEF PutRun
<1>. QED  BY <1>2, <1>8

\* It is the only one.
LEMMA PutOnly ==
    ASSUME NEW b, NEW s, Len(s) \in Nat, NEW c, PutRun(b, s, c)
    PROVE  buf_put_all(b, s) = c[Len(s)]
<1>1. PICK d : PutRun(b, s, d) /\ buf_put_all(b, s) = d[Len(s)]
  BY PutRuns
<1>. DEFINE T == {k \in 0..Len(s) : d[k] # c[k]}
<1>2. ASSUME T # {} PROVE FALSE
  <2>0. T \subseteq Nat
    OBVIOUS
  <2>. HIDE DEF T
  <2>1. PICK k \in T : \A j \in T : k <= j
    BY <1>2, <2>0, LeastNat
  <2>. USE DEF T
  <2>2. k # 0
    BY <1>1 DEF PutRun
  <2>3. k \in 1..Len(s) /\ k - 1 \in 0..Len(s) /\ ~(k <= k - 1)
    BY <2>2
  <2>4. d[k - 1] = c[k - 1]
    BY <2>1, <2>3
  <2>5. d[k] = buf_put(d[k - 1], s[k]) /\ c[k] = buf_put(c[k - 1], s[k])
    BY <1>1, <2>3 DEF PutRun
  <2>. QED  BY <2>4, <2>5
<1>3. Len(s) \in 0..Len(s)
  OBVIOUS
<1>. QED  BY <1>1, <1>2, <1>3

\* One field, or none.
LEMMA PutOne ==
    ASSUME NEW b, NEW e
    PROVE  buf_put_all(b, <<>>) = b /\ buf_put_all(b, <<e>>) = buf_put(b, e)
<1>1. Len(<<>>) = 0 /\ Len(<<e>>) = 1 /\ 0 \in Nat /\ 1 \in Nat /\ <<e>>[1] = e /\ 1..1 = {1} /\ 1..0 = {}
  OBVIOUS
<1>. DEFINE z == <<>>
            o == <<e>>
<1>. HIDE DEF z, o
<1>2. PICK c : PutRun(b, z, c) /\ buf_put_all(b, z) = c[Len(z)]
  BY <1>1, PutRuns DEF z
<1>3. PICK d : PutRun(b, o, d) /\ buf_put_all(b, o) = d[Len(o)]
  BY <1>1, PutRuns DEF o
<1>4. buf_put_all(b, z) = b
  BY <1>1, <1>2 DEF PutRun, z
<1>5. d[0] = b /\ d[1] = buf_put(d[1 - 1], o[1])
  BY <1>1, <1>3 DEF PutRun, o
<1>6. 1 - 1 = 0 /\ o[1] = e /\ Len(o) = 1
  BY <1>1 DEF o
<1>7. buf_put_all(b, o) = buf_put(b, e)
  BY <1>3, <1>5, <1>6
<1>. QED  BY <1>4, <1>7 DEF z, o

\* Some fields and then some more.
LEMMA PutConcat ==
    ASSUME NEW b, NEW S, NEW s \in Seq(S), NEW t \in Seq(S)
    PROVE  buf_put_all(b, s \o t) = buf_put_all(buf_put_all(b, s), t)
<1>. DEFINE n == Len(s)
            m == Len(t)
<1>1. n \in Nat /\ m \in Nat /\ Len(s \o t) = n + m /\ n + m \in Nat
  OBVIOUS
<1>2. \A k \in 1..(n + m) : (s \o t)[k] = IF k <= n THEN s[k] ELSE t[k - n]
  BY ConcatProperties
<1>3. PICK c : PutRun(b, s, c) /\ buf_put_all(b, s) = c[n]
  BY <1>1, PutRuns
<1>4. PICK d : PutRun(c[n], t, d) /\ buf_put_all(c[n], t) = d[m]
  BY <1>1, PutRuns
<1>. DEFINE e == [k \in 0..(n + m) |-> IF k <= n THEN c[k] ELSE d[k - n]]
<1>5. e[0] = b
  BY <1>1, <1>3 DEF PutRun
<1>6. d[0] = c[n]
  BY <1>4 DEF PutRun
<1>. HIDE DEF n, m
<1>7. ASSUME NEW k \in 1..(n + m) PROVE e[k] = buf_put(e[k - 1], (s \o t)[k])
  <2>0. k \in 0..(n + m) /\ k - 1 \in 0..(n + m)
    BY <1>1
  <2>1. CASE k <= n
    <3>1. k \in 1..n /\ k - 1 <= n
      BY <1>1, <2>1
    <3>2. e[k] = c[k] /\ e[k - 1] = c[k - 1] /\ (s \o t)[k] = s[k]
      BY <1>2, <2>0, <2>1, <3>1
    <3>3. c[k] = buf_put(c[k - 1], s[k])
      BY <1>3, <3>1 DEF PutRun, n
    <3>. QED  BY <3>2, <3>3
  <2>2. CASE ~(k <= n)
    <3>1. k - n \in 1..m /\ (k - n) - 1 = (k - 1) - n
      BY <1>1, <2>2
    <3>2. e[k] = d[k - n] /\ (s \o t)[k] = t[k - n]
      BY <1>2, <2>0, <2>2
    <3>3. e[k - 1] = d[(k - n) - 1]
      <4>1. CASE k - 1 <= n
        <5>1. k - 1 = n /\ (k - n) - 1 = 0
          BY <1>1, <2>2, <4>1
        <5>. QED  BY <1>6, <2>0, <4>1, <5>1
      <4>2. CASE ~(k - 1 <= n)
        BY <2>0, <3>1, <4>2
      <4>. QED  BY <4>1, <4>2
    <3>4. d[k - n] = buf_put(d[(k - n) - 1], t[k - n])
      BY <1>4, <3>1 DEF PutRun, m
    <3>. QED  BY <3>2, <3>3, <3>4
  <2>. QED  BY <2>1, <2>2
<1>8. e[n + m] = d[m]
  <2>1. n + m \in 0..(n + m) /\ (n + m) - n = m
    BY <1>1
  <2>2. CASE m = 0
    BY <1>1, <1>6, <2>1, <2>2
  <2>3. CASE m # 0
    BY <1>1, <2>1, <2>3
  <2>. QED  BY <2>2, <2>3
<1>. HIDE DEF e
<1>9. PutRun(b, s \o t, e)
  BY <1>1, <1>5, <1>7 DEF PutRun
<1>10. buf_put_all(b, s \o t) = e[n + m]
  BY <1>1, <1>9, PutOnly
<1>. QED  BY <1>3, <1>4, <1>8, <1>10

----------------------------------------------------------------------------
(* Fields are got one after the other *)

\* The function that buf_get_all defines.
GetFold(r, s, m, c) == c = [k \in 0..m |-> IF k = 0 THEN r ELSE Get1(c[k - 1], s[k])]

\* c is what buf_get_all goes through.
GetRun(r, s, c) == c[0] = r /\ \A k \in 1..Len(s) : c[k] = Get1(c[k - 1], s[k])

\* There is such a function.
LEMMA GetExists ==
    ASSUME NEW r, NEW s, NEW m \in Nat
    PROVE  \E c : GetFold(r, s, m, c)
<1>. DEFINE F(c, n) == [k \in 0..n |-> IF k = 0 THEN r ELSE Get1(c[k - 1], s[k])]
            T == {n \in 0..m : ~\E c : c = F(c, n)}
<1>1. SUFFICES ASSUME T # {} PROVE FALSE
  <2>. HIDE DEF F
  <2>1. m \in 0..m
    OBVIOUS
  <2>2. \E c : c = F(c, m)
    BY <2>1
  <2>. QED  BY <2>2 DEF F, GetFold
<1>0. T \subseteq Nat
  OBVIOUS
<1>. HIDE DEF T
<1>2. PICK n \in T : \A j \in T : n <= j
  BY <1>0, <1>1, LeastNat
<1>. USE DEF T
<1>. HIDE DEF F
<1>3. CASE n = 0
  <2>. DEFINE c == [k \in 0..0 |-> r]
  <2>1. F(c, 0) = c
    <3>1. \A k \in 0..0 : k = 0
      OBVIOUS
    <3>. QED  BY <3>1 DEF F
  <2>. QED  BY <1>2, <1>3, <2>1
<1>4. CASE n # 0
  <2>1. n - 1 \in 0..m /\ n - 1 \notin T /\ n \in 1..m /\ n \in Nat
    BY <1>2, <1>4
  <2>2. PICK d : d = F(d, n - 1)
    BY <2>1
  <2>. DEFINE c == [k \in 0..n |-> IF k = n THEN Get1(d[n - 1], s[n]) ELSE d[k]]
  <2>3. ASSUME NEW k \in 0..n PROVE c[k] = IF k = 0 THEN r ELSE Get1(c[k - 1], s[k])
    <3>1. CASE k = n
      <4>1. n - 1 \in 0..n /\ n - 1 # n /\ k # 0
        BY <1>4, <2>1, <3>1
      <4>2. c[n - 1] = d[n - 1]
        BY <4>1
      <4>. QED  BY <3>1, <4>1, <4>2
    <3>2. CASE k # n
      <4>1. k \in 0..(n - 1) /\ (k # 0 => k - 1 \in 0..n /\ k - 1 # n)
        BY <2>1, <3>2
      <4>2. d[k] = IF k = 0 THEN r ELSE Get1(d[k - 1], s[k])
        <5>. DEFINE G(e) == [j \in 0..(n - 1) |-> IF j = 0 THEN r ELSE Get1(e[j - 1], s[j])]
        <5>1. d = G(d)
          BY <2>2 DEF F
        <5>2. G(d)[k] = IF k = 0 THEN r ELSE Get1(d[k - 1], s[k])
          BY <4>1
        <5>. HIDE DEF G
        <5>. QED  BY <5>1, <5>2
      <4>3. c[k] = d[k] /\ (k # 0 => c[k - 1] = d[k - 1])
        BY <3>2, <4>1
      <4>. QED  BY <4>2, <4>3
    <3>. QED  BY <3>1, <3>2
  <2>4. c = [k \in 0..n |-> c[k]]
    OBVIOUS
  <2>. HIDE DEF c
  <2>5. c = F(c, n)
    BY <2>3, <2>4 DEF F
  <2>. QED  BY <1>2, <2>5
<1>. QED  BY <1>3, <1>4

\* buf_get_all goes through it.
LEMMA GetRuns ==
    ASSUME NEW r, NEW s, Len(s) \in Nat
    PROVE  \E c : GetRun(r, s, c) /\ buf_get_all(r, s) = c[Len(s)]
<1>. DEFINE n == Len(s)
            F(c) == [k \in 0..n |-> IF k = 0 THEN r ELSE Get1(c[k - 1], s[k])]
            d == CHOOSE c : c = F(c)
<1>1. \E c : c = F(c)
  <2>1. PICK c : GetFold(r, s, n, c)
    BY GetExists
  <2>2. c = F(c)
    BY <2>1 DEF GetFold
  <2>. HIDE DEF F
  <2>. QED  BY <2>2
<1>2. buf_get_all(r, s) = d[n]
  BY DEF buf_get_all
<1>3. d = F(d)
  <2>. HIDE DEF F
  <2>. QED  BY <1>1
<1>4. 0 \in 0..n /\ \A k \in 1..n : k \in 0..n /\ k # 0
  OBVIOUS
<1>. HIDE DEF d
<1>5. ASSUME NEW k \in 0..n PROVE d[k] = IF k = 0 THEN r ELSE Get1(d[k - 1], s[k])
  <2>1. F(d)[k] = IF k = 0 THEN r ELSE Get1(d[k - 1], s[k])
    OBVIOUS
  <2>. HIDE DEF F
  <2>. QED  BY <1>3, <2>1
<1>. HIDE DEF F
<1>6. d[0] = r
  BY <1>4, <1>5
<1>7. ASSUME NEW k \in 1..n PROVE d[k] = Get1(d[k - 1], s[k])
  BY <1>4, <1>5
<1>8. GetRun(r, s, d)
  BY <1>6, <1>7 DEF GetRun
<1>. QED  BY <1>2, <1>8

\* It is the only one.
LEMMA GetOnly ==
    ASSUME NEW r, NEW s, Len(s) \in Nat, NEW c, GetRun(r, s, c)
    PROVE  buf_get_all(r, s) = c[Len(s)]
<1>1. PICK d : GetRun(r, s, d) /\ buf_get_all(r, s) = d[Len(s)]
  BY GetRuns
<1>. DEFINE T == {k \in 0..Len(s) : d[k] # c[k]}
<1>2. ASSUME T # {} PROVE FALSE
  <2>0. T \subseteq Nat
    OBVIOUS
  <2>. HIDE DEF T
  <2>1. PICK k \in T : \A j \in T : k <= j
    BY <1>2, <2>0, LeastNat
  <2>. USE DEF T
  <2>2. k # 0
    BY <1>1 DEF GetRun
  <2>3. k \in 1..Len(s) /\ k - 1 \in 0..Len(s) /\ ~(k <= k - 1)
    BY <2>2
  <2>4. d[k - 1] = c[k - 1]
    BY <2>1, <2>3
  <2>5. d[k] = Get1(d[k - 1], s[k]) /\ c[k] = Get1(c[k - 1], s[k])
    BY <1>1, <2>3 DEF GetRun
  <2>. QED  BY <2>4, <2>5
<1>3. Len(s) \in 0..Len(s)
  OBVIOUS
<1>. QED  BY <1>1, <1>2, <1>3

\* One field, or none.
LEMMA GetOne ==
    ASSUME NEW r, NEW e
    PROVE  buf_get_all(r, <<>>) = r /\ buf_get_all(r, <<e>>) = Get1(r, e)
<1>1. Len(<<>>) = 0 /\ Len(<<e>>) = 1 /\ 0 \in Nat /\ 1 \in Nat /\ <<e>>[1] = e /\ 1..1 = {1} /\ 1..0 = {}
  OBVIOUS
<1>. DEFINE z == <<>>
            o == <<e>>
<1>. HIDE DEF z, o
<1>2. PICK c : GetRun(r, z, c) /\ buf_get_all(r, z) = c[Len(z)]
  BY <1>1, GetRuns DEF z
<1>3. PICK d : GetRun(r, o, d) /\ buf_get_all(r, o) = d[Len(o)]
  BY <1>1, GetRuns DEF o
<1>4. buf_get_all(r, z) = r
  BY <1>1, <1>2 DEF GetRun, z
<1>5. d[0] = r /\ d[1] = Get1(d[1 - 1], o[1])
  BY <1>1, <1>3 DEF GetRun, o
<1>6. 1 - 1 = 0 /\ o[1] = e /\ Len(o) = 1
  BY <1>1 DEF o
<1>7. buf_get_all(r, o) = Get1(r, e)
  BY <1>3, <1>5, <1>6
<1>. QED  BY <1>4, <1>7 DEF z, o

\* Some fields and then some more.
LEMMA GetConcat ==
    ASSUME NEW r, NEW S, NEW s \in Seq(S), NEW t \in Seq(S)
    PROVE  buf_get_all(r, s \o t) = buf_get_all(buf_get_all(r, s), t)
<1>. DEFINE n == Len(s)
            m == Len(t)
<1>1. n \in Nat /\ m \in Nat /\ Len(s \o t) = n + m /\ n + m \in Nat
  OBVIOUS
<1>2. \A k \in 1..(n + m) : (s \o t)[k] = IF k <= n THEN s[k] ELSE t[k - n]
  BY ConcatProperties
<1>3. PICK c : GetRun(r, s, c) /\ buf_get_all(r, s) = c[n]
  BY <1>1, GetRuns
<1>4. PICK d : GetRun(c[n], t, d) /\ buf_get_all(c[n], t) = d[m]
  BY <1>1, GetRuns
<1>. DEFINE e == [k \in 0..(n + m) |-> IF k <= n THEN c[k] ELSE d[k - n]]
<1>5. e[0] = r
  BY <1>1, <1>3 DEF GetRun
<1>6. d[0] = c[n]
  BY <1>4 DEF GetRun
<1>. HIDE DEF n, m
<1>7. ASSUME NEW k \in 1..(n + m) PROVE e[k] = Get1(e[k - 1], (s \o t)[k])
  <2>0. k \in 0..(n + m) /\ k - 1 \in 0..(n + m)
    BY <1>1
  <2>1. CASE k <= n
    <3>1. k \in 1..n /\ k - 1 <= n
      BY <1>1, <2>1
    <3>2. e[k] = c[k] /\ e[k - 1] = c[k - 1] /\ (s \o t)[k] = s[k]
      BY <1>2, <2>0, <2>1, <3>1
    <3>3. c[k] = Get1(c[k - 1], s[k])
      BY <1>3, <3>1 DEF GetRun, n
    <3>. QED  BY <3>2, <3>3
  <2>2. CASE ~(k <= n)
    <3>1. k - n \in 1..m /\ (k - n) - 1 = (k - 1) - n
      BY <1>1, <2>2
    <3>2. e[k] = d[k - n] /\ (s \o t)[k] = t[k - n]
      BY <1>2, <2>0, <2>2
    <3>3. e[k - 1] = d[(k - n) - 1]
      <4>1. CASE k - 1 <= n
        <5>1. k - 1 = n /\ (k - n) - 1 = 0
          BY <1>1, <2>2, <4>1
        <5>. QED  BY <1>6, <2>0, <4>1, <5>1
      <4>2. CASE ~(k - 1 <= n)
        BY <2>0, <3>1, <4>2
      <4>. QED  BY <4>1, <4>2
    <3>4. d[k - n] = Get1(d[(k - n) - 1], t[k - n])
      BY <1>4, <3>1 DEF GetRun, m
    <3>. QED  BY <3>2, <3>3, <3>4
  <2>. QED  BY <2>1, <2>2
<1>8. e[n + m] = d[m]
  <2>1. n + m \in 0..(n + m) /\ (n + m) - n = m
    BY <1>1
  <2>2. CASE m = 0
    BY <1>1, <1>6, <2>1, <2>2
  <2>3. CASE m # 0
    BY <1>1, <2>1, <2>3
  <2>. QED  BY <2>2, <2>3
<1>. HIDE DEF e
<1>9. GetRun(r, s \o t, e)
  BY <1>1, <1>5, <1>7 DEF GetRun
<1>10. buf_get_all(r, s \o t) = e[n + m]
  BY <1>1, <1>9, GetOnly
<1>. QED  BY <1>3, <1>4, <1>8, <1>10

----------------------------------------------------------------------------
(* And the fields of a message, walks with all their elements *)

\* The function that GetItems defines.
ItemsFold(r, s, m, c) == c = [k \in 0..m |-> IF k = 0 THEN r ELSE GetItem(c[k - 1], s[k])]

\* c is what GetItems goes through.
ItemsRun(r, s, c) == c[0] = r /\ \A k \in 1..Len(s) : c[k] = GetItem(c[k - 1], s[k])

\* There is such a function.
LEMMA ItemsExists ==
    ASSUME NEW r, NEW s, NEW m \in Nat
    PROVE  \E c : ItemsFold(r, s, m, c)
<1>. DEFINE F(c, n) == [k \in 0..n |-> IF k = 0 THEN r ELSE GetItem(c[k - 1], s[k])]
            T == {n \in 0..m : ~\E c : c = F(c, n)}
<1>1. SUFFICES ASSUME T # {} PROVE FALSE
  <2>. HIDE DEF F
  <2>1. m \in 0..m
    OBVIOUS
  <2>2. \E c : c = F(c, m)
    BY <2>1
  <2>. QED  BY <2>2 DEF F, ItemsFold
<1>0. T \subseteq Nat
  OBVIOUS
<1>. HIDE DEF T
<1>2. PICK n \in T : \A j \in T : n <= j
  BY <1>0, <1>1, LeastNat
<1>. USE DEF T
<1>. HIDE DEF F
<1>3. CASE n = 0
  <2>. DEFINE c == [k \in 0..0 |-> r]
  <2>1. F(c, 0) = c
    <3>1. \A k \in 0..0 : k = 0
      OBVIOUS
    <3>. QED  BY <3>1 DEF F
  <2>. QED  BY <1>2, <1>3, <2>1
<1>4. CASE n # 0
  <2>1. n - 1 \in 0..m /\ n - 1 \notin T /\ n \in 1..m /\ n \in Nat
    BY <1>2, <1>4
  <2>2. PICK d : d = F(d, n - 1)
    BY <2>1
  <2>. DEFINE c == [k \in 0..n |-> IF k = n THEN GetItem(d[n - 1], s[n]) ELSE d[k]]
  <2>3. ASSUME NEW k \in 0..n PROVE c[k] = IF k = 0 THEN r ELSE GetItem(c[k - 1], s[k])
    <3>1. CASE k = n
      <4>1. n - 1 \in 0..n /\ n - 1 # n /\ k # 0
        BY <1>4, <2>1, <3>1
      <4>2. c[n - 1] = d[n - 1]
        BY <4>1
      <4>. QED  BY <3>1, <4>1, <4>2
    <3>2. CASE k # n
      <4>1. k \in 0..(n - 1) /\ (k # 0 => k - 1 \in 0..n /\ k - 1 # n)
        BY <2>1, <3>2
      <4>2. d[k] = IF k = 0 THEN r ELSE GetItem(d[k - 1], s[k])
        <5>. DEFINE G(e) == [j \in 0..(n - 1) |-> IF j = 0 THEN r ELSE GetItem(e[j - 1], s[j])]
        <5>1. d = G(d)
          BY <2>2 DEF F
        <5>2. G(d)[k] = IF k = 0 THEN r ELSE GetItem(d[k - 1], s[k])
          BY <4>1
        <5>. HIDE DEF G
        <5>. QED  BY <5>1, <5>2
      <4>3. c[k] = d[k] /\ (k # 0 => c[k - 1] = d[k - 1])
        BY <3>2, <4>1
      <4>. QED  BY <4>2, <4>3
    <3>. QED  BY <3>1, <3>2
  <2>4. c = [k \in 0..n |-> c[k]]
    OBVIOUS
  <2>. HIDE DEF c
  <2>5. c = F(c, n)
    BY <2>3, <2>4 DEF F
  <2>. QED  BY <1>2, <2>5
<1>. QED  BY <1>3, <1>4

\* GetItems goes through it.
LEMMA ItemsRuns ==
    ASSUME NEW r, NEW s, Len(s) \in Nat
    PROVE  \E c : ItemsRun(r, s, c) /\ GetItems(r, s) = c[Len(s)]
<1>. DEFINE n == Len(s)
            F(c) == [k \in 0..n |-> IF k = 0 THEN r ELSE GetItem(c[k - 1], s[k])]
            d == CHOOSE c : c = F(c)
<1>1. \E c : c = F(c)
  <2>1. PICK c : ItemsFold(r, s, n, c)
    BY ItemsExists
  <2>2. c = F(c)
    BY <2>1 DEF ItemsFold
  <2>. HIDE DEF F
  <2>. QED  BY <2>2
<1>2. GetItems(r, s) = d[n]
  BY DEF GetItems
<1>3. d = F(d)
  <2>. HIDE DEF F
  <2>. QED  BY <1>1
<1>4. 0 \in 0..n /\ \A k \in 1..n : k \in 0..n /\ k # 0
  OBVIOUS
<1>. HIDE DEF d
<1>5. ASSUME NEW k \in 0..n PROVE d[k] = IF k = 0 THEN r ELSE GetItem(d[k - 1], s[k])
  <2>1. F(d)[k] = IF k = 0 THEN r ELSE GetItem(d[k - 1], s[k])
    OBVIOUS
  <2>. HIDE DEF F
  <2>. QED  BY <1>3, <2>1
<1>. HIDE DEF F
<1>6. d[0] = r
  BY <1>4, <1>5
<1>7. ASSUME NEW k \in 1..n PROVE d[k] = GetItem(d[k - 1], s[k])
  BY <1>4, <1>5
<1>8. ItemsRun(r, s, d)
  BY <1>6, <1>7 DEF ItemsRun
<1>. QED  BY <1>2, <1>8

\* It is the only one.
LEMMA ItemsOnly ==
    ASSUME NEW r, NEW s, Len(s) \in Nat, NEW c, ItemsRun(r, s, c)
    PROVE  GetItems(r, s) = c[Len(s)]
<1>1. PICK d : ItemsRun(r, s, d) /\ GetItems(r, s) = d[Len(s)]
  BY ItemsRuns
<1>. DEFINE T == {k \in 0..Len(s) : d[k] # c[k]}
<1>2. ASSUME T # {} PROVE FALSE
  <2>0. T \subseteq Nat
    OBVIOUS
  <2>. HIDE DEF T
  <2>1. PICK k \in T : \A j \in T : k <= j
    BY <1>2, <2>0, LeastNat
  <2>. USE DEF T
  <2>2. k # 0
    BY <1>1 DEF ItemsRun
  <2>3. k \in 1..Len(s) /\ k - 1 \in 0..Len(s) /\ ~(k <= k - 1)
    BY <2>2
  <2>4. d[k - 1] = c[k - 1]
    BY <2>1, <2>3
  <2>5. d[k] = GetItem(d[k - 1], s[k]) /\ c[k] = GetItem(c[k - 1], s[k])
    BY <1>1, <2>3 DEF ItemsRun
  <2>. QED  BY <2>4, <2>5
<1>3. Len(s) \in 0..Len(s)
  OBVIOUS
<1>. QED  BY <1>1, <1>2, <1>3

\* One field, or none.
LEMMA ItemsOne ==
    ASSUME NEW r, NEW e
    PROVE  GetItems(r, <<>>) = r /\ GetItems(r, <<e>>) = GetItem(r, e)
<1>1. Len(<<>>) = 0 /\ Len(<<e>>) = 1 /\ 0 \in Nat /\ 1 \in Nat /\ <<e>>[1] = e /\ 1..1 = {1} /\ 1..0 = {}
  OBVIOUS
<1>. DEFINE z == <<>>
            o == <<e>>
<1>. HIDE DEF z, o
<1>2. PICK c : ItemsRun(r, z, c) /\ GetItems(r, z) = c[Len(z)]
  BY <1>1, ItemsRuns DEF z
<1>3. PICK d : ItemsRun(r, o, d) /\ GetItems(r, o) = d[Len(o)]
  BY <1>1, ItemsRuns DEF o
<1>4. GetItems(r, z) = r
  BY <1>1, <1>2 DEF ItemsRun, z
<1>5. d[0] = r /\ d[1] = GetItem(d[1 - 1], o[1])
  BY <1>1, <1>3 DEF ItemsRun, o
<1>6. 1 - 1 = 0 /\ o[1] = e /\ Len(o) = 1
  BY <1>1 DEF o
<1>7. GetItems(r, o) = GetItem(r, e)
  BY <1>3, <1>5, <1>6
<1>. QED  BY <1>4, <1>7 DEF z, o

\* Some fields and then some more.
LEMMA ItemsConcat ==
    ASSUME NEW r, NEW S, NEW s \in Seq(S), NEW t \in Seq(S)
    PROVE  GetItems(r, s \o t) = GetItems(GetItems(r, s), t)
<1>. DEFINE n == Len(s)
            m == Len(t)
<1>1. n \in Nat /\ m \in Nat /\ Len(s \o t) = n + m /\ n + m \in Nat
  OBVIOUS
<1>2. \A k \in 1..(n + m) : (s \o t)[k] = IF k <= n THEN s[k] ELSE t[k - n]
  BY ConcatProperties
<1>3. PICK c : ItemsRun(r, s, c) /\ GetItems(r, s) = c[n]
  BY <1>1, ItemsRuns
<1>4. PICK d : ItemsRun(c[n], t, d) /\ GetItems(c[n], t) = d[m]
  BY <1>1, ItemsRuns
<1>. DEFINE e == [k \in 0..(n + m) |-> IF k <= n THEN c[k] ELSE d[k - n]]
<1>5. e[0] = r
  BY <1>1, <1>3 DEF ItemsRun
<1>6. d[0] = c[n]
  BY <1>4 DEF ItemsRun
<1>. HIDE DEF n, m
<1>7. ASSUME NEW k \in 1..(n + m) PROVE e[k] = GetItem(e[k - 1], (s \o t)[k])
  <2>0. k \in 0..(n + m) /\ k - 1 \in 0..(n + m)
    BY <1>1
  <2>1. CASE k <= n
    <3>1. k \in 1..n /\ k - 1 <= n
      BY <1>1, <2>1
    <3>2. e[k] = c[k] /\ e[k - 1] = c[k - 1] /\ (s \o t)[k] = s[k]
      BY <1>2, <2>0, <2>1, <3>1
    <3>3. c[k] = GetItem(c[k - 1], s[k])
      BY <1>3, <3>1 DEF ItemsRun, n
    <3>. QED  BY <3>2, <3>3
  <2>2. CASE ~(k <= n)
    <3>1. k - n \in 1..m /\ (k - n) - 1 = (k - 1) - n
      BY <1>1, <2>2
    <3>2. e[k] = d[k - n] /\ (s \o t)[k] = t[k - n]
      BY <1>2, <2>0, <2>2
    <3>3. e[k - 1] = d[(k - n) - 1]
      <4>1. CASE k - 1 <= n
        <5>1. k - 1 = n /\ (k - n) - 1 = 0
          BY <1>1, <2>2, <4>1
        <5>. QED  BY <1>6, <2>0, <4>1, <5>1
      <4>2. CASE ~(k - 1 <= n)
        BY <2>0, <3>1, <4>2
      <4>. QED  BY <4>1, <4>2
    <3>4. d[k - n] = GetItem(d[(k - n) - 1], t[k - n])
      BY <1>4, <3>1 DEF ItemsRun, m
    <3>. QED  BY <3>2, <3>3, <3>4
  <2>. QED  BY <2>1, <2>2
<1>8. e[n + m] = d[m]
  <2>1. n + m \in 0..(n + m) /\ (n + m) - n = m
    BY <1>1
  <2>2. CASE m = 0
    BY <1>1, <1>6, <2>1, <2>2
  <2>3. CASE m # 0
    BY <1>1, <2>1, <2>3
  <2>. QED  BY <2>2, <2>3
<1>. HIDE DEF e
<1>9. ItemsRun(r, s \o t, e)
  BY <1>1, <1>5, <1>7 DEF ItemsRun
<1>10. GetItems(r, s \o t) = e[n + m]
  BY <1>1, <1>9, ItemsOnly
<1>. QED  BY <1>3, <1>4, <1>8, <1>10

----------------------------------------------------------------------------
(* Layouts: what is put, and what is got of it *)

\* The members of Npfcall and Npwstat, whose values the fields of a packet are.
Member ==
    {"afid", "aname", "asize", "atime_nsec", "atime_sec", "bavail", "bfree", "blksize",
     "blocks", "bsize", "btime_nsec", "btime_sec", "clientid", "count", "ctime_nsec",
     "ctime_sec", "data", "data_version", "dfid", "ecode", "ename", "extension", "ffree",
     "fid", "files", "flags", "fsid", "gen", "gid", "id", "iounit", "locklength",
     "lockstatus", "locktype", "major", "mask", "minor", "mode", "msize", "mtime_nsec",
     "mtime_sec", "n", "n_uname", "name", "namelen", "newfid", "nlink", "nwname", "nwqid",
     "offset", "oldtag", "oname", "perm", "procid", "qid", "rdev", "size", "stat.atime",
     "stat.dev", "stat.extension", "stat.gid", "stat.length", "stat.mode", "stat.mtime",
     "stat.muid", "stat.n_gid", "stat.n_muid", "stat.n_uid", "stat.name", "stat.qid",
     "stat.size", "stat.type", "stat.uid", "symtgt", "tag", "type", "uid", "uname",
     "version", "wnames", "wqids"}

\* A field that is put or got.
ItemT == [k : {"int", "str", "data"}, f : Member \X Nat, w : Nat, v : Nat]

\* The fields s stand one after the other, the j-th ends at q[j].
Laid(s, q) ==
    /\ s \in Seq(ItemT) /\ q \in [0..Len(s) -> Nat] /\ q[0] = 0
    /\ \A j \in 1..Len(s) : q[j] = q[j - 1] + s[j].w

\* Field p is read by asking for g.
Alike(p, g) ==
    /\ g.k = p.k /\ g.f = p.f
    /\ p.k = "int" => g.w = p.w /\ p.w > 0
    /\ p.k = "str" => p.w = 2 + p.v
    /\ p.k = "data" => p.w = p.v

\* The integer before the data is their length.
Counted(s, k) == s[k].k = "data" => k > 1 /\ s[k - 1].k = "int" /\ s[k - 1].v = s[k].v

\* The fields s take n bytes, and are read by asking for g.
Matched(s, g, n) ==
    /\ s \in Seq(ItemT) /\ g \in Seq(ItemT) /\ Len(g) = Len(s) /\ n \in Nat
    /\ \A k \in 1..Len(s) : Alike(s[k], g[k]) /\ Counted(s, k)
    /\ \E q : Laid(s, q) /\ q[Len(s)] = n

\* No place is behind a later one.
LEMMA PlacesGrow ==
    ASSUME NEW s, NEW q, Laid(s, q), NEW i \in 0..Len(s), NEW j \in i..Len(s)
    PROVE  q[i] \in Nat /\ q[j] \in Nat /\ q[i] <= q[j]
<1>1. Len(s) \in Nat /\ i \in Nat /\ j \in Nat /\ \A k \in 0..Len(s) : q[k] \in Nat
  <2>1. s \in Seq(ItemT) /\ q \in [0..Len(s) -> Nat]
    BY DEF Laid
  <2>2. Len(s) \in Nat
    BY <2>1
  <2>3. i \in Nat /\ j \in Nat
    BY <2>2
  <2>. QED  BY <2>1, <2>2, <2>3
<1>. DEFINE T == {k \in i..Len(s) : ~(q[i] <= q[k])}
<1>2. ASSUME T # {} PROVE FALSE
  <2>0. T \subseteq Nat
    BY <1>1
  <2>. HIDE DEF T
  <2>1. PICK k \in T : \A l \in T : k <= l
    BY <1>2, <2>0, LeastNat
  <2>. USE DEF T
  <2>2. k # i
    BY <1>1, <2>1
  <2>3. k - 1 \in i..Len(s) /\ k - 1 \notin T /\ k \in 1..Len(s)
    BY <1>1, <2>1, <2>2
  <2>4. q[i] <= q[k - 1]
    BY <2>3
  <2>5. s[k] \in ItemT /\ q[k] = q[k - 1] + s[k].w
    BY <2>3 DEF Laid
  <2>6. s[k].w \in Nat
    BY <2>5 DEF ItemT
  <2>7. q[i] \in Nat /\ q[k - 1] \in Nat
    BY <1>1, <2>3
  <2>. QED  BY <2>1, <2>4, <2>5, <2>6, <2>7
<1>. QED  BY <1>1, <1>2

\* Places of the same fields are the same.
LEMMA PlacesSame ==
    ASSUME NEW s, NEW q, NEW r, Laid(s, q), Laid(s, r), NEW j \in 0..Len(s)
    PROVE  q[j] = r[j]
<1>1. Len(s) \in Nat
  BY DEF Laid
<1>. DEFINE T == {k \in 0..Len(s) : q[k] # r[k]}
<1>2. ASSUME T # {} PROVE FALSE
  <2>0. T \subseteq Nat
    BY <1>1
  <2>. HIDE DEF T
  <2>1. PICK k \in T : \A l \in T : k <= l
    BY <1>2, <2>0, LeastNat
  <2>. USE DEF T
  <2>2. k # 0
    BY <2>1 DEF Laid
  <2>3. k - 1 \in 0..Len(s) /\ k - 1 \notin T /\ k \in 1..Len(s)
    BY <1>1, <2>1, <2>2
  <2>4. q[k] = q[k - 1] + s[k].w /\ r[k] = r[k - 1] + s[k].w
    BY <2>3 DEF Laid
  <2>. QED  BY <2>1, <2>3, <2>4
<1>. QED  BY <1>2

\* A sequence of one is made of its element.
LEMMA OneOf ==
    ASSUME NEW S, NEW e \in S
    PROVE  <<e>> \in Seq(S) /\ Len(<<e>>) = 1 /\ <<e>>[1] = e
OBVIOUS

\* A layout of one field.
LEMMA MatchedOne ==
    ASSUME NEW p \in ItemT, NEW g \in ItemT, Alike(p, g), p.k # "data"
    PROVE  Matched(<<p>>, <<g>>, p.w)
<1>. DEFINE s == <<p>>
            t == <<g>>
            q == [j \in 0..1 |-> IF j = 0 THEN 0 ELSE p.w]
<1>1. s \in Seq(ItemT) /\ t \in Seq(ItemT) /\ Len(s) = 1 /\ Len(t) = 1 /\ s[1] = p /\ t[1] = g
  BY OneOf
<1>2. p.w \in Nat
  BY DEF ItemT
<1>3. q \in [0..1 -> Nat] /\ q[0] = 0 /\ q[1] = q[1 - 1] + p.w /\ q[1] = p.w
  BY <1>2
<1>. HIDE DEF s, t, q
<1>4. \A k \in 1..1 : k = 1
  OBVIOUS
<1>5. Laid(s, q)
  BY <1>1, <1>3, <1>4 DEF Laid
<1>6. \A k \in 1..Len(s) : Alike(s[k], t[k]) /\ Counted(s, k)
  BY <1>1, <1>4 DEF Counted
<1>7. Matched(s, t, p.w)
  BY <1>1, <1>2, <1>3, <1>5, <1>6 DEF Matched
<1>. QED  BY <1>7 DEF s, t

\* A layout of none.
LEMMA MatchedNone == Matched(<<>>, <<>>, 0)
<1>. DEFINE s == <<>>
            q == [j \in 0..0 |-> 0]
<1>1. s \in Seq(ItemT) /\ Len(s) = 0
  OBVIOUS
<1>2. q \in [0..0 -> Nat] /\ q[0] = 0
  OBVIOUS
<1>. HIDE DEF s, q
<1>3. Laid(s, q)
  BY <1>1, <1>2 DEF Laid
<1>4. \A k \in 1..Len(s) : Alike(s[k], s[k]) /\ Counted(s, k)
  BY <1>1
<1>5. Matched(s, s, 0)
  BY <1>1, <1>2, <1>3, <1>4 DEF Matched
<1>. QED  BY <1>5 DEF s

\* One layout behind another.
LEMMA MatchedCat ==
    ASSUME NEW s, NEW g, NEW n, NEW t, NEW h, NEW m, Matched(s, g, n), Matched(t, h, m)
    PROVE  Matched(s \o t, g \o h, n + m)
<1>. DEFINE a == Len(s)
            b == Len(t)
            u == s \o t
            w == g \o h
<1>1. /\ s \in Seq(ItemT) /\ t \in Seq(ItemT) /\ g \in Seq(ItemT) /\ h \in Seq(ItemT)
      /\ Len(g) = a /\ Len(h) = b /\ n \in Nat /\ m \in Nat
  BY DEF Matched
<1>2. /\ u \in Seq(ItemT) /\ w \in Seq(ItemT) /\ Len(u) = a + b /\ Len(w) = a + b
      /\ a \in Nat /\ b \in Nat
  <2>1. a \in Nat /\ b \in Nat
    BY <1>1
  <2>2. u \in Seq(ItemT) /\ w \in Seq(ItemT)
    BY <1>1
  <2>3. Len(u) = a + b /\ Len(w) = Len(g) + Len(h)
    BY <1>1, ConcatProperties
  <2>. QED  BY <1>1, <2>1, <2>2, <2>3
<1>3. \A k \in 1..(a + b) : /\ u[k] = IF k <= a THEN s[k] ELSE t[k - a]
                            /\ w[k] = IF k <= a THEN g[k] ELSE h[k - a]
  BY <1>1, ConcatProperties
<1>4. PICK q : Laid(s, q) /\ q[a] = n
  BY DEF Matched
<1>5. PICK r : Laid(t, r) /\ r[b] = m
  BY DEF Matched
<1>. DEFINE x == [j \in 0..(a + b) |-> IF j <= a THEN q[j] ELSE n + r[j - a]]
<1>. HIDE DEF a, b, u, w
<1>6. \A k \in 0..a : q[k] \in Nat
  BY <1>4 DEF Laid, a
<1>7. \A k \in 0..b : r[k] \in Nat
  BY <1>5 DEF Laid, b
<1>8. x \in [0..(a + b) -> Nat] /\ x[0] = 0
  <2>1. ASSUME NEW j \in 0..(a + b) PROVE (IF j <= a THEN q[j] ELSE n + r[j - a]) \in Nat
    <3>1. CASE j <= a
      BY <1>2, <1>6, <3>1
    <3>2. CASE ~(j <= a)
      <4>1. j - a \in 0..b
        BY <1>2, <3>2
      <4>. QED  BY <1>1, <1>7, <3>2, <4>1
    <3>. QED  BY <3>1, <3>2
  <2>2. q[0] = 0 /\ 0 <= a /\ 0 \in 0..(a + b)
    BY <1>2, <1>4 DEF Laid
  <2>. QED  BY <2>1, <2>2
<1>9. ASSUME NEW k \in 1..(a + b)
      PROVE  x[k] = x[k - 1] + u[k].w /\ Alike(u[k], w[k]) /\ Counted(u, k)
  <2>0. k \in 0..(a + b) /\ k - 1 \in 0..(a + b)
    BY <1>2
  <2>1. CASE k <= a
    <3>1. k \in 1..a /\ k - 1 <= a
      BY <1>2, <2>1
    <3>2. x[k] = q[k] /\ x[k - 1] = q[k - 1] /\ u[k] = s[k] /\ w[k] = g[k]
      BY <1>3, <2>0, <2>1, <3>1
    <3>3. q[k] = q[k - 1] + s[k].w
      BY <1>4, <3>1 DEF Laid, a
    <3>4. Alike(s[k], g[k]) /\ Counted(s, k)
      BY <3>1 DEF Matched, a
    <3>5. k > 1 => u[k - 1] = s[k - 1]
      BY <1>2, <1>3, <3>1
    <3>6. Counted(u, k)
      BY <3>2, <3>4, <3>5 DEF Counted
    <3>. QED  BY <3>2, <3>3, <3>4, <3>6
  <2>2. CASE ~(k <= a)
    <3>1. k - a \in 1..b /\ (k - a) - 1 = (k - 1) - a /\ k - a \in 0..b /\ (k - a) - 1 \in 0..b
      BY <1>2, <2>2
    <3>2. x[k] = n + r[k - a] /\ u[k] = t[k - a] /\ w[k] = h[k - a]
      BY <1>3, <2>0, <2>2
    <3>3. x[k - 1] = n + r[(k - a) - 1]
      <4>1. CASE k - 1 <= a
        <5>1. k - 1 = a /\ (k - a) - 1 = 0 /\ r[0] = 0 /\ q[a] = n
          BY <1>2, <1>4, <1>5, <2>2, <4>1 DEF Laid
        <5>. QED  BY <1>1, <2>0, <4>1, <5>1
      <4>2. CASE ~(k - 1 <= a)
        BY <2>0, <3>1, <4>2
      <4>. QED  BY <4>1, <4>2
    <3>4. r[k - a] = r[(k - a) - 1] + t[k - a].w /\ t[k - a] \in ItemT
      BY <1>5, <3>1 DEF Laid, b
    <3>5. t[k - a].w \in Nat /\ r[(k - a) - 1] \in Nat
      BY <1>7, <3>1, <3>4 DEF ItemT
    <3>6. x[k] = x[k - 1] + u[k].w
      <4>1. PICK c, d, e : c = r[k - a] /\ d = r[(k - a) - 1] /\ e = t[k - a].w
        OBVIOUS
      <4>2. c = d + e /\ d \in Nat /\ e \in Nat
        BY <3>4, <3>5, <4>1, Zenon
      <4>3. n + c = (n + d) + e
        BY <1>1, <4>2
      <4>. QED  BY <3>2, <3>3, <4>1, <4>3, Zenon
    <3>7. Alike(t[k - a], h[k - a]) /\ Counted(t, k - a)
      BY <3>1 DEF Matched, b
    <3>8. k - a > 1 => u[k - 1] = t[(k - a) - 1]
      <4>1. SUFFICES ASSUME k - a > 1 PROVE u[k - 1] = t[(k - a) - 1]
        OBVIOUS
      <4>2. k - 1 \in 1..(a + b) /\ ~(k - 1 <= a)
        BY <1>2, <4>1
      <4>3. u[k - 1] = t[(k - 1) - a]
        BY <1>3, <4>2
      <4>. QED  BY <3>1, <4>3
    <3>9. Counted(u, k)
      <4>1. k - a > 1 => k > 1
        BY <1>2
      <4>. QED  BY <3>2, <3>7, <3>8, <4>1 DEF Counted
    <3>. QED  BY <3>2, <3>6, <3>7, <3>9
  <2>. QED  BY <2>1, <2>2
<1>10. x[a + b] = n + m
  <2>1. a + b \in 0..(a + b) /\ (a + b) - a = b
    BY <1>2
  <2>2. CASE b = 0
    <3>1. r[0] = 0 /\ m = 0 /\ a + b = a
      BY <1>2, <1>5, <2>2 DEF Laid
    <3>. QED  BY <1>1, <1>4, <2>1, <3>1, SMTT(30)
  <2>3. CASE b # 0
    BY <1>2, <1>5, <2>1, <2>3
  <2>. QED  BY <2>2, <2>3
<1>. HIDE DEF x
<1>11. Laid(u, x)
  BY <1>2, <1>8, <1>9 DEF Laid
<1>12. \A k \in 1..Len(u) : Alike(u[k], w[k]) /\ Counted(u, k)
  BY <1>2, <1>9
<1>13. Matched(u, w, n + m)
  BY <1>1, <1>2, <1>10, <1>11, <1>12 DEF Matched
<1>. QED  BY <1>13 DEF u, w

\* Data behind their length.
LEMMA MatchedData ==
    ASSUME NEW s, NEW g, NEW n, Matched(s, g, n), NEW v \in Nat, NEW f \in Member,
           Len(s) > 0, s[Len(s)].k = "int", s[Len(s)].v = v
    PROVE  Matched(s \o Data(f, v), g \o Data(f, 0), n + v)
<1>. DEFINE a == Len(s)
            p == Item("data", f, 0, v, v)
            e == Item("data", f, 0, 0, 0)
            u == Append(s, p)
            w == Append(g, e)
<1>1. s \in Seq(ItemT) /\ g \in Seq(ItemT) /\ Len(g) = a /\ n \in Nat /\ a \in Nat /\ a > 0
  BY DEF Matched
<1>2. p \in ItemT /\ e \in ItemT /\ p.k = "data" /\ p.v = v /\ p.w = v /\ Alike(p, e)
  BY DEF Item, ItemT, Alike
<1>3. s \o Data(f, v) = u /\ g \o Data(f, 0) = w
  BY <1>1, <1>2, AppendIsConcat DEF Data
<1>. HIDE DEF p, e
<1>4. /\ u \in Seq(ItemT) /\ w \in Seq(ItemT) /\ Len(u) = a + 1 /\ Len(w) = a + 1
      /\ u[a + 1] = p /\ w[a + 1] = e
      /\ \A k \in 1..a : u[k] = s[k] /\ w[k] = g[k]
  BY <1>1, <1>2, AppendOf
<1>5. PICK q : Laid(s, q) /\ q[a] = n
  BY DEF Matched
<1>. DEFINE x == [j \in 0..(a + 1) |-> IF j <= a THEN q[j] ELSE n + v]
<1>. HIDE DEF a, u, w
<1>6. q \in [0..a -> Nat] /\ q[0] = 0
  BY <1>5 DEF Laid, a
<1>7. x \in [0..(a + 1) -> Nat] /\ x[0] = 0 /\ x[a + 1] = n + v
  <2>1. \A j \in 0..(a + 1) : j <= a => j \in 0..a
    BY <1>1
  <2>2. n + v \in Nat /\ 0 \in 0..(a + 1) /\ a + 1 \in 0..(a + 1) /\ 0 <= a /\ ~(a + 1 <= a)
    BY <1>1
  <2>. QED  BY <1>6, <2>1, <2>2
<1>8. ASSUME NEW k \in 1..(a + 1)
      PROVE  x[k] = x[k - 1] + u[k].w /\ Alike(u[k], w[k]) /\ Counted(u, k)
  <2>0. k \in 0..(a + 1) /\ k - 1 \in 0..(a + 1) /\ k - 1 <= a
    BY <1>1
  <2>1. CASE k <= a
    <3>1. k \in 1..a
      BY <1>1, <2>1
    <3>2. x[k] = q[k] /\ x[k - 1] = q[k - 1] /\ u[k] = s[k] /\ w[k] = g[k]
      BY <1>4, <2>0, <2>1, <3>1
    <3>3. q[k] = q[k - 1] + s[k].w
      BY <1>5, <3>1 DEF Laid, a
    <3>4. Alike(s[k], g[k]) /\ Counted(s, k)
      BY <3>1 DEF Matched, a
    <3>5. k > 1 => u[k - 1] = s[k - 1]
      BY <1>1, <1>4, <3>1
    <3>6. Counted(u, k)
      BY <3>2, <3>4, <3>5 DEF Counted
    <3>. QED  BY <3>2, <3>3, <3>4, <3>6
  <2>2. CASE ~(k <= a)
    <3>1. k = a + 1 /\ k - 1 = a
      BY <1>1, <2>2
    <3>2. x[k] = n + v /\ x[k - 1] = n /\ u[k] = p /\ w[k] = e
      BY <1>4, <1>5, <1>7, <2>0, <3>1
    <3>3. u[k - 1] = s[a] /\ k > 1
      BY <1>1, <1>4, <3>1
    <3>4. s[a].k = "int" /\ s[a].v = v
      BY DEF a
    <3>5. Counted(u, k)
      BY <1>2, <3>2, <3>3, <3>4 DEF Counted
    <3>. QED  BY <1>2, <3>2, <3>5
  <2>. QED  BY <2>1, <2>2
<1>. HIDE DEF x
<1>9. Laid(u, x)
  BY <1>4, <1>7, <1>8 DEF Laid
<1>10. \A k \in 1..Len(u) : Alike(u[k], w[k]) /\ Counted(u, k)
  BY <1>4, <1>8
<1>11. n + v \in Nat
  BY <1>1
<1>12. Matched(u, w, n + v)
  BY <1>4, <1>7, <1>9, <1>10, <1>11 DEF Matched
<1>. QED  BY <1>3, <1>12 DEF a

\* An integer.
LEMMA MatchedInt ==
    ASSUME NEW f \in Member, NEW j \in Nat, NEW w \in Nat \ {0}, NEW v \in Nat, NEW z \in Nat
    PROVE  Matched(<<Item("int", f, j, w, v)>>, <<Item("int", f, j, w, z)>>, w)
<1>. DEFINE p == Item("int", f, j, w, v)
            g == Item("int", f, j, w, z)
<1>1. p \in ItemT /\ g \in ItemT /\ p.w = w /\ p.k # "data" /\ Alike(p, g)
  BY DEF Item, ItemT, Alike
<1>. HIDE DEF p, g
<1>2. Matched(<<p>>, <<g>>, p.w)
  BY <1>1, MatchedOne
<1>. QED  BY <1>1, <1>2 DEF p, g

\* A string.
LEMMA MatchedStr ==
    ASSUME NEW f \in Member, NEW j \in Nat, NEW l \in Nat
    PROVE  Matched(StrN(f, j, l), StrN(f, j, 0), 2 + l)
<1>. DEFINE p == Item("str", f, j, 2 + l, l)
            g == Item("str", f, j, 2 + 0, 0)
<1>1. p \in ItemT /\ g \in ItemT /\ p.w = 2 + l /\ p.k # "data" /\ Alike(p, g)
  BY DEF Item, ItemT, Alike
<1>2. StrN(f, j, l) = <<p>> /\ StrN(f, j, 0) = <<g>>
  BY DEF StrN
<1>. HIDE DEF p, g
<1>3. Matched(<<p>>, <<g>>, p.w)
  BY <1>1, MatchedOne
<1>. QED  BY <1>1, <1>2, <1>3

\* A qid.
LEMMA MatchedQid ==
    ASSUME NEW f \in Member, NEW j \in Nat
    PROVE  Matched(QidN(f, j), QidN(f, j), 13)
<1>. DEFINE p(i, w) == <<Item("int", f, j + i, w, 0)>>
<1>1. /\ Matched(p(1, 1), p(1, 1), 1) /\ Matched(p(2, 4), p(2, 4), 4) /\ Matched(p(3, 8), p(3, 8), 8)
  <2>1. j + 1 \in Nat /\ j + 2 \in Nat /\ j + 3 \in Nat /\ 0 \in Nat
        /\ 1 \in Nat \ {0} /\ 4 \in Nat \ {0} /\ 8 \in Nat \ {0}
    OBVIOUS
  <2>. QED  BY <2>1, MatchedInt
<1>2. QidN(f, j) = (p(1, 1) \o p(2, 4)) \o p(3, 8)
  BY DEF QidN
<1>. HIDE DEF p
<1>3. Matched(p(1, 1) \o p(2, 4), p(1, 1) \o p(2, 4), 1 + 4)
  BY <1>1, MatchedCat
<1>4. Matched((p(1, 1) \o p(2, 4)) \o p(3, 8), (p(1, 1) \o p(2, 4)) \o p(3, 8), (1 + 4) + 8)
  BY <1>1, <1>3, MatchedCat
<1>5. (1 + 4) + 8 = 13
  OBVIOUS
<1>. QED  BY <1>2, <1>4, <1>5

\* The fields that messages are made of.
LEMMA MatchedField ==
    ASSUME NEW f \in Member
    PROVE  /\ Matched(I8(f), I8(f), 1) /\ Matched(I16(f), I16(f), 2)
           /\ Matched(I32(f), I32(f), 4) /\ Matched(I64(f), I64(f), 8)
           /\ Matched(Qid(f), Qid(f), 13)
           /\ \A v \in Nat : /\ Matched(C16(f, v), I16(f), 2) /\ Matched(C32(f, v), I32(f), 4)
                             /\ Matched(Str(f, v), Str(f, 0), 2 + v)
<1>1. /\ 0 \in Nat /\ 1 \in Nat \ {0} /\ 2 \in Nat \ {0} /\ 4 \in Nat \ {0} /\ 8 \in Nat \ {0}
  OBVIOUS
<1>2. \A w \in Nat \ {0} : \A v \in Nat :
        Matched(<<Item("int", f, 0, w, v)>>, <<Item("int", f, 0, w, 0)>>, w)
  BY <1>1, MatchedInt
<1>3. /\ Matched(I8(f), I8(f), 1) /\ Matched(I16(f), I16(f), 2)
      /\ Matched(I32(f), I32(f), 4) /\ Matched(I64(f), I64(f), 8)
  BY <1>1, <1>2 DEF I8, I16, I32, I64
<1>4. Matched(Qid(f), Qid(f), 13)
  BY <1>1, MatchedQid DEF Qid
<1>5. ASSUME NEW v \in Nat
      PROVE  /\ Matched(C16(f, v), I16(f), 2) /\ Matched(C32(f, v), I32(f), 4)
             /\ Matched(Str(f, v), Str(f, 0), 2 + v)
  <2>1. Matched(C16(f, v), I16(f), 2) /\ Matched(C32(f, v), I32(f), 4)
    BY <1>1, <1>2 DEF C16, C32, I16, I32
  <2>2. Matched(Str(f, v), Str(f, 0), 2 + v)
    BY <1>1, MatchedStr DEF Str
  <2>. QED  BY <2>1, <2>2
<1>. QED  BY <1>3, <1>4, <1>5

----------------------------------------------------------------------------
(* Putting a layout *)

\* A buffer at p, whose end is ep and which holds out.
Buf(p, ep, out) == [p |-> p, ep |-> ep, out |-> out]

\* A field and where it is.
Field(it, at) == [k |-> it.k, f |-> it.f, w |-> it.w, v |-> it.v, at |-> at]

\* The fields of s, laid out by q, the first at from.
FieldsOf(s, q, from) == {Field(s[k], from + q[k - 1]) : k \in 1..Len(s)}

With(out, it, at) == out \cup {Field(it, at)}

\* The members of a buffer.
LEMMA BufIs ==
    ASSUME NEW p, NEW ep, NEW out
    PROVE  Buf(p, ep, out).p = p /\ Buf(p, ep, out).ep = ep /\ Buf(p, ep, out).out = out
BY DEF Buf

\* A field fits.
LEMMA PutFits ==
    ASSUME NEW p \in Nat, NEW ep \in Nat, NEW out, NEW it, it.w \in Nat, p + it.w <= ep
    PROVE  buf_put(Buf(p, ep, out), it) = Buf(p + it.w, ep, With(out, it, p))
<1>. DEFINE b == Buf(p, ep, out)
<1>1. b.p = p /\ b.ep = ep /\ b.out = out
  BY BufIs
<1>2. buf_put(b, it) = [b EXCEPT !.p = @ + it.w, !.out = With(@, it, p)]
  BY <1>1 DEF buf_put, buf_check_size, Field, With
<1>3. ASSUME NEW a, NEW c PROVE [b EXCEPT !.p = a, !.out = c] = Buf(a, ep, c)
  <2>1. [b EXCEPT !.p = a] = Buf(a, ep, out)
    BY DEF Buf
  <2>2. [Buf(a, ep, out) EXCEPT !.out = c] = Buf(a, ep, c)
    BY DEF Buf
  <2>. QED  BY <2>1, <2>2
<1>. QED  BY <1>1, <1>2, <1>3

\* It does not.
LEMMA PutPast ==
    ASSUME NEW p \in Nat, NEW ep \in Nat, NEW out, NEW it, it.w \in Nat, ~(p + it.w <= ep)
    PROVE  buf_put(Buf(p, ep, out), it) = Buf(IF p < ep THEN ep + 1 ELSE p, ep, out)
<1>. DEFINE b == Buf(p, ep, out)
<1>1. b.p = p /\ b.ep = ep /\ b.out = out
  BY BufIs
<1>2. buf_put(b, it) = [b EXCEPT !.p = Past(b)]
  BY <1>1 DEF buf_put, buf_check_size
<1>3. Past(b) = IF p < ep THEN ep + 1 ELSE p
  BY <1>1 DEF Past
<1>4. ASSUME NEW a PROVE [b EXCEPT !.p = a] = Buf(a, ep, out)
  BY DEF Buf
<1>. QED  BY <1>2, <1>3, <1>4

\* What a layout says of every field and place.
LEMMA LaidFacts ==
    ASSUME NEW s, NEW q, Laid(s, q)
    PROVE  /\ Len(s) \in Nat /\ q[0] = 0
           /\ \A k \in 0..Len(s) : q[k] \in Nat
           /\ \A k \in 1..Len(s) : /\ s[k] \in ItemT /\ s[k].w \in Nat /\ s[k].v \in Nat
                                    /\ s[k].k \in {"int", "str", "data"}
                                    /\ q[k] = q[k - 1] + s[k].w
<1>1. s \in Seq(ItemT)
  BY DEF Laid
<1>2. Len(s) \in Nat /\ \A k \in 1..Len(s) : s[k] \in ItemT
  BY <1>1
<1>3. q[0] = 0 /\ \A k \in 0..Len(s) : q[k] \in Nat
  BY DEF Laid
<1>4. \A it \in ItemT : it.w \in Nat /\ it.v \in Nat /\ it.k \in {"int", "str", "data"}
  BY DEF ItemT
<1>5. \A k \in 1..Len(s) : q[k] = q[k - 1] + s[k].w
  BY DEF Laid
<1>. QED  BY <1>2, <1>3, <1>4, <1>5

WithAll(out, s, q, from) == out \cup FieldsOf(s, q, from)

\* All of them fit.
LEMMA PutAll ==
    ASSUME NEW s, NEW q, Laid(s, q), NEW from \in Nat, NEW ep \in Nat, NEW out,
           NEW to, to = from + q[Len(s)], to <= ep
    PROVE  buf_put_all(Buf(from, ep, out), s) = Buf(to, ep, WithAll(out, s, q, from))
<1>1. /\ Len(s) \in Nat /\ q[0] = 0 /\ \A k \in 0..Len(s) : q[k] \in Nat
      /\ \A k \in 1..Len(s) : s[k] \in ItemT /\ q[k] = q[k - 1] + s[k].w
  BY LaidFacts
<1>. DEFINE o(k) == out \cup {Field(s[j], from + q[j - 1]) : j \in 1..k}
            c == [k \in 0..Len(s) |-> Buf(from + q[k], ep, o(k))]
<1>2. c[0] = Buf(from, ep, out)
  <2>1. 0 \in 0..Len(s) /\ from + 0 = from /\ 1..0 = {}
    BY <1>1
  <2>2. o(0) = out
    BY <2>1
  <2>. QED  BY <1>1, <2>1, <2>2
<1>3. ASSUME NEW k \in 1..Len(s) PROVE c[k] = buf_put(c[k - 1], s[k])
  <2>1. k \in 0..Len(s) /\ k - 1 \in 0..Len(s)
    BY <1>1
  <2>2. c[k] = Buf(from + q[k], ep, o(k)) /\ c[k - 1] = Buf(from + q[k - 1], ep, o(k - 1))
    BY <2>1
  <2>3. q[k] <= q[Len(s)]
    <3>1. Len(s) \in k..Len(s)
      BY <1>1, <2>1
    <3>. QED  BY <2>1, <3>1, PlacesGrow
  <2>4. q[k - 1] \in Nat /\ q[k] \in Nat /\ q[Len(s)] \in Nat /\ s[k].w \in Nat
    BY <1>1, <2>1, LaidFacts
  <2>5. from + q[k - 1] \in Nat /\ (from + q[k - 1]) + s[k].w = from + q[k]
        /\ (from + q[k - 1]) + s[k].w <= ep
    <3>1. PICK a, b, z, d : a = q[k - 1] /\ b = q[k] /\ z = q[Len(s)] /\ d = s[k].w
      OBVIOUS
    <3>2. a \in Nat /\ z \in Nat /\ d \in Nat /\ b = a + d /\ b <= z /\ from + z <= ep
      BY <1>1, <2>3, <2>4, <3>1, Zenon
    <3>3. from + a \in Nat /\ (from + a) + d = from + b /\ (from + a) + d <= ep
      BY <3>2
    <3>. QED  BY <3>1, <3>3, Zenon
  <2>6. o(k) = With(o(k - 1), s[k], from + q[k - 1])
    <3>1. 1..k = (1..(k - 1)) \cup {k}
      BY <1>1
    <3>. QED  BY <3>1 DEF With
  <2>. HIDE DEF o, c
  <2>7. buf_put(Buf(from + q[k - 1], ep, o(k - 1)), s[k])
          = Buf((from + q[k - 1]) + s[k].w, ep, With(o(k - 1), s[k], from + q[k - 1]))
    <3>1. PICK a, it, z : a = from + q[k - 1] /\ it = s[k] /\ z = o(k - 1)
      OBVIOUS
    <3>2. a \in Nat /\ it.w \in Nat /\ a + it.w <= ep
      BY <2>4, <2>5, <3>1, Zenon
    <3>3. buf_put(Buf(a, ep, z), it) = Buf(a + it.w, ep, With(z, it, a))
      BY <3>2, PutFits
    <3>. QED  BY <3>1, <3>3, Zenon
  <2>. QED  BY <2>2, <2>5, <2>6, <2>7
<1>4. c[Len(s)] = Buf(to, ep, WithAll(out, s, q, from))
  BY <1>1 DEF FieldsOf, WithAll
<1>. HIDE DEF c
<1>5. PutRun(Buf(from, ep, out), s, c)
  BY <1>2, <1>3 DEF PutRun
<1>. QED  BY <1>1, <1>4, <1>5, PutOnly

\* Beyond the end nothing is put any more.
LEMMA PutOver ==
    ASSUME NEW s \in Seq(ItemT), NEW p \in Nat, NEW ep \in Nat, NEW out, p > ep
    PROVE  buf_put_all(Buf(p, ep, out), s) = Buf(p, ep, out)
<1>. DEFINE c == [k \in 0..Len(s) |-> Buf(p, ep, out)]
<1>1. Len(s) \in Nat
  OBVIOUS
<1>2. ASSUME NEW k \in 1..Len(s) PROVE c[k] = buf_put(c[k - 1], s[k])
  <2>1. s[k] \in ItemT /\ k \in 0..Len(s) /\ k - 1 \in 0..Len(s)
    BY <1>1
  <2>2. s[k].w \in Nat
    BY <2>1 DEF ItemT
  <2>3. ~(p < ep) /\ ~(p + s[k].w <= ep)
    BY <2>2
  <2>4. buf_put(Buf(p, ep, out), s[k]) = Buf(p, ep, out)
    <3>1. p = IF p < ep THEN ep + 1 ELSE p
      BY <2>3
    <3>2. buf_put(Buf(p, ep, out), s[k]) = Buf(IF p < ep THEN ep + 1 ELSE p, ep, out)
      BY <2>2, <2>3, PutPast
    <3>. QED  BY <3>1, <3>2
  <2>. QED  BY <2>1, <2>4
<1>3. c[0] = Buf(p, ep, out) /\ c[Len(s)] = Buf(p, ep, out)
  BY <1>1
<1>. HIDE DEF c
<1>4. PutRun(Buf(p, ep, out), s, c)
  BY <1>2, <1>3 DEF PutRun
<1>. QED  BY <1>1, <1>3, <1>4, PutOnly

\* Only data may take no bytes.
LEMMA FieldWide ==
    ASSUME NEW s, NEW g, NEW n, Matched(s, g, n), NEW q, Laid(s, q),
           NEW k \in 1..Len(s), s[k].k # "data"
    PROVE  q[k - 1] \in Nat /\ q[k] \in Nat /\ q[k - 1] < q[k]
<1>1. /\ Len(s) \in Nat /\ \A j \in 0..Len(s) : q[j] \in Nat
      /\ s[k].w \in Nat /\ s[k].v \in Nat /\ s[k].k \in {"int", "str", "data"}
      /\ q[k] = q[k - 1] + s[k].w
  BY LaidFacts
<1>2. Alike(s[k], g[k])
  BY DEF Matched
<1>3. s[k].k = "int" => s[k].w > 0
  BY <1>2 DEF Alike
<1>4. s[k].k = "str" => s[k].w = 2 + s[k].v
  BY <1>2 DEF Alike
<1>5. k - 1 \in 0..Len(s) /\ k \in 0..Len(s)
  BY <1>1
<1>6. s[k].w > 0
  BY <1>1, <1>3, <1>4
<1>. QED  BY <1>1, <1>5, <1>6

\* No field begins where another of its kind does.
LEMMA PlacesApart ==
    ASSUME NEW s, NEW g, NEW n, Matched(s, g, n), NEW q, Laid(s, q),
           NEW i \in 1..Len(s), NEW j \in 1..Len(s), s[i].k = s[j].k, i < j
    PROVE  q[i - 1] \in Nat /\ q[j - 1] \in Nat /\ q[i - 1] < q[j - 1]
<1>1. /\ Len(s) \in Nat /\ \A k \in 0..Len(s) : q[k] \in Nat
      /\ \A k \in 1..Len(s) : s[k] \in ItemT /\ s[k].w \in Nat /\ q[k] = q[k - 1] + s[k].w
  BY LaidFacts
<1>2. \A k \in 1..Len(s) : Alike(s[k], g[k]) /\ Counted(s, k)
  BY DEF Matched
<1>3. \A k \in 1..Len(s) : s[k].k \in {"int", "str", "data"} /\ s[k].v \in Nat
  BY LaidFacts
<1>4. \A k \in 1..Len(s) : s[k].k # "data" => q[k - 1] < q[k]
  BY FieldWide
<1>5. i - 1 \in 0..Len(s) /\ j - 1 \in 0..Len(s) /\ i \in 0..Len(s) /\ j - 1 \in i..Len(s)
  BY <1>1
<1>6. CASE s[i].k # "data"
  <2>1. q[i - 1] < q[i] /\ q[i] <= q[j - 1]
    BY <1>4, <1>5, <1>6, PlacesGrow
  <2>2. \A a, b, c \in Nat : a < b /\ b <= c => a < c
    OBVIOUS
  <2>3. q[i - 1] \in Nat /\ q[i] \in Nat /\ q[j - 1] \in Nat
    BY <1>1, <1>5
  <2>. QED  BY <2>1, <2>2, <2>3, Zenon
<1>7. CASE s[i].k = "data"
  <2>1. s[j - 1].k = "int" /\ j > 1
    BY <1>2, <1>7 DEF Counted
  <2>2. i # j - 1
    BY <1>7, <2>1
  <2>3. j - 1 \in 1..Len(s) /\ (j - 1) - 1 \in 0..Len(s) /\ (j - 1) - 1 \in (i - 1)..Len(s)
    BY <1>1, <1>5, <2>1, <2>2
  <2>4. q[(j - 1) - 1] < q[j - 1]
    BY <1>4, <2>1, <2>3
  <2>5. q[i - 1] <= q[(j - 1) - 1]
    BY <1>5, <2>3, PlacesGrow
  <2>6. \A a, b, c \in Nat : a <= b /\ b < c => a < c
    OBVIOUS
  <2>7. q[i - 1] \in Nat /\ q[j - 1] \in Nat /\ q[(j - 1) - 1] \in Nat
    BY <1>1, <1>5, <2>3
  <2>. QED  BY <2>4, <2>5, <2>6, <2>7, Zenon
<1>. QED  BY <1>6, <1>7

----------------------------------------------------------------------------
(* Getting a layout *)

\* A reading of the fields F of a packet that ends at ep.
Reading(r, F, ep) ==
    /\ {"p", "ep", "last", "got", "junk", "fields"} \subseteq DOMAIN r
    /\ r.ep = ep /\ r.fields = F /\ ep \in Nat /\ r.p \in Nat /\ r.last \in Nat /\ r.junk \in Nat

\* r2 is r after one field more: f has got x.
Moved(r, r2, p, last, f, x) ==
    /\ DOMAIN r2 = DOMAIN r /\ r2.ep = r.ep /\ r2.fields = r.fields /\ r2.junk = r.junk
    /\ r2.err = r.err /\ r2.p = p /\ r2.last = last /\ r2.got = r.got \cup {<<f, x>>}

\* A reading goes on as one.
LEMMA MovedReading ==
    ASSUME NEW r, NEW F, NEW ep, Reading(r, F, ep), NEW r2, NEW p \in Nat, NEW last \in Nat,
           NEW f, NEW x, Moved(r, r2, p, last, f, x)
    PROVE  /\ Reading(r2, F, ep) /\ r2.p = p /\ r2.last = last /\ r2.err = r.err
           /\ r.got \subseteq r2.got /\ <<f, x>> \in r2.got
BY DEF Reading, Moved

\* Where a field ends, or where it leaves p when it does not fit.
Beyond(p, len, ep) == IF p + len <= ep THEN p + len ELSE IF p < ep THEN ep + 1 ELSE p

\* Setting the members of a reading.
LEMMA SetMoved ==
    ASSUME NEW r, NEW F, NEW ep, Reading(r, F, ep), NEW p, NEW last, NEW f, NEW x
    PROVE  /\ Moved(r, [Got(r, f, x) EXCEPT !.p = p, !.last = last], p, last, f, x)
           /\ Moved(r, [Got(r, f, x) EXCEPT !.p = p], p, r.last, f, x)
<1>. DEFINE a == [r EXCEPT !.got = @ \cup {<<f, x>>}]
            b == [a EXCEPT !.p = p]
            c == [b EXCEPT !.last = last]
<1>1. "p" \in DOMAIN r /\ "last" \in DOMAIN r /\ "got" \in DOMAIN r
  BY DEF Reading
<1>2. /\ DOMAIN a = DOMAIN r /\ a.ep = r.ep /\ a.fields = r.fields /\ a.junk = r.junk /\ a.err = r.err
      /\ a.p = r.p /\ a.last = r.last /\ a.got = r.got \cup {<<f, x>>}
  BY <1>1
<1>. HIDE DEF a
<1>3. /\ DOMAIN b = DOMAIN a /\ b.ep = a.ep /\ b.fields = a.fields /\ b.junk = a.junk /\ b.err = a.err
      /\ b.p = p /\ b.last = a.last /\ b.got = a.got
  BY <1>1, <1>2
<1>. HIDE DEF b
<1>4. /\ DOMAIN c = DOMAIN b /\ c.ep = b.ep /\ c.fields = b.fields /\ c.junk = b.junk /\ c.err = b.err
      /\ c.p = b.p /\ c.last = last /\ c.got = b.got
  BY <1>1, <1>2, <1>3
<1>. HIDE DEF c
<1>5. Moved(r, b, p, r.last, f, x) /\ Moved(r, c, p, last, f, x)
  BY <1>2, <1>3, <1>4 DEF Moved
<1>6. b = [Got(r, f, x) EXCEPT !.p = p]
  BY DEF a, b, Got
<1>7. c = [Got(r, f, x) EXCEPT !.p = p, !.last = last]
  BY DEF a, b, c, Got
<1>. QED  BY <1>5, <1>6, <1>7

\* An integer.
LEMMA GetInt ==
    ASSUME NEW r, NEW F, NEW ep, Reading(r, F, ep), NEW g, g.w \in Nat
    PROVE  /\ r.p + g.w <= ep =>
                LET S == {c \in Here(r, "int") : c.w = g.w} IN
                Moved(r, buf_get_int(r, g), r.p + g.w, ValueOf(S, r.junk), g.f, NameOf(S))
           /\ ~(r.p + g.w <= ep) =>
                Moved(r, buf_get_int(r, g), Beyond(r.p, g.w, ep), 0, g.f, Nothing)
<1>. DEFINE S == {c \in Here(r, "int") : c.w = g.w}
<1>1. r.ep = ep
  BY DEF Reading
<1>2. CASE r.p + g.w <= ep
  <2>1. buf_get_int(r, g) = [Got(r, g.f, NameOf(S)) EXCEPT !.p = @ + g.w, !.last = ValueOf(S, r.junk)]
    BY <1>1, <1>2 DEF buf_get_int, buf_check_size
  <2>2. Got(r, g.f, NameOf(S)).p = r.p
    BY DEF Got
  <2>. HIDE DEF S
  <2>3. Moved(r, [Got(r, g.f, NameOf(S)) EXCEPT !.p = r.p + g.w, !.last = ValueOf(S, r.junk)],
              r.p + g.w, ValueOf(S, r.junk), g.f, NameOf(S))
    BY SetMoved
  <2>. QED  BY <1>2, <2>1, <2>2, <2>3 DEF S
<1>3. CASE ~(r.p + g.w <= ep)
  <2>1. buf_get_int(r, g) = [Got(r, g.f, Nothing) EXCEPT !.p = Past(r), !.last = 0]
    BY <1>1, <1>3 DEF buf_get_int, buf_check_size
  <2>2. Past(r) = Beyond(r.p, g.w, ep)
    BY <1>1, <1>3 DEF Past, Beyond
  <2>3. Moved(r, [Got(r, g.f, Nothing) EXCEPT !.p = Past(r), !.last = 0], Past(r), 0, g.f, Nothing)
    BY SetMoved
  <2>. QED  BY <1>3, <2>1, <2>2, <2>3
<1>. QED  BY <1>2, <1>3

\* Bytes.
LEMMA GetAlloc ==
    ASSUME NEW r, NEW F, NEW ep, Reading(r, F, ep), NEW f, NEW len \in Nat, NEW S
    PROVE  Moved(r, buf_alloc(r, f, len, S), Beyond(r.p, len, ep), r.last, f,
                 IF r.p + len <= ep THEN NameOf(S) ELSE Nothing)
<1>1. r.ep = ep
  BY DEF Reading
<1>2. CASE r.p + len <= ep
  <2>1. buf_alloc(r, f, len, S) = [Got(r, f, NameOf(S)) EXCEPT !.p = @ + len]
    BY <1>1, <1>2 DEF buf_alloc, buf_check_size
  <2>2. Got(r, f, NameOf(S)).p = r.p
    BY DEF Got
  <2>3. Moved(r, [Got(r, f, NameOf(S)) EXCEPT !.p = r.p + len], r.p + len, r.last, f, NameOf(S))
    BY SetMoved
  <2>4. Beyond(r.p, len, ep) = r.p + len
    BY <1>2 DEF Beyond
  <2>. QED  BY <1>2, <2>1, <2>2, <2>3, <2>4
<1>3. CASE ~(r.p + len <= ep)
  <2>1. buf_alloc(r, f, len, S) = [Got(r, f, Nothing) EXCEPT !.p = Past(r)]
    BY <1>1, <1>3 DEF buf_alloc, buf_check_size
  <2>2. Past(r) = Beyond(r.p, len, ep)
    BY <1>1, <1>3 DEF Past, Beyond
  <2>3. Moved(r, [Got(r, f, Nothing) EXCEPT !.p = Past(r)], Past(r), r.last, f, Nothing)
    BY SetMoved
  <2>. QED  BY <1>3, <2>1, <2>2, <2>3
<1>. QED  BY <1>2, <1>3

\* A string: its length fits, or not.
LEMMA GetStr ==
    ASSUME NEW r, NEW F, NEW ep, Reading(r, F, ep), NEW g
    PROVE  /\ r.p + 2 <= ep =>
                LET len == ValueOf(Here(r, "str"), r.junk) IN
                len \in Nat =>
                  Moved(r, buf_get_str(r, g), Beyond(r.p + 2, len, ep), r.last, g.f,
                        IF r.p + 2 + len <= ep THEN NameOf(Here(r, "str")) ELSE Nothing)
           /\ ~(r.p + 2 <= ep) =>
                \E x : Moved(r, buf_get_str(r, g), Beyond(r.p, 2, ep), r.last, g.f, x)
<1>1. r.ep = ep /\ r.p \in Nat /\ ep \in Nat /\ "p" \in DOMAIN r
  BY DEF Reading
<1>2. ASSUME NEW p \in Nat
      PROVE  /\ Reading([r EXCEPT !.p = p], F, ep) /\ [r EXCEPT !.p = p].p = p
             /\ [r EXCEPT !.p = p].last = r.last
             /\ \A r2, q, f, x : Moved([r EXCEPT !.p = p], r2, q, r.last, f, x)
                                   => Moved(r, r2, q, r.last, f, x)
  BY <1>1 DEF Reading, Moved
<1>3. ASSUME r.p + 2 <= ep, NEW len, len = ValueOf(Here(r, "str"), r.junk), len \in Nat
      PROVE  Moved(r, buf_get_str(r, g), Beyond(r.p + 2, len, ep), r.last, g.f,
                   IF r.p + 2 + len <= ep THEN NameOf(Here(r, "str")) ELSE Nothing)
  <2>. DEFINE r1 == [r EXCEPT !.p = r.p + 2]
              S == Here(r, "str")
  <2>1. r.p + 2 \in Nat
    BY <1>1
  <2>2. buf_get_str(r, g) = buf_alloc(r1, g.f, len, S)
    BY <1>1, <1>3 DEF buf_get_str, buf_check_size
  <2>. HIDE DEF S
  <2>3. Reading(r1, F, ep) /\ r1.p = r.p + 2 /\ r1.last = r.last
    BY <1>2, <2>1
  <2>4. \A r2, q, f, x : Moved(r1, r2, q, r.last, f, x) => Moved(r, r2, q, r.last, f, x)
    BY <1>2, <2>1
  <2>. HIDE DEF r1
  <2>5. Moved(r1, buf_alloc(r1, g.f, len, S), Beyond(r1.p, len, ep), r1.last, g.f,
              IF r1.p + len <= ep THEN NameOf(S) ELSE Nothing)
    BY <1>3, <2>3, GetAlloc
  <2>. QED  BY <2>2, <2>3, <2>4, <2>5 DEF S
<1>4. ASSUME ~(r.p + 2 <= ep)
      PROVE  \E x : Moved(r, buf_get_str(r, g), Beyond(r.p, 2, ep), r.last, g.f, x)
  <2>. DEFINE r1 == [r EXCEPT !.p = Past(r)]
  <2>1. Past(r) = Beyond(r.p, 2, ep) /\ Past(r) \in Nat /\ ~(Past(r) < ep)
    BY <1>1, <1>4 DEF Past, Beyond
  <2>2. buf_get_str(r, g) = buf_alloc(r1, g.f, 0, {})
    BY <1>1, <1>4 DEF buf_get_str, buf_check_size
  <2>3. Reading(r1, F, ep) /\ r1.p = Past(r) /\ r1.last = r.last
    BY <1>2, <2>1
  <2>4. \A r2, q, f, x : Moved(r1, r2, q, r.last, f, x) => Moved(r, r2, q, r.last, f, x)
    BY <1>2, <2>1
  <2>. HIDE DEF r1
  <2>5. Moved(r1, buf_alloc(r1, g.f, 0, {}), Beyond(r1.p, 0, ep), r1.last, g.f,
              IF r1.p + 0 <= ep THEN NameOf({}) ELSE Nothing)
    BY <2>3, GetAlloc
  <2>6. Beyond(r1.p, 0, ep) = Beyond(r.p, 2, ep)
    <3>1. \A p \in Nat : ~(p < ep) => Beyond(p, 0, ep) = p
      BY <1>1 DEF Beyond
    <3>. QED  BY <2>1, <2>3, <3>1
  <2>. QED  BY <2>2, <2>3, <2>4, <2>5, <2>6
<1>. QED  BY <1>3, <1>4

\* The packet holds the fields s, between others.
Held(F, s, q, from) ==
    /\ FieldsOf(s, q, from) \subseteq F
    /\ \A c \in F : \/ c \in FieldsOf(s, q, from) \/ c.at < from
                    \/ c.at \in Nat /\ c.at >= from + q[Len(s)] /\ c.k # "data"

\* The first j fields of s have been read, each into its member.
GotTo(r, s, q, from, j, ep) ==
    /\ r.p = from + q[j] /\ r.p <= ep
    /\ \A i \in 1..j : <<s[i].f, s[i].f>> \in r.got
    /\ j > 0 /\ s[j].k = "int" => r.last = s[j].v

\* The packet ends where a field does, or the length of a string, or before
\* the first one.
Ends(F, ep, from) ==
    \/ \E c \in F : ep = c.at + c.w \/ (ep = c.at + 2 /\ c.k = "str")
    \/ ep = from

\* d is all that there is of its kind where r is.
Only(r, d) == Here(r, d.k) = {d}

\* The only field of a kind at its place.
LEMMA HereIs ==
    ASSUME NEW s, NEW g, NEW n, Matched(s, g, n), NEW q, Laid(s, q), NEW from \in Nat,
           NEW F, Held(F, s, q, from), NEW r, r.fields = F, NEW j \in 1..Len(s),
           r.p = from + q[j - 1]
    PROVE  Only(r, Field(s[j], from + q[j - 1]))
<1>1. /\ Len(s) \in Nat /\ \A k \in 0..Len(s) : q[k] \in Nat
  BY LaidFacts
<1>. DEFINE d == Field(s[j], from + q[j - 1])
<1>2. d \in F /\ d.at = r.p /\ d.k = s[j].k
  <2>1. d \in FieldsOf(s, q, from)
    BY DEF FieldsOf
  <2>2. d.at = from + q[j - 1] /\ d.k = s[j].k
    BY DEF Field
  <2>. QED  BY <2>1, <2>2 DEF Held
<1>3. ASSUME NEW c \in F, c.at = r.p, c.k = s[j].k PROVE c = d
  <2>0. j - 1 \in 0..Len(s)
    BY <1>1
  <2>1. ~(c.at < from)
    <3>1. q[j - 1] \in Nat
      BY <1>1, <2>0
    <3>. QED  BY <1>3, <3>1
  <2>a. ~(c.at >= from + q[Len(s)] /\ c.k # "data")
    <3>1. SUFFICES ASSUME c.at >= from + q[Len(s)], c.k # "data" PROVE FALSE
      OBVIOUS
    <3>2. q[j - 1] < q[j] /\ q[j - 1] \in Nat /\ q[j] \in Nat
      BY <1>3, <3>1, FieldWide
    <3>3. j \in 0..Len(s) /\ Len(s) \in j..Len(s)
      BY <1>1
    <3>4. q[j] <= q[Len(s)] /\ q[Len(s)] \in Nat
      BY <3>3, PlacesGrow
    <3>5. PICK x, y, z : x = q[j - 1] /\ y = q[j] /\ z = q[Len(s)]
      OBVIOUS
    <3>6. x \in Nat /\ y \in Nat /\ z \in Nat /\ x < y /\ y <= z /\ from + x >= from + z
      BY <1>3, <3>1, <3>2, <3>4, <3>5
    <3>. QED  BY <3>6
  <2>2. c \in FieldsOf(s, q, from)
    BY <2>1, <2>a DEF Held
  <2>3. PICK i \in 1..Len(s) : c = Field(s[i], from + q[i - 1])
    BY <2>2 DEF FieldsOf
  <2>4. c.at = from + q[i - 1] /\ c.k = s[i].k
    BY <2>3 DEF Field
  <2>5. i - 1 \in 0..Len(s) /\ i \in Nat /\ j \in Nat
    BY <1>1
  <2>6. q[i - 1] = q[j - 1]
    <3>1. PICK a, b : a = q[i - 1] /\ b = q[j - 1]
      OBVIOUS
    <3>2. a \in Nat /\ b \in Nat /\ from + a = from + b
      BY <1>1, <1>3, <2>0, <2>4, <2>5, <3>1, Zenon
    <3>3. a = b
      BY <3>2
    <3>. QED  BY <3>1, <3>3
  <2>7. \A x \in Nat : ~(x < x)
    OBVIOUS
  <2>8. ~(i < j)
    <3>1. SUFFICES ASSUME i < j PROVE FALSE
      OBVIOUS
    <3>2. q[i - 1] \in Nat /\ q[j - 1] \in Nat /\ q[i - 1] < q[j - 1]
      BY <1>3, <2>4, <3>1, PlacesApart
    <3>. QED  BY <2>6, <2>7, <3>2, Zenon
  <2>9. ~(j < i)
    <3>1. SUFFICES ASSUME j < i PROVE FALSE
      OBVIOUS
    <3>2. q[i - 1] \in Nat /\ q[j - 1] \in Nat /\ q[j - 1] < q[i - 1]
      BY <1>3, <2>4, <3>1, PlacesApart
    <3>. QED  BY <2>6, <2>7, <3>2, Zenon
  <2>10. i = j
    BY <2>5, <2>8, <2>9
  <2>. QED  BY <2>3, <2>10
<1>. HIDE DEF d
<1>4. Here(r, s[j].k) = {d}
  BY <1>2, <1>3 DEF Here
<1>5. Only(r, d)
  BY <1>2, <1>4 DEF Only
<1>. QED  BY <1>5 DEF d

\* What is read of one field.
LEMMA ReadOf ==
    ASSUME NEW c, NEW junk
    PROVE  NameOf({c}) = c.f /\ ValueOf({c}, junk) = c.v
<1>1. {c} # {} /\ (CHOOSE x \in {c} : TRUE) = c
  OBVIOUS
<1>. QED  BY <1>1 DEF NameOf, ValueOf

\* A field more.
LEMMA GetNext ==
    ASSUME NEW s, NEW g, NEW n, Matched(s, g, n), NEW q, Laid(s, q), NEW from \in Nat,
           NEW F, Held(F, s, q, from), NEW ep, NEW r, Reading(r, F, ep),
           NEW j \in 1..Len(s), GotTo(r, s, q, from, j - 1, ep)
    PROVE  /\ Reading(Get1(r, g[j]), F, ep) /\ Get1(r, g[j]).err = r.err
           /\ from + q[j] <= ep => GotTo(Get1(r, g[j]), s, q, from, j, ep)
           /\ ~(from + q[j] <= ep) => Get1(r, g[j]).p > ep \/ Ends(F, ep, from)
<1>. DEFINE p == r.p
            d == Field(s[j], p)
            r2 == Get1(r, g[j])
            w == s[j].w
            v == s[j].v
            f == s[j].f
<1>1. /\ Len(s) \in Nat /\ \A k \in 0..Len(s) : q[k] \in Nat
      /\ w \in Nat /\ v \in Nat /\ s[j].k \in {"int", "str", "data"} /\ q[j] = q[j - 1] + w
  BY LaidFacts
<1>2. p = from + q[j - 1] /\ p <= ep /\ r.fields = F
  BY DEF GotTo, Reading
<1>3. j - 1 \in 0..Len(s) /\ j \in 0..Len(s) /\ j \in Nat
  BY <1>1
<1>4. p \in Nat /\ ep \in Nat /\ r.last \in Nat /\ from + q[j] = p + w
  <2>1. PICK a, b : a = q[j - 1] /\ b = q[j]
    OBVIOUS
  <2>2. a \in Nat /\ b = a + w /\ p = from + a
    BY <1>1, <1>2, <1>3, <2>1, Zenon
  <2>3. p \in Nat /\ from + b = p + w
    BY <1>1, <2>2
  <2>. QED  BY <2>1, <2>3 DEF Reading
<1>6. d \in F /\ d.k = s[j].k /\ d.f = f /\ d.w = w /\ d.v = v /\ d.at = p
  <2>1. d \in FieldsOf(s, q, from)
    BY <1>2 DEF FieldsOf
  <2>. QED  BY <2>1 DEF Held, Field
<1>5. Here(r, s[j].k) = {d}
  <2>1. Only(r, Field(s[j], from + q[j - 1]))
    BY <1>2, HereIs
  <2>2. d = Field(s[j], from + q[j - 1])
    BY <1>2
  <2>. HIDE DEF d
  <2>. QED  BY <1>6, <2>1, <2>2 DEF Only
<1>7. Alike(s[j], g[j]) /\ Counted(s, j)
  BY DEF Matched
<1>8. g[j].k = s[j].k /\ g[j].f = f
  BY <1>7 DEF Alike
<1>9. p = ep => Ends(F, ep, from)
  <2>1. SUFFICES ASSUME p = ep PROVE Ends(F, ep, from)
    OBVIOUS
  <2>2. CASE j = 1
    <3>1. q[j - 1] = 0
      BY <2>2, LaidFacts
    <3>2. ep = from
      BY <1>2, <2>1, <3>1
    <3>. QED  BY <3>2 DEF Ends
  <2>3. CASE j # 1
    <3>1. j - 1 \in 1..Len(s) /\ (j - 1) - 1 \in 0..Len(s)
      BY <1>1, <2>3
    <3>. DEFINE c == Field(s[j - 1], from + q[(j - 1) - 1])
    <3>2. c \in F
      <4>1. c \in FieldsOf(s, q, from)
        BY <3>1 DEF FieldsOf
      <4>. QED  BY <4>1 DEF Held
    <3>3. c.at = from + q[(j - 1) - 1] /\ c.w = s[j - 1].w
      BY DEF Field
    <3>4. q[j - 1] = q[(j - 1) - 1] + s[j - 1].w /\ s[j - 1].w \in Nat /\ q[(j - 1) - 1] \in Nat
      BY <3>1, LaidFacts
    <3>5. from + q[j - 1] = c.at + c.w
      <4>1. PICK a, b, x : a = q[(j - 1) - 1] /\ b = s[j - 1].w /\ x = q[j - 1]
        OBVIOUS
      <4>2. a \in Nat /\ b \in Nat /\ x = a + b
        BY <3>4, <4>1, Zenon
      <4>3. from + x = (from + a) + b
        BY <4>2
      <4>. QED  BY <3>3, <4>1, <4>3
    <3>6. ep = c.at + c.w
      BY <1>2, <2>1, <3>5
    <3>. HIDE DEF c
    <3>7. \E e \in F : ep = e.at + e.w
      BY <3>2, <3>6
    <3>. QED  BY <3>7, Zenon DEF Ends
  <2>. QED  BY <2>2, <2>3
<1>. HIDE DEF d, r2, p, w, v, f
\* What is left to show of r2: it has the field, or is beyond the end.
<1>10. ASSUME NEW x, NEW last \in Nat, NEW to \in Nat, Moved(r, r2, to, last, f, x),
              p + w <= ep => x = f /\ to = p + w /\ (s[j].k = "int" => last = v),
              ~(p + w <= ep) => to > ep \/ Ends(F, ep, from)
       PROVE  /\ Reading(r2, F, ep) /\ r2.err = r.err
              /\ from + q[j] <= ep => GotTo(r2, s, q, from, j, ep)
              /\ ~(from + q[j] <= ep) => r2.p > ep \/ Ends(F, ep, from)
  <2>1. Reading(r2, F, ep) /\ r2.err = r.err /\ r2.p = to /\ r2.last = last
        /\ r.got \subseteq r2.got /\ <<f, x>> \in r2.got
    BY <1>10, MovedReading
  <2>2. ASSUME from + q[j] <= ep PROVE GotTo(r2, s, q, from, j, ep)
    <3>1. p + w <= ep /\ x = f /\ to = p + w /\ (s[j].k = "int" => last = v)
      BY <1>4, <1>10, <2>2
    <3>2. r2.p = from + q[j] /\ r2.p <= ep
      BY <1>4, <2>1, <2>2, <3>1
    <3>3. ASSUME NEW i \in 1..j PROVE <<s[i].f, s[i].f>> \in r2.got
      <4>1. CASE i = j
        BY <2>1, <3>1, <4>1 DEF f
      <4>2. CASE i # j
        <5>1. i \in 1..(j - 1)
          BY <1>3, <4>2
        <5>2. <<s[i].f, s[i].f>> \in r.got
          BY <5>1 DEF GotTo
        <5>. QED  BY <2>1, <5>2
      <4>. QED  BY <4>1, <4>2
    <3>4. s[j].k = "int" => r2.last = s[j].v
      BY <2>1, <3>1 DEF v
    <3>. QED  BY <3>2, <3>3, <3>4 DEF GotTo
  <2>3. ~(from + q[j] <= ep) => r2.p > ep \/ Ends(F, ep, from)
    BY <1>4, <1>10, <2>1
  <2>. QED  BY <2>1, <2>2, <2>3
\* A field that does not fit.
<1>11. \A len \in Nat : ~(p + len <= ep) =>
         Beyond(p, len, ep) \in Nat /\ (Beyond(p, len, ep) > ep \/ p = ep)
  BY <1>2, <1>4 DEF Beyond
<1>12. CASE s[j].k = "int"
  <2>1. g[j].w = w
    BY <1>7, <1>12 DEF Alike, w
  <2>2. r2 = buf_get_int(r, g[j])
    BY <1>8, <1>12 DEF Get1, r2
  <2>3. CASE p + w <= ep
    <3>1. {c \in Here(r, "int") : c.w = g[j].w} = {d}
      BY <1>5, <1>6, <1>12, <2>1
    <3>2. Moved(r, r2, p + w, ValueOf({d}, r.junk), f, NameOf({d}))
      BY <1>1, <1>8, <2>1, <2>2, <2>3, <3>1, GetInt DEF p
    <3>3. NameOf({d}) = f /\ ValueOf({d}, r.junk) = v
      BY <1>6, ReadOf
    <3>4. p + w \in Nat
      BY <1>1, <1>4
    <3>. QED  BY <1>1, <1>10, <2>3, <3>2, <3>3, <3>4 DEF r2
  <2>4. CASE ~(p + w <= ep)
    <3>1. Moved(r, r2, Beyond(p, w, ep), 0, f, Nothing)
      BY <1>1, <1>8, <2>1, <2>2, <2>4, GetInt DEF p
    <3>2. Beyond(p, w, ep) \in Nat /\ (Beyond(p, w, ep) > ep \/ Ends(F, ep, from))
      BY <1>1, <1>9, <1>11, <2>4
    <3>. QED  BY <1>10, <2>4, <3>1, <3>2 DEF r2
  <2>. QED  BY <2>3, <2>4
<1>13. CASE s[j].k = "str"
  <2>1. w = 2 + v
    BY <1>7, <1>13 DEF Alike, w, v
  <2>2. r2 = buf_get_str(r, g[j])
    BY <1>8, <1>13 DEF Get1, r2
  <2>3. ValueOf(Here(r, "str"), r.junk) = v /\ NameOf(Here(r, "str")) = f
    BY <1>5, <1>6, <1>13, ReadOf
  <2>4. CASE p + 2 <= ep
    <3>1. Moved(r, r2, Beyond(p + 2, v, ep), r.last, f, IF p + 2 + v <= ep THEN f ELSE Nothing)
      BY <1>1, <1>8, <2>2, <2>3, <2>4, GetStr DEF p
    <3>2. p + 2 + v = p + w /\ p + 2 \in Nat
      BY <1>1, <1>4, <2>1
    <3>3. CASE p + w <= ep
      <4>1. Beyond(p + 2, v, ep) = p + w /\ p + w \in Nat
        BY <1>1, <1>4, <3>2, <3>3 DEF Beyond
      <4>2. Moved(r, r2, p + w, r.last, f, f)
        BY <3>1, <3>2, <3>3, <4>1
      <4>3. s[j].k # "int"
        BY <1>13
      <4>. QED  BY <1>4, <1>10, <3>3, <4>1, <4>2, <4>3 DEF r2
    <3>4. CASE ~(p + w <= ep)
      <4>1. /\ Beyond(p + 2, v, ep) \in Nat
            /\ Beyond(p + 2, v, ep) > ep \/ ep = p + 2
        BY <1>1, <1>4, <2>4, <3>2, <3>4, SMTT(30) DEF Beyond
      <4>2. ep = p + 2 => Ends(F, ep, from)
        BY <1>6, <1>13, Zenon DEF Ends
      <4>. QED  BY <1>4, <1>10, <3>1, <3>4, <4>1, <4>2 DEF r2
    <3>. QED  BY <3>3, <3>4
  <2>5. CASE ~(p + 2 <= ep)
    <3>1. PICK x : Moved(r, r2, Beyond(p, 2, ep), r.last, f, x)
      BY <1>8, <2>2, <2>5, GetStr DEF p
    <3>2. Beyond(p, 2, ep) \in Nat /\ (Beyond(p, 2, ep) > ep \/ Ends(F, ep, from))
      BY <1>9, <1>11, <2>5
    <3>3. ~(p + w <= ep)
      BY <1>1, <1>4, <2>1, <2>5
    <3>. QED  BY <1>4, <1>10, <3>1, <3>2, <3>3 DEF r2
  <2>. QED  BY <2>4, <2>5
<1>14. CASE s[j].k = "data"
  <2>1. w = v /\ j > 1 /\ s[j - 1].k = "int" /\ s[j - 1].v = v
    BY <1>7, <1>14 DEF Alike, Counted, w, v
  <2>2. r.last = v
    BY <1>3, <2>1 DEF GotTo
  <2>3. {c \in Here(r, "data") : c.w = r.last} = {d}
    BY <1>5, <1>6, <1>14, <2>1, <2>2
  <2>4. r2 = buf_alloc(r, f, v, {d})
    BY <1>8, <1>14, <2>2, <2>3 DEF Get1, r2
  <2>5. NameOf({d}) = f
    BY <1>6, ReadOf
  <2>6. Moved(r, r2, Beyond(p, v, ep), v, f, IF p + v <= ep THEN f ELSE Nothing)
    BY <1>1, <2>2, <2>4, <2>5, GetAlloc DEF p
  <2>7. s[j].k # "int"
    BY <1>14
  <2>8. CASE p + w <= ep
    <3>1. Beyond(p, v, ep) = p + w /\ p + w \in Nat
      BY <1>1, <1>4, <2>1, <2>8 DEF Beyond
    <3>2. Moved(r, r2, p + w, v, f, f)
      BY <2>1, <2>6, <2>8, <3>1
    <3>. QED  BY <1>1, <1>10, <2>7, <2>8, <3>1, <3>2 DEF r2
  <2>9. CASE ~(p + w <= ep)
    <3>1. Beyond(p, v, ep) \in Nat /\ (Beyond(p, v, ep) > ep \/ Ends(F, ep, from))
      BY <1>1, <1>9, <1>11, <2>1, <2>9
    <3>2. Moved(r, r2, Beyond(p, v, ep), v, f, Nothing)
      BY <2>1, <2>6, <2>9
    <3>. QED  BY <1>1, <1>10, <2>9, <3>1, <3>2 DEF r2
  <2>. QED  BY <2>8, <2>9
<1>. QED  BY <1>1, <1>12, <1>13, <1>14

\* Beyond the end nothing is read any more.
LEMMA GetOver ==
    ASSUME NEW F, NEW ep, NEW r, Reading(r, F, ep), r.p > ep, NEW g \in ItemT
    PROVE  Reading(Get1(r, g), F, ep) /\ Get1(r, g).p > ep /\ Get1(r, g).err = r.err
<1>. DEFINE r2 == Get1(r, g)
<1>1. r.p \in Nat /\ ep \in Nat /\ r.last \in Nat
  BY DEF Reading
<1>2. g.w \in Nat /\ g.k \in {"int", "str", "data"} /\ 0 \in Nat /\ 2 \in Nat
  BY DEF ItemT
<1>3. \A len \in Nat : ~(r.p + len <= ep) /\ Beyond(r.p, len, ep) = r.p
  BY <1>1 DEF Beyond
<1>4. ASSUME NEW last \in Nat, NEW f, NEW x, Moved(r, r2, r.p, last, f, x)
      PROVE  Reading(r2, F, ep) /\ r2.p > ep /\ r2.err = r.err
  <2>. HIDE DEF r2
  <2>1. PICK p : p = r.p
    OBVIOUS
  <2>2. Reading(r2, F, ep) /\ r2.p = p /\ r2.err = r.err
    <3>1. Moved(r, r2, p, last, f, x) /\ p \in Nat
      BY <1>1, <1>4, <2>1
    <3>2. last \in Nat /\ Reading(r, F, ep)
      BY <1>4
    <3>. QED  BY <3>1, <3>2 DEF Reading, Moved
  <2>. QED  BY <2>1, <2>2
<1>5. CASE g.k = "int"
  <2>1. r2 = buf_get_int(r, g)
    BY <1>5 DEF Get1
  <2>2. ~(r.p + g.w <= ep) /\ Beyond(r.p, g.w, ep) = r.p
    BY <1>2, <1>3
  <2>3. Moved(r, buf_get_int(r, g), Beyond(r.p, g.w, ep), 0, g.f, Nothing)
    BY <1>2, <2>2, GetInt
  <2>. QED  BY <1>2, <1>4, <2>1, <2>2, <2>3
<1>6. CASE g.k = "str"
  <2>1. r2 = buf_get_str(r, g)
    BY <1>6 DEF Get1
  <2>2. ~(r.p + 2 <= ep) /\ Beyond(r.p, 2, ep) = r.p
    BY <1>2, <1>3
  <2>3. PICK x : Moved(r, buf_get_str(r, g), Beyond(r.p, 2, ep), r.last, g.f, x)
    BY <2>2, GetStr
  <2>. QED  BY <1>1, <1>4, <2>1, <2>2, <2>3
<1>7. CASE g.k = "data"
  <2>. DEFINE S == {c \in Here(r, "data") : c.w = r.last}
  <2>1. r2 = buf_alloc(r, g.f, r.last, S)
    BY <1>7 DEF Get1
  <2>. HIDE DEF S
  <2>2. ~(r.p + r.last <= ep) /\ Beyond(r.p, r.last, ep) = r.p
    BY <1>1, <1>3
  <2>3. Moved(r, buf_alloc(r, g.f, r.last, S), Beyond(r.p, r.last, ep), r.last, g.f, Nothing)
    BY <1>1, <2>2, GetAlloc
  <2>. QED  BY <1>1, <1>4, <2>1, <2>2, <2>3
<1>. QED  BY <1>2, <1>5, <1>6, <1>7

\* And so on.
LEMMA GetAllOver ==
    ASSUME NEW F, NEW ep, NEW r, Reading(r, F, ep), r.p > ep, NEW g \in Seq(ItemT)
    PROVE  /\ Reading(buf_get_all(r, g), F, ep) /\ buf_get_all(r, g).p > ep
           /\ buf_get_all(r, g).err = r.err
<1>1. Len(g) \in Nat
  OBVIOUS
<1>2. PICK c : GetRun(r, g, c) /\ buf_get_all(r, g) = c[Len(g)]
  BY <1>1, GetRuns
<1>. DEFINE T == {k \in 0..Len(g) : ~(Reading(c[k], F, ep) /\ c[k].p > ep /\ c[k].err = r.err)}
<1>3. ASSUME T # {} PROVE FALSE
  <2>0. T \subseteq Nat
    OBVIOUS
  <2>. HIDE DEF T
  <2>1. PICK k \in T : \A j \in T : k <= j
    BY <1>3, <2>0, LeastNat
  <2>. USE DEF T
  <2>2. k # 0
    BY <1>2, <2>1 DEF GetRun
  <2>3. k \in 1..Len(g) /\ k - 1 \in 0..Len(g) /\ k - 1 \notin T
    BY <1>1, <2>1, <2>2
  <2>4. Reading(c[k - 1], F, ep) /\ c[k - 1].p > ep /\ c[k - 1].err = r.err
    BY <2>3
  <2>5. c[k] = Get1(c[k - 1], g[k])
    BY <1>2, <2>3 DEF GetRun
  <2>6. g[k] \in ItemT
    BY <2>3
  <2>7. Reading(c[k], F, ep) /\ c[k].p > ep /\ c[k].err = r.err
    <3>1. PICK a, h : a = c[k - 1] /\ h = g[k]
      OBVIOUS
    <3>2. Reading(a, F, ep) /\ a.p > ep /\ a.err = r.err /\ c[k] = Get1(a, h) /\ h \in ItemT
      BY <2>4, <2>5, <2>6, <3>1, Zenon
    <3>3. Reading(Get1(a, h), F, ep) /\ Get1(a, h).p > ep /\ Get1(a, h).err = a.err
      BY <3>2, GetOver
    <3>. QED  BY <3>2, <3>3, Zenon
  <2>. QED  BY <2>1, <2>7
<1>4. Len(g) \in 0..Len(g)
  BY <1>1
<1>. QED  BY <1>2, <1>3, <1>4

\* All that fits is read; where the packet ends too early, it ends where a field
\* does or the reader is beyond the end.
LEMMA GetAll ==
    ASSUME NEW s, NEW g, NEW n, Matched(s, g, n), NEW q, Laid(s, q), NEW from \in Nat,
           NEW F, Held(F, s, q, from), NEW ep, NEW r, Reading(r, F, ep),
           r.p = from, from <= ep
    PROVE  /\ from + n <= ep =>
                /\ Reading(buf_get_all(r, g), F, ep) /\ buf_get_all(r, g).err = r.err
                /\ GotTo(buf_get_all(r, g), s, q, from, Len(s), ep)
           /\ ~(from + n <= ep) =>
                \/ Ends(F, ep, from)
                \/ /\ Reading(buf_get_all(r, g), F, ep) /\ buf_get_all(r, g).err = r.err
                   /\ buf_get_all(r, g).p > ep
<1>1. /\ Len(s) \in Nat /\ Len(g) = Len(s) /\ g \in Seq(ItemT) /\ n \in Nat /\ q[0] = 0
      /\ \A k \in 0..Len(s) : q[k] \in Nat
  BY LaidFacts DEF Matched
<1>2. PICK c : GetRun(r, g, c) /\ buf_get_all(r, g) = c[Len(s)]
  BY <1>1, GetRuns
<1>3. q[Len(s)] = n
  <2>1. PICK x : Laid(s, x) /\ x[Len(s)] = n
    BY DEF Matched
  <2>2. Len(s) \in 0..Len(s)
    BY <1>1
  <2>. QED  BY <2>1, <2>2, PlacesSame
<1>. DEFINE R(k) == Reading(c[k], F, ep) /\ c[k].err = r.err
            I(k) == /\ from + q[k] <= ep => R(k) /\ GotTo(c[k], s, q, from, k, ep)
                    /\ ~(from + q[k] <= ep) => Ends(F, ep, from) \/ (R(k) /\ c[k].p > ep)
            T == {k \in 0..Len(s) : ~I(k)}
<1>4. I(0)
  <2>1. c[0] = r /\ from + q[0] = from
    BY <1>1, <1>2 DEF GetRun
  <2>2. GotTo(r, s, q, from, 0, ep)
    <3>1. \A i \in 1..0 : FALSE
      OBVIOUS
    <3>. QED  BY <2>1, <3>1 DEF GotTo
  <2>. QED  BY <2>1, <2>2
<1>5. ASSUME NEW k \in 1..Len(s), I(k - 1) PROVE I(k)
  <2>1. c[k] = Get1(c[k - 1], g[k]) /\ g[k] \in ItemT
    BY <1>1, <1>2 DEF GetRun
  <2>2. k - 1 \in 0..Len(s) /\ k \in 0..Len(s) /\ k \in (k - 1)..Len(s)
    BY <1>1
  <2>3. q[k - 1] \in Nat /\ q[k] \in Nat /\ q[k - 1] <= q[k]
    BY <2>2, PlacesGrow
  <2>4. from + q[k] <= ep => from + q[k - 1] <= ep
    <3>1. PICK a, b : a = q[k - 1] /\ b = q[k]
      OBVIOUS
    <3>2. a \in Nat /\ b \in Nat /\ a <= b
      BY <2>3, <3>1, Zenon
    <3>3. ep \in Nat
      BY DEF Reading
    <3>4. from + b <= ep => from + a <= ep
      BY <3>2, <3>3
    <3>. QED  BY <3>1, <3>4, Zenon
  <2>5. CASE from + q[k - 1] <= ep
    <3>1. R(k - 1) /\ GotTo(c[k - 1], s, q, from, k - 1, ep)
      BY <1>5, <2>5
    <3>2. /\ Reading(Get1(c[k - 1], g[k]), F, ep) /\ Get1(c[k - 1], g[k]).err = c[k - 1].err
          /\ from + q[k] <= ep => GotTo(Get1(c[k - 1], g[k]), s, q, from, k, ep)
          /\ ~(from + q[k] <= ep) => Get1(c[k - 1], g[k]).p > ep \/ Ends(F, ep, from)
      BY <3>1, GetNext
    <3>. QED  BY <2>1, <3>1, <3>2
  <2>6. CASE ~(from + q[k - 1] <= ep)
    <3>1. ~(from + q[k] <= ep)
      BY <2>4, <2>6
    <3>2. CASE Ends(F, ep, from)
      BY <3>1, <3>2
    <3>3. CASE R(k - 1) /\ c[k - 1].p > ep
      <4>1. Reading(c[k], F, ep) /\ c[k].p > ep /\ c[k].err = c[k - 1].err
        BY <2>1, <3>3, GetOver
      <4>. QED  BY <3>1, <3>3, <4>1
    <3>. QED  BY <1>5, <2>6, <3>2, <3>3
  <2>. QED  BY <2>5, <2>6
<1>. HIDE DEF I
<1>6. ASSUME T # {} PROVE FALSE
  <2>0. T \subseteq Nat
    OBVIOUS
  <2>. HIDE DEF T
  <2>1. PICK k \in T : \A j \in T : k <= j
    BY <1>6, <2>0, LeastNat
  <2>. USE DEF T
  <2>2. k # 0
    BY <1>4, <2>1
  <2>3. k \in 1..Len(s) /\ k - 1 \in 0..Len(s) /\ k - 1 \notin T
    BY <1>1, <2>1, <2>2
  <2>. QED  BY <1>5, <2>1, <2>3
<1>7. I(Len(s))
  <2>1. Len(s) \in 0..Len(s)
    BY <1>1
  <2>. QED  BY <1>6, <2>1
<1>. QED  BY <1>2, <1>3, <1>7 DEF I

----------------------------------------------------------------------------
(* np_deserialize *)

\* Getting a field does not refuse the message.
LEMMA GetErr ==
    ASSUME NEW r, NEW it \in ItemT
    PROVE  Get1(r, it).err = r.err
<1>1. it.k \in {"int", "str", "data"}
  BY DEF ItemT
<1>2. \A f, x, p, last : /\ [Got(r, f, x) EXCEPT !.p = p].err = r.err
                         /\ [Got(r, f, x) EXCEPT !.p = p, !.last = last].err = r.err
  BY DEF Got
<1>3. buf_get_int(r, it).err = r.err
  BY <1>2 DEF buf_get_int
<1>4. \A f, len, S : buf_alloc(r, f, len, S).err = r.err
  BY <1>2 DEF buf_alloc
<1>5. buf_get_str(r, it).err = r.err
  <2>1. \A p, f, len, S : buf_alloc([r EXCEPT !.p = p], f, len, S).err = r.err
    BY DEF buf_alloc, Got
  <2>. QED  BY <2>1 DEF buf_get_str
<1>. QED  BY <1>1, <1>3, <1>4, <1>5 DEF Get1

\* A field that is not a walk.
LEMMA ItemPlain ==
    ASSUME NEW r, r.err = FALSE, NEW it \in ItemT
    PROVE  GetItem(r, it) = Get1(r, it)
<1>1. it.k \in {"int", "str", "data"}
  BY DEF ItemT
<1>. QED  BY <1>1 DEF GetItem, GetWalk

\* And a sequence of them.
LEMMA ItemsPlain ==
    ASSUME NEW r, r.err = FALSE, NEW g \in Seq(ItemT)
    PROVE  GetItems(r, g) = buf_get_all(r, g) /\ buf_get_all(r, g).err = FALSE
<1>1. Len(g) \in Nat /\ \A k \in 1..Len(g) : g[k] \in ItemT
  OBVIOUS
<1>2. PICK c : GetRun(r, g, c) /\ buf_get_all(r, g) = c[Len(g)]
  BY <1>1, GetRuns
<1>. DEFINE T == {k \in 0..Len(g) : ~(c[k].err = FALSE)}
<1>3. ASSUME T # {} PROVE FALSE
  <2>0. T \subseteq Nat
    OBVIOUS
  <2>. HIDE DEF T
  <2>1. PICK k \in T : \A j \in T : k <= j
    BY <1>3, <2>0, LeastNat
  <2>. USE DEF T
  <2>2. k # 0
    BY <1>2, <2>1 DEF GetRun
  <2>3. k \in 1..Len(g) /\ k - 1 \in 0..Len(g) /\ k - 1 \notin T
    BY <1>1, <2>1, <2>2
  <2>4. c[k] = Get1(c[k - 1], g[k]) /\ g[k] \in ItemT
    BY <1>1, <1>2, <2>3 DEF GetRun
  <2>5. PICK a, h : a = c[k - 1] /\ h = g[k]
    OBVIOUS
  <2>6. a.err = FALSE /\ h \in ItemT /\ c[k] = Get1(a, h)
    BY <2>3, <2>4, <2>5, Zenon
  <2>7. Get1(a, h).err = a.err
    BY <2>6, GetErr
  <2>. QED  BY <2>1, <2>6, <2>7
<1>4. ASSUME NEW k \in 1..Len(g) PROVE c[k] = GetItem(c[k - 1], g[k])
  <2>1. c[k] = Get1(c[k - 1], g[k]) /\ g[k] \in ItemT /\ k - 1 \in 0..Len(g)
    BY <1>1, <1>2 DEF GetRun
  <2>2. PICK a, h : a = c[k - 1] /\ h = g[k]
    OBVIOUS
  <2>3. a.err = FALSE /\ h \in ItemT /\ c[k] = Get1(a, h)
    BY <1>3, <2>1, <2>2
  <2>4. GetItem(a, h) = Get1(a, h)
    BY <2>3, ItemPlain
  <2>. QED  BY <2>2, <2>3, <2>4
<1>5. ItemsRun(r, g, c)
  BY <1>2, <1>4 DEF ItemsRun, GetRun
<1>6. GetItems(r, g) = c[Len(g)]
  BY <1>1, <1>5, ItemsOnly
<1>7. c[Len(g)].err = FALSE
  <2>1. Len(g) \in 0..Len(g)
    BY <1>1
  <2>. QED  BY <1>3, <2>1
<1>. QED  BY <1>2, <1>6, <1>7

\* What np_deserialize asks a message of type t for, after the size.
Asked(t, d) == I8("id") \o I16("tag") \o Gets(t, d)

\* Where np_deserialize starts.
Start0(q, junk) ==
    [p |-> 4, ep |-> q.size, last |-> 0, got |-> {}, err |-> FALSE, junk |-> junk, fields |-> q.fields]

LEMMA Starting ==
    ASSUME NEW q, q.size \in Nat, NEW junk \in Nat
    PROVE  /\ Reading(Start0(q, junk), q.fields, q.size)
           /\ Start0(q, junk).p = 4 /\ Start0(q, junk).err = FALSE
BY DEF Start0, Reading

\* A message of a type that is known.
LEMMA Deserialized ==
    ASSUME NEW q, NEW d, NEW junk, q.t \in Known
    PROVE  LET r == GetItems(Start0(q, junk), Asked(q.t, d)) IN
           np_deserialize(q, d, junk) = [ok |-> ~r.err /\ ~buf_check_overflow(r), got |-> r.got]
<1>. DEFINE r0 == [p |-> 4, ep |-> q.size, last |-> 0, got |-> {}, err |-> q.t \notin Known,
                   junk |-> junk, fields |-> q.fields]
<1>1. r0 = Start0(q, junk) /\ ~r0.err
  BY DEF Start0
<1>. QED  BY <1>1 DEF np_deserialize, Asked

\* One that is not.
LEMMA Unknown ==
    ASSUME NEW q, NEW d, NEW junk, q.t \notin Known
    PROVE  np_deserialize(q, d, junk).ok = FALSE
BY DEF np_deserialize

\* The fields s were read from packet q, or it is too short and refused, or it
\* ends where a field does.
Outcome(q, s, n, D) ==
    /\ q.size = 4 + n => D.ok /\ \A i \in 1..Len(s) : <<s[i].f, s[i].f>> \in D.got
    /\ q.size < 4 + n => ~D.ok \/ Ends(q.fields, q.size, 4)

\* Packet q has the fields s, which are read by asking for g and take n bytes.
Packed(q, s, g, n) ==
    /\ Matched(s, g, n) /\ q.size \in Nat /\ q.size >= 7
    /\ \E pl : Laid(s, pl) /\ Held(q.fields, s, pl, 4)

\* r has read all the fields s of the packet, or is beyond its end.
ReadOut(q, s, n, r) ==
    /\ 4 + n <= q.size =>
         /\ Reading(r, q.fields, q.size) /\ r.err = FALSE /\ r.p = 4 + n
         /\ \A i \in 1..Len(s) : <<s[i].f, s[i].f>> \in r.got
         /\ Len(s) > 0 /\ s[Len(s)].k = "int" => r.last = s[Len(s)].v
    /\ q.size < 4 + n =>
         \/ Ends(q.fields, q.size, 4)
         \/ Reading(r, q.fields, q.size) /\ r.err = FALSE /\ r.p > q.size

\* What g gets of a packet.
LEMMA GetPacked ==
    ASSUME NEW q, NEW s, NEW g, NEW n, Packed(q, s, g, n), NEW junk \in Nat
    PROVE  ReadOut(q, s, n, buf_get_all(Start0(q, junk), g))
<1>. DEFINE F == q.fields
            ep == q.size
            r0 == Start0(q, junk)
<1>1. PICK pl : Laid(s, pl) /\ Held(F, s, pl, 4)
  BY DEF Packed
<1>2. Matched(s, g, n) /\ ep \in Nat /\ 4 <= ep /\ 4 \in Nat /\ n \in Nat
  BY DEF Packed, Matched
<1>3. Reading(r0, F, ep) /\ r0.p = 4 /\ r0.err = FALSE
  BY <1>2, Starting
<1>. HIDE DEF F, ep, r0
<1>4. /\ 4 + n <= ep =>
           /\ Reading(buf_get_all(r0, g), F, ep) /\ buf_get_all(r0, g).err = r0.err
           /\ GotTo(buf_get_all(r0, g), s, pl, 4, Len(s), ep)
      /\ ~(4 + n <= ep) =>
           \/ Ends(F, ep, 4)
           \/ /\ Reading(buf_get_all(r0, g), F, ep) /\ buf_get_all(r0, g).err = r0.err
              /\ buf_get_all(r0, g).p > ep
  BY <1>1, <1>2, <1>3, GetAll
<1>5. pl[Len(s)] = n
  <2>1. PICK x : Laid(s, x) /\ x[Len(s)] = n
    BY <1>2 DEF Matched
  <2>2. Len(s) \in 0..Len(s)
    BY <1>1, LaidFacts
  <2>. QED  BY <1>1, <2>1, <2>2, PlacesSame
<1>6. ep < 4 + n => ~(4 + n <= ep)
  BY <1>2
<1>. QED  BY <1>3, <1>4, <1>5, <1>6 DEF GotTo, ReadOut, F, ep, r0

\* A message without walks.
LEMMA OutcomePlain ==
    ASSUME NEW q, NEW s, NEW g, NEW n, Packed(q, s, g, n), NEW junk \in Nat, NEW d,
           q.t \in Known, Asked(q.t, d) = g
    PROVE  Outcome(q, s, n, np_deserialize(q, d, junk))
<1>. DEFINE r0 == Start0(q, junk)
            r == buf_get_all(r0, g)
            D == np_deserialize(q, d, junk)
<1>1. g \in Seq(ItemT) /\ n \in Nat /\ q.size \in Nat
  BY DEF Packed, Matched
<1>2. r0.err = FALSE
  BY <1>1, Starting
<1>3. GetItems(r0, g) = r /\ r.err = FALSE
  <2>. HIDE DEF r0
  <2>. QED  BY <1>1, <1>2, ItemsPlain
<1>4. D = [ok |-> ~r.err /\ ~buf_check_overflow(r), got |-> r.got]
  BY <1>3, Deserialized
<1>5. D.ok = (~r.err /\ ~buf_check_overflow(r)) /\ D.got = r.got
  BY <1>4
<1>. HIDE DEF r0, r, D
<1>6. ReadOut(q, s, n, r)
  BY GetPacked DEF r, r0
<1>7. ASSUME q.size = 4 + n PROVE D.ok /\ \A i \in 1..Len(s) : <<s[i].f, s[i].f>> \in D.got
  <2>1. /\ Reading(r, q.fields, q.size) /\ r.err = FALSE /\ r.p = 4 + n
        /\ \A i \in 1..Len(s) : <<s[i].f, s[i].f>> \in r.got
    BY <1>1, <1>6, <1>7 DEF ReadOut
  <2>2. ~buf_check_overflow(r)
    BY <1>1, <1>7, <2>1 DEF buf_check_overflow, Reading
  <2>. QED  BY <1>5, <2>1, <2>2
<1>8. ASSUME q.size < 4 + n, ~Ends(q.fields, q.size, 4) PROVE ~D.ok
  <2>1. Reading(r, q.fields, q.size) /\ r.p > q.size
    BY <1>6, <1>8 DEF ReadOut
  <2>2. buf_check_overflow(r)
    BY <2>1 DEF buf_check_overflow, Reading
  <2>. QED  BY <1>5, <2>2
<1>. QED  BY <1>7, <1>8 DEF Outcome, D

\* A message that is asked for one field more than it has.
LEMMA OutcomeMore ==
    ASSUME NEW q, NEW s, NEW g, NEW n, Packed(q, s, g, n), NEW junk \in Nat, NEW d,
           NEW e \in ItemT, e.k # "data", e.k = "int" => e.w > 0,
           q.t \in Known, Asked(q.t, d) = g \o <<e>>
    PROVE  Outcome(q, s, n, np_deserialize(q, d, junk))
<1>. DEFINE r0 == Start0(q, junk)
            r == buf_get_all(r0, g)
            r2 == Get1(r, e)
            D == np_deserialize(q, d, junk)
            ep == q.size
<1>1. g \in Seq(ItemT) /\ n \in Nat /\ ep \in Nat
  BY DEF Packed, Matched
<1>2. r0.err = FALSE
  BY <1>1, Starting
<1>3. GetItems(r0, g \o <<e>>) = r2 /\ r2.err = FALSE
  <2>. HIDE DEF r0
  <2>1. GetItems(r0, g) = r /\ r.err = FALSE
    BY <1>1, <1>2, ItemsPlain
  <2>2. <<e>> \in Seq(ItemT)
    BY OneOf
  <2>3. GetItems(r0, g \o <<e>>) = GetItems(GetItems(r0, g), <<e>>)
    <3>1. PICK o : o = <<e>>
      OBVIOUS
    <3>2. o \in Seq(ItemT)
      BY <2>2, <3>1
    <3>3. GetItems(r0, g \o o) = GetItems(GetItems(r0, g), o)
      BY <1>1, <3>2, ItemsConcat
    <3>. QED  BY <3>1, <3>3
  <2>. HIDE DEF r
  <2>4. GetItems(r, <<e>>) = GetItem(r, e)
    BY ItemsOne
  <2>5. GetItem(r, e) = Get1(r, e) /\ Get1(r, e).err = r.err
    BY <2>1, ItemPlain, GetErr
  <2>. QED  BY <2>1, <2>3, <2>4, <2>5
<1>4. D = [ok |-> ~r2.err /\ ~buf_check_overflow(r2), got |-> r2.got]
  <2>. HIDE DEF r0, r2
  <2>1. D = [ok |-> ~GetItems(r0, Asked(q.t, d)).err /\ ~buf_check_overflow(GetItems(r0, Asked(q.t, d))),
             got |-> GetItems(r0, Asked(q.t, d)).got]
    BY Deserialized DEF r0
  <2>2. GetItems(r0, Asked(q.t, d)) = r2
    BY <1>3
  <2>. HIDE DEF D
  <2>. QED  BY <2>1, <2>2
<1>5. D.ok = (~r2.err /\ ~buf_check_overflow(r2)) /\ D.got = r2.got
  BY <1>4
<1>6. ReadOut(q, s, n, r)
  BY GetPacked
<1>. HIDE DEF r0, r, D
<1>7. ASSUME ep = 4 + n PROVE D.ok /\ \A i \in 1..Len(s) : <<s[i].f, s[i].f>> \in D.got
  <2>1. /\ Reading(r, q.fields, ep) /\ r.err = FALSE /\ r.p = ep
        /\ \A i \in 1..Len(s) : <<s[i].f, s[i].f>> \in r.got
    BY <1>1, <1>6, <1>7 DEF ReadOut
  <2>2. \A len \in Nat : len > 0 => ~(r.p + len <= ep) /\ Beyond(r.p, len, ep) = r.p
    BY <1>1, <2>1 DEF Beyond
  <2>3. e.w \in Nat /\ e.k \in {"int", "str"}
    BY DEF ItemT
  <2>4. \E x, last : Moved(r, r2, r.p, last, e.f, x)
    <3>1. CASE e.k = "int"
      <4>1. r2 = buf_get_int(r, e)
        BY <3>1 DEF Get1
      <4>2. ~(r.p + e.w <= ep) /\ Beyond(r.p, e.w, ep) = r.p
        BY <2>2, <2>3, <3>1
      <4>3. Moved(r, buf_get_int(r, e), Beyond(r.p, e.w, ep), 0, e.f, Nothing)
        BY <2>1, <2>3, <4>2, GetInt
      <4>. QED  BY <4>1, <4>2, <4>3
    <3>2. CASE e.k = "str"
      <4>1. r2 = buf_get_str(r, e)
        BY <3>2 DEF Get1
      <4>2. ~(r.p + 2 <= ep) /\ Beyond(r.p, 2, ep) = r.p
        BY <2>2
      <4>3. PICK x : Moved(r, buf_get_str(r, e), Beyond(r.p, 2, ep), r.last, e.f, x)
        BY <2>1, <4>2, GetStr
      <4>. QED  BY <4>1, <4>2, <4>3
    <3>. QED  BY <2>3, <3>1, <3>2
  <2>. HIDE DEF r2
  <2>5. r2.p = r.p /\ r2.ep = r.ep /\ r2.err = r.err /\ r.got \subseteq r2.got
    BY <2>4 DEF Moved
  <2>6. ~buf_check_overflow(r2)
    BY <1>1, <2>1, <2>5 DEF buf_check_overflow, Reading
  <2>. QED  BY <1>5, <2>1, <2>5, <2>6
<1>8. ASSUME ep < 4 + n, ~Ends(q.fields, ep, 4) PROVE ~D.ok
  <2>1. Reading(r, q.fields, ep) /\ r.p > ep
    BY <1>6, <1>8 DEF ReadOut
  <2>2. Reading(r2, q.fields, ep) /\ r2.p > ep
    BY <2>1, GetOver
  <2>3. buf_check_overflow(r2)
    BY <2>2 DEF buf_check_overflow, Reading
  <2>. QED  BY <1>5, <2>3
<1>. QED  BY <1>7, <1>8 DEF Outcome, D

\* No data are among the fields.
NoData(s) == \A k \in 1..Len(s) : s[k].k # "data"

\* The first fields of a packet.
LEMMA PackedPrefix ==
    ASSUME NEW q, NEW s, NEW g, NEW n, NEW t, NEW h, NEW m, NEW l, Packed(q, s \o t, l, m),
           Matched(s, g, n), Matched(t, h, m - n), NoData(t)
    PROVE  Packed(q, s, g, n)
<1>. DEFINE u == s \o t
            a == Len(s)
            b == Len(t)
            F == q.fields
<1>1. s \in Seq(ItemT) /\ t \in Seq(ItemT) /\ a \in Nat /\ b \in Nat
  BY DEF Matched
<1>2. Len(u) = a + b /\ \A k \in 1..(a + b) : u[k] = IF k <= a THEN s[k] ELSE t[k - a]
  BY <1>1, ConcatProperties
<1>3. PICK pl : Laid(u, pl) /\ Held(F, u, pl, 4)
  BY DEF Packed
<1>4. /\ \A k \in 0..(a + b) : pl[k] \in Nat
      /\ pl[0] = 0 /\ \A k \in 1..(a + b) : pl[k] = pl[k - 1] + u[k].w
  <2>1. /\ \A k \in 0..Len(u) : pl[k] \in Nat
        /\ pl[0] = 0 /\ \A k \in 1..Len(u) : pl[k] = pl[k - 1] + u[k].w
    <3>. HIDE DEF u
    <3>. QED  BY <1>3, LaidFacts
  <2>. QED  BY <1>2, <2>1
<1>. DEFINE x == [k \in 0..a |-> pl[k]]
<1>. HIDE DEF u, a, b, F
<1>5. \A k \in 0..a : k \in 0..(a + b) /\ x[k] = pl[k]
  BY <1>1
<1>6. Laid(s, x)
  <2>1. x \in [0..a -> Nat] /\ x[0] = 0
    BY <1>1, <1>4, <1>5
  <2>2. ASSUME NEW k \in 1..a PROVE x[k] = x[k - 1] + s[k].w
    <3>1. k \in 1..(a + b) /\ k \in 0..a /\ k - 1 \in 0..a /\ k <= a
      BY <1>1
    <3>2. u[k] = s[k]
      BY <1>2, <3>1
    <3>. QED  BY <1>4, <1>5, <3>1, <3>2
  <2>. HIDE DEF x
  <2>. QED  BY <1>1, <2>1, <2>2 DEF Laid, a
<1>7. FieldsOf(s, x, 4) \subseteq F
  <2>1. SUFFICES ASSUME NEW k \in 1..a PROVE Field(s[k], 4 + x[k - 1]) \in F
    BY DEF FieldsOf, a
  <2>2. k \in 1..(a + b) /\ k - 1 \in 0..a /\ k <= a
    BY <1>1
  <2>3. u[k] = s[k] /\ x[k - 1] = pl[k - 1]
    BY <1>2, <1>5, <2>2
  <2>4. Field(u[k], 4 + pl[k - 1]) \in FieldsOf(u, pl, 4)
    BY <1>2, <2>2 DEF FieldsOf
  <2>. QED  BY <1>3, <2>3, <2>4 DEF Held
<1>8. ASSUME NEW c \in F
      PROVE  c \in FieldsOf(s, x, 4) \/ c.at < 4 \/ (c.at \in Nat /\ c.at >= 4 + x[a] /\ c.k # "data")
  <2>0. a \in 0..a /\ x[a] = pl[a] /\ a \in 0..(a + b) /\ a + b \in a..(a + b) /\ a + b \in 0..(a + b)
    BY <1>1, <1>5
  <2>1. CASE c.at < 4
    BY <2>1
  <2>2. CASE c.at \in Nat /\ c.at >= 4 + pl[a + b] /\ c.k # "data"
    <3>1. pl[a] <= pl[a + b] /\ pl[a] \in Nat /\ pl[a + b] \in Nat
      BY <1>2, <1>3, <2>0, PlacesGrow
    <3>2. PICK y, z : y = pl[a] /\ z = pl[a + b]
      OBVIOUS
    <3>3. c.at >= 4 + z /\ y <= z /\ y \in Nat /\ z \in Nat
      BY <2>2, <3>1, <3>2
    <3>4. c.at >= 4 + y
      BY <2>2, <3>3
    <3>. QED  BY <2>0, <2>2, <3>2, <3>4
  <2>3. CASE c \in FieldsOf(u, pl, 4)
    <3>1. PICK k \in 1..(a + b) : c = Field(u[k], 4 + pl[k - 1])
      BY <1>2, <2>3 DEF FieldsOf
    <3>2. CASE k <= a
      <4>1. u[k] = s[k] /\ k - 1 \in 0..a /\ k \in 1..a
        BY <1>1, <1>2, <3>2
      <4>2. c = Field(s[k], 4 + x[k - 1])
        BY <1>5, <3>1, <4>1
      <4>. QED  BY <4>1, <4>2 DEF FieldsOf, a
    <3>3. CASE ~(k <= a)
      <4>1. k - a \in 1..b /\ k - 1 \in a..(a + b) /\ k - 1 \in 0..(a + b)
        BY <1>1, <3>3
      <4>2. u[k] = t[k - a]
        BY <1>2, <3>3
      <4>3. c.k # "data" /\ c.at = 4 + pl[k - 1]
        BY <3>1, <4>1, <4>2 DEF Field, NoData, b
      <4>4. pl[a] <= pl[k - 1] /\ pl[a] \in Nat /\ pl[k - 1] \in Nat
        BY <1>2, <1>3, <2>0, <4>1, PlacesGrow
      <4>5. PICK y, z : y = pl[a] /\ z = pl[k - 1]
        OBVIOUS
      <4>6. y \in Nat /\ z \in Nat /\ y <= z /\ c.at = 4 + z
        BY <4>3, <4>4, <4>5
      <4>7. c.at >= 4 + y /\ c.at \in Nat
        BY <4>6
      <4>. QED  BY <2>0, <4>3, <4>5, <4>7
    <3>. QED  BY <3>2, <3>3
  <2>4. c \in FieldsOf(u, pl, 4) \/ c.at < 4 \/ (c.at \in Nat /\ c.at >= 4 + pl[Len(u)] /\ c.k # "data")
    BY <1>3 DEF Held
  <2>. QED  BY <1>2, <2>1, <2>2, <2>3, <2>4
<1>. HIDE DEF x
<1>9. Held(F, s, x, 4)
  BY <1>7, <1>8 DEF Held, a
<1>. QED  BY <1>6, <1>9 DEF Packed, F


----------------------------------------------------------------------------
(* The elements of a walk *)

\* The function that FlattenSeq defines.
FlatFold(S, m, c) == c = [i \in 1..m |-> IF i = 1 THEN S[i] ELSE c[i - 1] \o S[i]]

\* c is what FlattenSeq goes through.
FlatRun(S, l, c) == c[1] = S[1] /\ \A i \in 2..l : c[i] = c[i - 1] \o S[i]

\* There is such a function.
LEMMA FlatExists ==
    ASSUME NEW S, NEW m \in Nat \ {0}
    PROVE  \E c : FlatFold(S, m, c)
<1>. DEFINE F(c, n) == [i \in 1..n |-> IF i = 1 THEN S[i] ELSE c[i - 1] \o S[i]]
            T == {n \in 1..m : ~\E c : c = F(c, n)}
<1>1. SUFFICES ASSUME T # {} PROVE FALSE
  <2>. HIDE DEF F
  <2>1. m \in 1..m
    OBVIOUS
  <2>2. \E c : c = F(c, m)
    BY <2>1
  <2>. QED  BY <2>2 DEF F, FlatFold
<1>0. T \subseteq Nat
  <2>1. T \subseteq 1..m /\ 1..m \subseteq Nat
    <3>. HIDE DEF F
    <3>. QED  OBVIOUS
  <2>. QED  BY <2>1
<1>. HIDE DEF T
<1>2. PICK n \in T : \A j \in T : n <= j
  BY <1>0, <1>1, LeastNat
<1>. USE DEF T
<1>. HIDE DEF F
<1>3. CASE n = 1
  <2>. DEFINE c == [i \in 1..1 |-> S[1]]
  <2>1. F(c, 1) = c
    <3>1. \A i \in 1..1 : i = 1
      OBVIOUS
    <3>. QED  BY <3>1 DEF F
  <2>. QED  BY <1>2, <1>3, <2>1
<1>4. CASE n # 1
  <2>1. n - 1 \in 1..m /\ n - 1 \notin T /\ n \in 2..m /\ n \in Nat
    BY <1>2, <1>4
  <2>2. PICK d : d = F(d, n - 1)
    BY <2>1
  <2>. DEFINE c == [i \in 1..n |-> IF i = n THEN d[n - 1] \o S[n] ELSE d[i]]
  <2>3. ASSUME NEW i \in 1..n PROVE c[i] = IF i = 1 THEN S[i] ELSE c[i - 1] \o S[i]
    <3>1. CASE i = n
      <4>1. n - 1 \in 1..n /\ n - 1 # n /\ i # 1
        BY <1>4, <2>1, <3>1
      <4>2. c[n - 1] = d[n - 1]
        BY <4>1
      <4>. QED  BY <3>1, <4>1, <4>2
    <3>2. CASE i # n
      <4>1. i \in 1..(n - 1) /\ (i # 1 => i - 1 \in 1..n /\ i - 1 # n)
        BY <2>1, <3>2
      <4>2. d[i] = IF i = 1 THEN S[i] ELSE d[i - 1] \o S[i]
        <5>. DEFINE G(e) == [j \in 1..(n - 1) |-> IF j = 1 THEN S[j] ELSE e[j - 1] \o S[j]]
        <5>1. d = G(d)
          BY <2>2 DEF F
        <5>2. G(d)[i] = IF i = 1 THEN S[i] ELSE d[i - 1] \o S[i]
          BY <4>1
        <5>. HIDE DEF G
        <5>. QED  BY <5>1, <5>2
      <4>3. c[i] = d[i] /\ (i # 1 => c[i - 1] = d[i - 1])
        BY <3>2, <4>1
      <4>. QED  BY <4>2, <4>3
    <3>. QED  BY <3>1, <3>2
  <2>4. c = [i \in 1..n |-> c[i]]
    OBVIOUS
  <2>. HIDE DEF c
  <2>5. c = F(c, n)
    BY <2>3, <2>4 DEF F
  <2>. QED  BY <1>2, <2>5
<1>. QED  BY <1>3, <1>4

\* FlattenSeq goes through it.
LEMMA FlatRuns ==
    ASSUME NEW S, NEW l \in Nat \ {0}, Len(S) = l
    PROVE  \E c : FlatRun(S, l, c) /\ FlattenSeq(S) = c[l]
<1>. DEFINE F(c) == [i \in 1..l |-> IF i = 1 THEN S[i] ELSE c[i - 1] \o S[i]]
            d == CHOOSE c : c = F(c)
<1>1. \E c : c = F(c)
  <2>1. PICK c : FlatFold(S, l, c)
    BY FlatExists
  <2>2. c = F(c)
    BY <2>1 DEF FlatFold
  <2>. HIDE DEF F
  <2>. QED  BY <2>2
<1>2. FlattenSeq(S) = d[l]
  BY DEF FlattenSeq
<1>3. d = F(d)
  <2>. HIDE DEF F
  <2>. QED  BY <1>1
<1>. HIDE DEF d
<1>4. ASSUME NEW i \in 1..l PROVE d[i] = IF i = 1 THEN S[i] ELSE d[i - 1] \o S[i]
  <2>1. F(d)[i] = IF i = 1 THEN S[i] ELSE d[i - 1] \o S[i]
    OBVIOUS
  <2>. HIDE DEF F
  <2>. QED  BY <1>3, <2>1
<1>. HIDE DEF F
<1>5. 1 \in 1..l /\ \A i \in 2..l : i \in 1..l /\ i # 1
  OBVIOUS
<1>6. d[1] = S[1]
  BY <1>4, <1>5
<1>7. ASSUME NEW i \in 2..l PROVE d[i] = d[i - 1] \o S[i]
  BY <1>4, <1>5
<1>8. FlatRun(S, l, d)
  BY <1>6, <1>7 DEF FlatRun
<1>. QED  BY <1>2, <1>8

\* One layout behind another, without data.
LEMMA NoDataCat ==
    ASSUME NEW s \in Seq(ItemT), NEW t \in Seq(ItemT), NoData(s), NoData(t)
    PROVE  NoData(s \o t)
<1>1. Len(s) \in Nat /\ Len(t) \in Nat /\ Len(s \o t) = Len(s) + Len(t)
      /\ \A k \in 1..(Len(s) + Len(t)) : (s \o t)[k] = IF k <= Len(s) THEN s[k] ELSE t[k - Len(s)]
  BY ConcatProperties
<1>2. ASSUME NEW k \in 1..(Len(s) + Len(t)) PROVE (s \o t)[k].k # "data"
  <2>1. CASE k <= Len(s)
    BY <1>1, <2>1 DEF NoData
  <2>2. CASE ~(k <= Len(s))
    <3>1. k - Len(s) \in 1..Len(t)
      BY <1>1, <2>2
    <3>. QED  BY <1>1, <2>2, <3>1 DEF NoData
  <2>. QED  BY <2>1, <2>2
<1>. QED  BY <1>1, <1>2 DEF NoData

\* Layouts of the same size behind each other.
Alternate(S, G, l, w) ==
    /\ Len(S) = l /\ Len(G) = l
    /\ \A i \in 1..l : Matched(S[i], G[i], w) /\ NoData(S[i])

LEMMA FlatMatched ==
    ASSUME NEW l \in Nat \ {0}, NEW S, NEW G, NEW w \in Nat, Alternate(S, G, l, w)
    PROVE  Matched(FlattenSeq(S), FlattenSeq(G), l * w) /\ NoData(FlattenSeq(S))
<1>1. PICK c : FlatRun(S, l, c) /\ FlattenSeq(S) = c[l]
  BY FlatRuns DEF Alternate
<1>2. PICK d : FlatRun(G, l, d) /\ FlattenSeq(G) = d[l]
  BY FlatRuns DEF Alternate
<1>. DEFINE P(i) == Matched(c[i], d[i], i * w) /\ NoData(c[i])
            T == {i \in 1..l : ~P(i)}
<1>3. ASSUME T # {} PROVE FALSE
  <2>0. T \subseteq Nat
    OBVIOUS
  <2>. HIDE DEF T
  <2>1. PICK i \in T : \A j \in T : i <= j
    BY <1>3, <2>0, LeastNat
  <2>. USE DEF T
  <2>. HIDE DEF P
  <2>2. i \in 1..l /\ ~P(i) /\ i \in Nat
    BY <2>1
  <2>3. Matched(S[i], G[i], w) /\ NoData(S[i])
    BY <2>2 DEF Alternate
  <2>4. CASE i = 1
    <3>1. c[1] = S[1] /\ d[1] = G[1] /\ 1 * w = w
      BY <1>1, <1>2 DEF FlatRun
    <3>2. P(1)
      BY <2>3, <2>4, <3>1 DEF P
    <3>. QED  BY <2>2, <2>4, <3>2
  <2>5. CASE i # 1
    <3>1. i - 1 \in 1..l /\ i - 1 \notin T /\ i \in 2..l
      BY <2>1, <2>2, <2>5
    <3>2. P(i - 1)
      BY <3>1
    <3>3. Matched(c[i - 1], d[i - 1], (i - 1) * w) /\ NoData(c[i - 1])
      BY <3>2 DEF P
    <3>4. c[i] = c[i - 1] \o S[i] /\ d[i] = d[i - 1] \o G[i]
      BY <1>1, <1>2, <3>1 DEF FlatRun
    <3>5. Matched(c[i - 1] \o S[i], d[i - 1] \o G[i], (i - 1) * w + w)
      BY <2>3, <3>3, MatchedCat
    <3>6. (i - 1) * w + w = i * w
      BY <2>2
    <3>7. NoData(c[i - 1] \o S[i])
      BY <2>3, <3>3, NoDataCat DEF Matched
    <3>8. P(i)
      BY <3>4, <3>5, <3>6, <3>7 DEF P
    <3>. QED  BY <2>2, <3>8
  <2>. QED  BY <2>4, <2>5
<1>4. l \in 1..l
  OBVIOUS
<1>. QED  BY <1>1, <1>2, <1>3, <1>4

\* l strings of a bytes, and l qids.
Strs(f, l, a) == FlattenSeq([i \in 1..l |-> StrN(f, i, a)])
Qids(f, l) == FlattenSeq([i \in 1..l |-> QidN(f, 3 * i)])

LEMMA EachIs ==
    ASSUME NEW f, NEW l, NEW a
    PROVE  /\ Each(LAMBDA i : StrN(f, i, a), l) = Strs(f, l, a)
           /\ Each(LAMBDA i : QidN(f, 3 * i), l) = Qids(f, l)
BY DEF Each, Strs, Qids

\* No elements.
LEMMA EachNone ==
    ASSUME NEW f, NEW a
    PROVE  Strs(f, 0, a) = <<>> /\ Qids(f, 0) = <<>>
<1>1. \A S : S = <<>> => FlattenSeq(S) = <<>>
  BY DEF FlattenSeq
<1>2. [i \in 1..0 |-> StrN(f, i, a)] = <<>> /\ [i \in 1..0 |-> QidN(f, 3 * i)] = <<>>
  OBVIOUS
<1>. QED  BY <1>1, <1>2 DEF Strs, Qids

\* The elements of a walk that is sent, as they are read.
LEMMA MatchedEach ==
    ASSUME NEW f \in Member, NEW l \in Nat, NEW a \in Nat
    PROVE  /\ Matched(Strs(f, l, a), Strs(f, l, 0), l * (2 + a)) /\ NoData(Strs(f, l, a))
           /\ Matched(Qids(f, l), Qids(f, l), l * 13) /\ NoData(Qids(f, l))
<1>1. CASE l = 0
  <2>1. Strs(f, l, a) = <<>> /\ Strs(f, l, 0) = <<>> /\ Qids(f, l) = <<>>
    BY <1>1, EachNone
  <2>2. l * (2 + a) = 0 /\ l * 13 = 0
    BY <1>1
  <2>3. NoData(<<>>)
    BY DEF NoData
  <2>. QED  BY <2>1, <2>2, <2>3, MatchedNone
<1>2. CASE l # 0
  <2>. DEFINE S == [i \in 1..l |-> StrN(f, i, a)]
              G == [i \in 1..l |-> StrN(f, i, 0)]
              Q == [i \in 1..l |-> QidN(f, 3 * i)]
  <2>1. Len(S) = l /\ Len(G) = l /\ Len(Q) = l
    OBVIOUS
  <2>2. ASSUME NEW i \in 1..l PROVE Matched(S[i], G[i], 2 + a) /\ NoData(S[i])
    <3>1. Matched(StrN(f, i, a), StrN(f, i, 0), 2 + a)
      <4>1. i \in Nat
        OBVIOUS
      <4>. QED  BY <4>1, MatchedStr
    <3>2. NoData(StrN(f, i, a))
      BY DEF NoData, StrN, Item
    <3>. QED  BY <3>1, <3>2
  <2>3. ASSUME NEW i \in 1..l PROVE Matched(Q[i], Q[i], 13) /\ NoData(Q[i])
    <3>1. Matched(QidN(f, 3 * i), QidN(f, 3 * i), 13)
      <4>1. 3 * i \in Nat
        OBVIOUS
      <4>. QED  BY <4>1, MatchedQid
    <3>2. NoData(QidN(f, 3 * i))
      BY DEF NoData, QidN, Item
    <3>. QED  BY <3>1, <3>2
  <2>4. Strs(f, l, a) = FlattenSeq(S) /\ Strs(f, l, 0) = FlattenSeq(G) /\ Qids(f, l) = FlattenSeq(Q)
    BY DEF Strs, Qids
  <2>. HIDE DEF S, G, Q
  <2>5. Alternate(S, G, l, 2 + a) /\ Alternate(Q, Q, l, 13)
    BY <2>1, <2>2, <2>3 DEF Alternate
  <2>6. l \in Nat \ {0} /\ 2 + a \in Nat /\ 13 \in Nat
    BY <1>2
  <2>. QED  BY <2>4, <2>5, <2>6, FlatMatched
<1>. QED  BY <1>1, <1>2

\* A reading keeps its members.
LEMMA GetDomain ==
    ASSUME NEW r, NEW it \in ItemT
    PROVE  DOMAIN Get1(r, it) = DOMAIN r
<1>1. it.k \in {"int", "str", "data"}
  BY DEF ItemT
<1>2. \A f, x, p, last : /\ DOMAIN [Got(r, f, x) EXCEPT !.p = p] = DOMAIN r
                         /\ DOMAIN [Got(r, f, x) EXCEPT !.p = p, !.last = last] = DOMAIN r
  BY DEF Got
<1>3. DOMAIN buf_get_int(r, it) = DOMAIN r
  BY <1>2 DEF buf_get_int
<1>4. \A f, len, S : DOMAIN buf_alloc(r, f, len, S) = DOMAIN r
  BY <1>2 DEF buf_alloc
<1>5. DOMAIN buf_get_str(r, it) = DOMAIN r
  <2>1. \A p, f, len, S : DOMAIN buf_alloc([r EXCEPT !.p = p], f, len, S) = DOMAIN r
    BY DEF buf_alloc, Got
  <2>. QED  BY <2>1 DEF buf_get_str
<1>. QED  BY <1>1, <1>3, <1>4, <1>5 DEF Get1

LEMMA AllDomain ==
    ASSUME NEW r, NEW g \in Seq(ItemT)
    PROVE  DOMAIN buf_get_all(r, g) = DOMAIN r
<1>1. Len(g) \in Nat /\ \A k \in 1..Len(g) : g[k] \in ItemT
  OBVIOUS
<1>2. PICK c : GetRun(r, g, c) /\ buf_get_all(r, g) = c[Len(g)]
  BY <1>1, GetRuns
<1>. DEFINE T == {k \in 0..Len(g) : ~(DOMAIN c[k] = DOMAIN r)}
<1>3. ASSUME T # {} PROVE FALSE
  <2>0. T \subseteq Nat
    OBVIOUS
  <2>. HIDE DEF T
  <2>1. PICK k \in T : \A j \in T : k <= j
    BY <1>3, <2>0, LeastNat
  <2>. USE DEF T
  <2>2. k # 0
    BY <1>2, <2>1 DEF GetRun
  <2>3. k \in 1..Len(g) /\ k - 1 \in 0..Len(g) /\ k - 1 \notin T
    BY <1>1, <2>1, <2>2
  <2>4. c[k] = Get1(c[k - 1], g[k]) /\ g[k] \in ItemT
    BY <1>1, <1>2, <2>3 DEF GetRun
  <2>5. PICK a, h : a = c[k - 1] /\ h = g[k]
    OBVIOUS
  <2>6. DOMAIN a = DOMAIN r /\ h \in ItemT /\ c[k] = Get1(a, h)
    BY <2>3, <2>4, <2>5, Zenon
  <2>7. DOMAIN Get1(a, h) = DOMAIN a
    BY <2>6, GetDomain
  <2>. QED  BY <2>1, <2>6, <2>7
<1>4. Len(g) \in 0..Len(g)
  BY <1>1
<1>. QED  BY <1>2, <1>3, <1>4

\* What is read for the elements of a walk, when there are l.
WalkT == [k : {"strs", "qids"}, f : Member \X Nat, w : Nat, v : Nat]
WalkOf(e, l) == IF e.k = "strs" THEN Strs(e.f[1], l, 0) ELSE Qids(e.f[1], l)

\* The elements of a walk are read, or the message is refused.
LEMMA GetWalkIs ==
    ASSUME NEW r, r.err = FALSE, r.last \in Nat, "err" \in DOMAIN r, NEW e \in WalkT
    PROVE  /\ r.last <= MAXWELEM => GetItem(r, e) = buf_get_all(r, WalkOf(e, r.last))
           /\ ~(r.last <= MAXWELEM) => GetItem(r, e).err = TRUE
           /\ WalkOf(e, r.last) \in Seq(ItemT)
<1>1. e.k \in {"strs", "qids"} /\ e.f \in Member \X Nat
  BY DEF WalkT
<1>2. e.f[1] \in Member
  BY <1>1
<1>3. PICK f : f = e.f[1]
  OBVIOUS
<1>4. PICK l : l = r.last
  OBVIOUS
<1>5. MAXWELEM \in Nat /\ (r.last > MAXWELEM <=> ~(r.last <= MAXWELEM))
  BY NpMsgAssumption
<1>6. ASSUME r.last <= MAXWELEM PROVE GetItem(r, e) = buf_get_all(r, WalkOf(e, r.last))
  <2>1. CASE e.k = "strs"
    <3>1. GetItem(r, e) = buf_get_all(r, Each(LAMBDA i : StrN(e.f[1], i, 0), r.last))
      BY <1>1, <1>5, <1>6, <2>1 DEF GetItem, GetWalk
    <3>2. Each(LAMBDA i : StrN(e.f[1], i, 0), r.last) = WalkOf(e, r.last)
      BY <2>1 DEF WalkOf, Strs, Each
    <3>. QED  BY <3>1, <3>2
  <2>2. CASE e.k = "qids"
    <3>1. GetItem(r, e) = buf_get_all(r, Each(LAMBDA i : QidN(e.f[1], 3 * i), r.last))
      BY <1>1, <1>5, <1>6, <2>2 DEF GetItem, GetWalk
    <3>2. Each(LAMBDA i : QidN(e.f[1], 3 * i), r.last) = WalkOf(e, r.last)
      BY <2>2 DEF WalkOf, Qids, Each
    <3>. QED  BY <3>1, <3>2
  <2>. QED  BY <1>1, <2>1, <2>2
<1>7. ASSUME ~(r.last <= MAXWELEM) PROVE GetItem(r, e).err = TRUE
  <2>1. GetWalk(r, e, MAXWELEM) = [r EXCEPT !.err = TRUE]
    BY <1>1, <1>5, <1>7 DEF GetWalk
  <2>2. GetItem(r, e) = [r EXCEPT !.err = TRUE]
    BY <2>1 DEF GetItem
  <2>. QED  BY <2>2
<1>8. WalkOf(e, r.last) \in Seq(ItemT)
  <2>1. f \in Member /\ l \in Nat /\ 0 \in Nat
    BY <1>2, <1>3, <1>4
  <2>2. Matched(Strs(f, l, 0), Strs(f, l, 0), l * (2 + 0)) /\ Matched(Qids(f, l), Qids(f, l), l * 13)
    BY <2>1, MatchedEach
  <2>3. Strs(f, l, 0) \in Seq(ItemT) /\ Qids(f, l) \in Seq(ItemT)
    BY <2>2 DEF Matched
  <2>. QED  BY <1>3, <1>4, <2>3 DEF WalkOf
<1>. QED  BY <1>6, <1>7, <1>8

\* A message that ends with the elements of a walk, as many as the integer
\* before them says.
LEMMA OutcomeWalk ==
    ASSUME NEW q, NEW s, NEW g, NEW n, NEW t, NEW h, NEW m,
           Packed(q, s \o t, g \o h, n + m), Matched(s, g, n), Matched(t, h, m), NoData(t),
           NEW l \in Nat, l <= MAXWELEM, Len(s) > 0, s[Len(s)].k = "int", s[Len(s)].v = l,
           NEW e \in WalkT, h = WalkOf(e, l), NEW junk \in Nat, NEW d,
           q.t \in Known, Asked(q.t, d) = g \o <<e>>
    PROVE  Outcome(q, s \o t, n + m, np_deserialize(q, d, junk))
<1>. DEFINE r0 == Start0(q, junk)
            r == buf_get_all(r0, g)
            r2 == GetItem(r, e)
            D == np_deserialize(q, d, junk)
            ep == q.size
<1>1. g \in Seq(ItemT) /\ h \in Seq(ItemT) /\ n \in Nat /\ m \in Nat /\ ep \in Nat
  BY DEF Packed, Matched
<1>2. r0.err = FALSE
  BY <1>1, Starting
<1>3. GetItems(r0, g \o <<e>>) = r2 /\ r.err = FALSE
  <2>. HIDE DEF r0
  <2>1. GetItems(r0, g) = r /\ r.err = FALSE
    BY <1>1, <1>2, ItemsPlain
  <2>2. <<e>> \in Seq(ItemT \cup WalkT) /\ g \in Seq(ItemT \cup WalkT)
    <3>1. e \in ItemT \cup WalkT
      OBVIOUS
    <3>2. PICK U : U = ItemT \cup WalkT
      OBVIOUS
    <3>3. <<e>> \in Seq(U)
      BY <3>1, <3>2, OneOf
    <3>4. ItemT \subseteq U
      BY <3>2
    <3>5. g \in Seq(U)
      BY <1>1, <3>4
    <3>. QED  BY <3>2, <3>3, <3>5
  <2>3. GetItems(r0, g \o <<e>>) = GetItems(GetItems(r0, g), <<e>>)
    <3>1. PICK o, U : o = <<e>> /\ U = ItemT \cup WalkT
      OBVIOUS
    <3>2. o \in Seq(U) /\ g \in Seq(U)
      BY <2>2, <3>1
    <3>3. GetItems(r0, g \o o) = GetItems(GetItems(r0, g), o)
      BY <3>2, ItemsConcat
    <3>. QED  BY <3>1, <3>3
  <2>. HIDE DEF r
  <2>4. GetItems(r, <<e>>) = GetItem(r, e)
    BY ItemsOne
  <2>. QED  BY <2>1, <2>3, <2>4
<1>4. D.ok = (~r2.err /\ ~buf_check_overflow(r2)) /\ D.got = r2.got
  <2>. HIDE DEF r0, r2
  <2>1. D = [ok |-> ~GetItems(r0, Asked(q.t, d)).err /\ ~buf_check_overflow(GetItems(r0, Asked(q.t, d))),
             got |-> GetItems(r0, Asked(q.t, d)).got]
    BY Deserialized DEF r0
  <2>2. GetItems(r0, Asked(q.t, d)) = r2
    BY <1>3
  <2>3. D = [ok |-> ~r2.err /\ ~buf_check_overflow(r2), got |-> r2.got]
    <3>. HIDE DEF D
    <3>. QED  BY <2>1, <2>2
  <2>. HIDE DEF D
  <2>. QED  BY <2>3
<1>5. Packed(q, s, g, n)
  <2>1. (n + m) - n = m
    BY <1>1
  <2>. QED  BY <2>1, PackedPrefix
<1>6. ReadOut(q, s, n, r)
  BY <1>5, GetPacked
<1>7. ReadOut(q, s \o t, n + m, buf_get_all(r0, g \o h))
  BY GetPacked
<1>8. buf_get_all(r0, g \o h) = buf_get_all(r, h)
  BY <1>1, GetConcat
<1>. HIDE DEF r0, D
<1>9. "err" \in DOMAIN r
  <2>1. DOMAIN r = DOMAIN Start0(q, junk)
    BY <1>1, AllDomain DEF r0, r
  <2>2. "err" \in DOMAIN Start0(q, junk)
    BY DEF Start0
  <2>. QED  BY <2>1, <2>2
<1>. HIDE DEF r
<1>10. ASSUME 4 + n <= ep PROVE r2 = buf_get_all(r, h)
  <2>1. r.last = l
    BY <1>6, <1>10 DEF ReadOut
  <2>2. r.last \in Nat /\ r.last <= MAXWELEM
    BY <2>1
  <2>3. GetItem(r, e) = buf_get_all(r, WalkOf(e, r.last))
    BY <1>3, <1>9, <2>2, GetWalkIs
  <2>. QED  BY <2>1, <2>3
<1>11. ASSUME Reading(r, q.fields, ep), r.p > ep PROVE r2.err = TRUE \/ buf_check_overflow(r2)
  <2>1. r.last \in Nat
    BY <1>11 DEF Reading
  <2>2. PICK x : x = WalkOf(e, r.last)
    OBVIOUS
  <2>3. /\ r.last <= MAXWELEM => r2 = buf_get_all(r, x)
        /\ ~(r.last <= MAXWELEM) => r2.err = TRUE
        /\ x \in Seq(ItemT)
    BY <1>3, <1>9, <2>1, <2>2, GetWalkIs
  <2>4. Reading(buf_get_all(r, x), q.fields, ep) /\ buf_get_all(r, x).p > ep
    BY <1>11, <2>3, GetAllOver
  <2>5. buf_check_overflow(buf_get_all(r, x))
    BY <2>4 DEF buf_check_overflow, Reading
  <2>. QED  BY <2>3, <2>5
<1>. HIDE DEF r2
<1>12. n + m \in Nat /\ n <= n + m
  BY <1>1
<1>13. ASSUME ep = 4 + (n + m)
       PROVE  D.ok /\ \A i \in 1..Len(s \o t) : <<(s \o t)[i].f, (s \o t)[i].f>> \in D.got
  <2>1. 4 + n <= ep /\ 4 + (n + m) <= ep
    BY <1>1, <1>13
  <2>2. r2 = buf_get_all(r0, g \o h)
    BY <1>8, <1>10, <2>1
  <2>3. ReadOut(q, s \o t, n + m, r2)
    BY <1>7, <2>2
  <2>4. PICK u : u = s \o t
    OBVIOUS
  <2>5. ReadOut(q, u, n + m, r2)
    BY <2>3, <2>4
  <2>6. /\ Reading(r2, q.fields, ep) /\ r2.err = FALSE /\ r2.p = 4 + (n + m)
        /\ \A i \in 1..Len(u) : <<u[i].f, u[i].f>> \in r2.got
    BY <2>1, <2>5 DEF ReadOut
  <2>7. ~buf_check_overflow(r2)
    BY <1>1, <1>13, <2>6 DEF buf_check_overflow, Reading
  <2>. QED  BY <1>4, <2>4, <2>6, <2>7
<1>14. ASSUME ep < 4 + (n + m), ~Ends(q.fields, ep, 4) PROVE ~D.ok
  <2>1. CASE ep < 4 + n
    <3>1. Reading(r, q.fields, ep) /\ r.p > ep
      BY <1>6, <1>14, <2>1 DEF ReadOut
    <3>. QED  BY <1>4, <1>11, <3>1
  <2>2. CASE ~(ep < 4 + n)
    <3>1. 4 + n <= ep
      BY <1>1, <2>2
    <3>2. r2 = buf_get_all(r0, g \o h)
      BY <1>8, <1>10, <3>1
    <3>3. ReadOut(q, s \o t, n + m, r2)
      BY <1>7, <3>2
    <3>4. Reading(r2, q.fields, ep) /\ r2.p > ep
      BY <1>14, <3>3 DEF ReadOut
    <3>5. buf_check_overflow(r2)
      BY <3>4 DEF buf_check_overflow, Reading
    <3>. QED  BY <1>4, <3>5
  <2>. QED  BY <2>1, <2>2
<1>15. PICK u, k : u = s \o t /\ k = n + m
  OBVIOUS
<1>16. Outcome(q, u, k, D)
  BY <1>13, <1>14, <1>15 DEF Outcome
<1>. QED  BY <1>15, <1>16 DEF D

----------------------------------------------------------------------------
(* The packets that are sent *)

\* id[1] and tag[2], behind the size.
IdTag == I8("id") \o I16("tag")

\* The size of a packet.
SizeField(v) == Item("int", "size", 0, 4, v)

\* F are the fields of a packet: its size, and s behind it.
Holds(F, v, s) == \E pl : Laid(s, pl) /\ F = With(FieldsOf(s, pl, 4), SizeField(v), 0)

LEMMA MatchedIdTag == Matched(IdTag, IdTag, 3) /\ Len(IdTag) = 2
<1>1. Matched(I8("id"), I8("id"), 1) /\ Matched(I16("tag"), I16("tag"), 2)
  <2>1. "id" \in Member /\ "tag" \in Member
    BY DEF Member
  <2>. QED  BY <2>1, MatchedField
<1>2. Matched(I8("id") \o I16("tag"), I8("id") \o I16("tag"), 1 + 2)
  BY <1>1, MatchedCat
<1>3. Len(I8("id") \o I16("tag")) = 2
  BY DEF I8, I16
<1>. QED  BY <1>2, <1>3 DEF IdTag

\* A packet that was made is packed.
LEMMA HeldPacket ==
    ASSUME NEW F, NEW v, NEW s, Holds(F, v, s)
    PROVE  \E pl : Laid(s, pl) /\ Held(F, s, pl, 4)
<1>1. PICK pl : Laid(s, pl) /\ F = With(FieldsOf(s, pl, 4), SizeField(v), 0)
  BY DEF Holds
<1>2. SizeField(v).k = "int"
  BY DEF SizeField, Item
<1>3. Field(SizeField(v), 0).at < 4
  BY DEF Field
<1>4. \A c \in F : c \in FieldsOf(s, pl, 4) \/ c.at < 4
  BY <1>1, <1>3 DEF With
<1>5. FieldsOf(s, pl, 4) \subseteq F
  BY <1>1 DEF With
<1>6. Held(F, s, pl, 4)
  BY <1>4, <1>5 DEF Held
<1>. QED  BY <1>1, <1>6

\* The items of a message: the size, and those behind it.
LEMMA ItemsOf ==
    ASSUME NEW b \in Seq(ItemT), NEW v
    PROVE  C32("size", v) \o I8("id") \o I16("tag") \o b = C32("size", v) \o (IdTag \o b)
<1>. DEFINE U == ItemT \cup {SizeField(v)}
<1>1. SizeField(v) \in U /\ ItemT \subseteq U
  OBVIOUS
<1>2. I8("id") \in Seq(ItemT) /\ I16("tag") \in Seq(ItemT)
  <2>1. "id" \in Member /\ "tag" \in Member
    BY DEF Member
  <2>2. Matched(I8("id"), I8("id"), 1) /\ Matched(I16("tag"), I16("tag"), 2)
    BY <2>1, MatchedField
  <2>. QED  BY <2>2 DEF Matched
<1>3. C32("size", v) = <<SizeField(v)>>
  BY DEF C32, SizeField
<1>. HIDE DEF U
<1>4. PICK z, i, j : z = C32("size", v) /\ i = I8("id") /\ j = I16("tag")
  OBVIOUS
<1>5. z \in Seq(U) /\ i \in Seq(U) /\ j \in Seq(U) /\ b \in Seq(U)
  <2>1. \A y \in Seq(ItemT) : y \in Seq(U)
    BY <1>1
  <2>2. <<SizeField(v)>> \in Seq(U)
    BY <1>1, OneOf
  <2>. QED  BY <1>2, <1>3, <1>4, <2>1, <2>2
<1>6. (z \o i) \o j = z \o (i \o j)
  BY <1>5, ConcatAssociative, SMTT(30)
<1>7. i \o j \in Seq(U)
  BY <1>5
<1>8. (z \o (i \o j)) \o b = z \o ((i \o j) \o b)
  BY <1>5, <1>7, ConcatAssociative, SMTT(30)
<1>. QED  BY <1>4, <1>6, <1>8 DEF IdTag

\* The fields b take n bytes, no more than z.
LaidOut(b, n, z, pl) ==
    /\ b \in Seq(ItemT) /\ n \in Nat /\ z \in Nat /\ n <= z
    /\ Laid(IdTag \o b, pl) /\ pl[Len(IdTag \o b)] = 3 + n

\* What np_post_check makes of such a message.
PutAs(m, t, s, v, p, pl) ==
    /\ m.t = t /\ m.size = v /\ m.items = C32("size", v) \o s
    /\ buf_put_all(Buf(0, v, {}), m.items) =
         Buf(p, v, With(FieldsOf(s, pl, 4), SizeField(v), 0))

\* The fields of a message that fit are put.
LEMMA PutLaid ==
    ASSUME NEW t, NEW z, NEW b, NEW n, NEW pl, LaidOut(b, n, z, pl)
    PROVE  PutAs(Create(t, z, b), t, IdTag \o b, 7 + z, 4 + (3 + n), pl)
<1>. DEFINE m == Create(t, z, b)
            s == IdTag \o b
            v == 7 + z
            b0 == Buf(0, v, {})
<1>2. Laid(s, pl) /\ pl[Len(s)] = 3 + n
  BY DEF LaidOut
<1>3. n \in Nat /\ v \in Nat /\ b \in Seq(ItemT) /\ s \in Seq(ItemT) /\ 4 + (3 + n) <= v
  <2>1. s \in Seq(ItemT)
    BY <1>2 DEF Laid
  <2>2. n \in Nat /\ v \in Nat /\ b \in Seq(ItemT) /\ 4 + (3 + n) <= v
    BY DEF LaidOut
  <2>. QED  BY <2>1, <2>2
<1>4. z + 4 + 1 + 2 = v /\ z + 7 = v
  BY DEF LaidOut
<1>5. m.t = t /\ m.size = v /\ m.items = C32("size", v) \o s
  <2>1. m.t = t /\ m.size = z + 4 + 1 + 2
        /\ m.items = C32("size", z + 7) \o I8("id") \o I16("tag") \o b
    BY DEF Create
  <2>. HIDE DEF m, v
  <2>. QED  BY <1>3, <1>4, <2>1, ItemsOf
<1>. DEFINE y == buf_put_all(b0, m.items)
<1>6. y = Buf(4 + (3 + n), v, With(FieldsOf(s, pl, 4), SizeField(v), 0))
  <2>1. C32("size", v) = <<SizeField(v)>> /\ SizeField(v) \in ItemT /\ SizeField(v).w = 4
    <3>1. "size" \in Member /\ v \in Nat
      BY <1>3 DEF Member
    <3>. QED  BY <3>1 DEF C32, SizeField, Item, ItemT
  <2>2. PICK o : o = C32("size", v)
    OBVIOUS
  <2>3. o \in Seq(ItemT) /\ o = <<SizeField(v)>>
    <3>1. <<SizeField(v)>> \in Seq(ItemT)
      BY <2>1, OneOf
    <3>. QED  BY <2>1, <2>2, <3>1
  <2>. HIDE DEF b0, v, m, s
  <2>4. buf_put_all(b0, o \o s) = buf_put_all(buf_put_all(b0, o), s)
    <3>1. o \in Seq(ItemT) /\ s \in Seq(ItemT)
      BY <1>3, <2>3
    <3>. QED  BY <3>1, PutConcat
  <2>5. buf_put_all(b0, o) = buf_put(b0, SizeField(v))
    BY <2>3, PutOne
  <2>6. buf_put(Buf(0, v, {}), SizeField(v)) = Buf(0 + SizeField(v).w, v, With({}, SizeField(v), 0))
    <3>1. 0 \in Nat /\ SizeField(v).w \in Nat /\ 0 + SizeField(v).w <= v
      BY <1>3, <2>1
    <3>. QED  BY <1>3, <3>1, PutFits
  <2>7. 0 + SizeField(v).w = 4
    BY <2>1
  <2>8. PICK w : w = With({}, SizeField(v), 0)
    OBVIOUS
  <2>9. 4 \in Nat /\ 4 + pl[Len(s)] <= v
    BY <1>2, <1>3
  <2>10. buf_put_all(Buf(4, v, w), s) = Buf(4 + pl[Len(s)], v, WithAll(w, s, pl, 4))
    BY <1>2, <1>3, <2>9, PutAll
  <2>11. WithAll(w, s, pl, 4) = With(FieldsOf(s, pl, 4), SizeField(v), 0)
    BY <2>8 DEF With, WithAll
  <2>12. y = buf_put_all(b0, o \o s)
    BY <1>5, <2>2
  <2>13. y = buf_put_all(buf_put(b0, SizeField(v)), s)
    BY <2>4, <2>5, <2>12
  <2>14. buf_put(b0, SizeField(v)) = Buf(4, v, w)
    BY <2>6, <2>7, <2>8 DEF b0
  <2>. HIDE DEF y
  <2>. QED  BY <1>2, <2>10, <2>11, <2>13, <2>14
<1>. HIDE DEF y, m, s, v
<1>7. PutAs(m, t, s, v, 4 + (3 + n), pl)
  BY <1>5, <1>6 DEF PutAs, y, b0
<1>. QED  BY <1>7 DEF m, s, v

\* np_post_check of a message whose fields fit.
LEMMA PostLaid ==
    ASSUME NEW t, NEW z, NEW b, NEW n, NEW pl, LaidOut(b, n, z, pl)
    PROVE  /\ np_post_check(Create(t, z, b)).t = t
           /\ np_post_check(Create(t, z, b)).size = 7 + z
           /\ Holds(np_post_check(Create(t, z, b)).fields, 7 + z, IdTag \o b)
<1>1. PICK m, s, v, p : m = Create(t, z, b) /\ s = IdTag \o b /\ v = 7 + z /\ p = 4 + (3 + n)
  OBVIOUS
<1>2. Laid(s, pl) /\ v \in Nat /\ p \in Nat /\ p <= v
  BY <1>1 DEF LaidOut
<1>3. PutAs(m, t, s, v, p, pl)
  BY <1>1, PutLaid
<1>4. PICK w : w = With(FieldsOf(s, pl, 4), SizeField(v), 0)
  OBVIOUS
<1>5. m.t = t /\ m.size = v /\ buf_put_all(Buf(0, v, {}), m.items) = Buf(p, v, w)
  BY <1>3, <1>4 DEF PutAs
<1>6. ~buf_check_overflow(Buf(p, v, w)) /\ Buf(p, v, w).out = w
  BY <1>2, BufIs DEF buf_check_overflow
<1>7. [p |-> 0, ep |-> m.size, out |-> {}] = Buf(0, v, {})
  BY <1>5 DEF Buf
<1>8. np_post_check(m) = [t |-> t, size |-> v, fields |-> w]
  BY <1>5, <1>6, <1>7 DEF np_post_check
<1>9. Holds(w, v, s)
  BY <1>2, <1>4 DEF Holds
<1>. QED  BY <1>1, <1>8, <1>9

LEMMA PostCheck ==
    ASSUME NEW t, NEW z \in Nat, NEW b, NEW h, NEW n, Matched(b, h, n), n <= z
    PROVE  /\ np_post_check(Create(t, z, b)).t = t
           /\ np_post_check(Create(t, z, b)).size = 7 + z
           /\ Holds(np_post_check(Create(t, z, b)).fields, 7 + z, IdTag \o b)
<1>1. Matched(IdTag \o b, IdTag \o h, 3 + n)
  BY MatchedIdTag, MatchedCat
<1>2. PICK pl : Laid(IdTag \o b, pl) /\ pl[Len(IdTag \o b)] = 3 + n
  BY <1>1 DEF Matched
<1>3. n \in Nat /\ b \in Seq(ItemT)
  BY DEF Matched
<1>4. LaidOut(b, n, z, pl)
  BY <1>2, <1>3 DEF LaidOut
<1>. QED  BY <1>4, PostLaid

\* A field more.
LEMMA LaidAppend ==
    ASSUME NEW s, NEW q, Laid(s, q), NEW e \in ItemT
    PROVE  \E r : Laid(s \o <<e>>, r) /\ r[Len(s \o <<e>>)] = q[Len(s)] + e.w
<1>. DEFINE a == Len(s)
            u == Append(s, e)
            n == q[a]
<1>1. s \in Seq(ItemT) /\ a \in Nat /\ e.w \in Nat
  BY DEF Laid, ItemT
<1>2. s \o <<e>> = u
  BY <1>1, AppendIsConcat
<1>3. q \in [0..a -> Nat] /\ q[0] = 0 /\ n \in Nat
  BY <1>1 DEF Laid
<1>4. /\ u \in Seq(ItemT) /\ Len(u) = a + 1 /\ u[a + 1] = e
      /\ \A k \in 1..a : u[k] = s[k]
  BY <1>1, AppendOf
<1>. DEFINE x == [j \in 0..(a + 1) |-> IF j <= a THEN q[j] ELSE n + e.w]
<1>5. \A k \in 1..a : q[k] = q[k - 1] + s[k].w
  BY DEF Laid
<1>. HIDE DEF a, u, n
<1>6. x \in [0..(a + 1) -> Nat] /\ x[0] = 0 /\ x[a + 1] = n + e.w
  <2>1. \A j \in 0..(a + 1) : j <= a => j \in 0..a
    BY <1>1
  <2>2. n + e.w \in Nat /\ 0 \in 0..(a + 1) /\ a + 1 \in 0..(a + 1) /\ 0 <= a /\ ~(a + 1 <= a)
    BY <1>1, <1>3
  <2>. QED  BY <1>3, <2>1, <2>2
<1>7. ASSUME NEW k \in 1..(a + 1) PROVE x[k] = x[k - 1] + u[k].w
  <2>0. k \in 0..(a + 1) /\ k - 1 \in 0..(a + 1) /\ k - 1 <= a
    BY <1>1
  <2>1. CASE k <= a
    <3>1. k \in 1..a
      BY <1>1, <2>1
    <3>2. x[k] = q[k] /\ x[k - 1] = q[k - 1] /\ u[k] = s[k]
      BY <1>4, <2>0, <2>1, <3>1
    <3>. QED  BY <1>5, <3>1, <3>2
  <2>2. CASE ~(k <= a)
    <3>1. k = a + 1 /\ k - 1 = a
      BY <1>1, <2>2
    <3>2. x[k] = n + e.w /\ x[k - 1] = q[a] /\ u[k] = e
      BY <1>4, <1>6, <2>0, <3>1
    <3>. QED  BY <3>2 DEF n
  <2>. QED  BY <2>1, <2>2
<1>. HIDE DEF x
<1>8. Laid(u, x)
  BY <1>4, <1>6, <1>7 DEF Laid
<1>9. x[Len(u)] = q[Len(s)] + e.w
  BY <1>4, <1>6 DEF n, a
<1>10. \E r : Laid(u, r) /\ r[Len(u)] = q[Len(s)] + e.w
  BY <1>8, <1>9
<1>. QED  BY <1>2, <1>10

----------------------------------------------------------------------------
(* What becomes of a packet *)

\* The properties of NpWire, of one packet q in a conversation d.
NotAlike(q, d) == NoLength(q) \/ q.t = "Rgetlock" \/ (q.t = "Tauth" /\ d)
FilledUp(q) ==
    q.cut = 0 /\ q.t # "Rstatfs" /\ ~NoLength(q) => Max({c.at + c.w : c \in q.fields}) = q.size
EndsField(q) ==
    \E c \in q.fields : q.size = c.at + c.w \/ (q.size = c.at + 2 /\ c.k = "str")
Fate(q, d, D) ==
    /\ q.cut = 0 /\ D.ok /\ ~NotAlike(q, d) =>
         \A f \in q.want \ {<<"size", 0>>} : <<f, f>> \in D.got
    /\ D.ok \/ q.cut > 0 \/ q.t = "Tlerror" \/ NotAlike(q, d)
    /\ q.cut > 0 /\ D.ok => EndsField(q) \/ NoLength(q) \/ q.t \in {"Rstatfs", "Rgetlock"}

\* All of them, whatever misread bytes give.
Sound(q, d) ==
    /\ q.size \in Nat /\ q.size >= 7 /\ q.cut \in Nat
    /\ FilledUp(q)
    /\ \A junk \in Nat : Fate(q, d, np_deserialize(q, d, junk))

\* Packet q carries the fields s, which are read by asking for g and take n
\* bytes, and lacks its last q.cut bytes; want are its fields.
Carried(q, s, g, n) ==
    /\ Matched(s, g, n) /\ Len(s) > 0 /\ \E v : Holds(q.fields, v, s)
    /\ q.cut \in Nat /\ q.size + q.cut = 4 + n /\ q.size \in Nat /\ q.size >= 7
Wanted(q, s) == \A f \in q.want : f = <<"size", 0>> \/ \E i \in 1..Len(s) : f = s[i].f

LEMMA CarriedPacked ==
    ASSUME NEW q, NEW s, NEW g, NEW n, Carried(q, s, g, n)
    PROVE  Packed(q, s, g, n)
<1>1. PICK v : Holds(q.fields, v, s)
  BY DEF Carried
<1>2. \E pl : Laid(s, pl) /\ Held(q.fields, s, pl, 4)
  BY <1>1, HeldPacket
<1>. QED  BY <1>2 DEF Packed, Carried

\* The last field of a packet is where the fields end.
LEMMA FieldsEnd ==
    ASSUME NEW F, NEW v, NEW s, NEW g, NEW n, Holds(F, v, s), Matched(s, g, n), Len(s) > 0
    PROVE  Max({c.at + c.w : c \in F}) = 4 + n
<1>. DEFINE A == {c.at + c.w : c \in F}
<1>1. PICK pl : Laid(s, pl) /\ F = With(FieldsOf(s, pl, 4), SizeField(v), 0)
  BY DEF Holds
<1>2. pl[Len(s)] = n /\ n \in Nat
  <2>1. PICK x : Laid(s, x) /\ x[Len(s)] = n
    BY DEF Matched
  <2>2. Len(s) \in 0..Len(s)
    BY <1>1, LaidFacts
  <2>. QED  BY <1>1, <2>1, <2>2, PlacesSame DEF Matched
<1>3. ASSUME NEW k \in 1..Len(s)
      PROVE  /\ Field(s[k], 4 + pl[k - 1]).at + Field(s[k], 4 + pl[k - 1]).w = 4 + pl[k]
             /\ pl[k] \in Nat /\ pl[k] <= n
  <2>1. k \in 0..Len(s) /\ Len(s) \in k..Len(s) /\ k - 1 \in 0..Len(s)
    BY <1>1, LaidFacts
  <2>2. pl[k] = pl[k - 1] + s[k].w /\ s[k].w \in Nat /\ pl[k - 1] \in Nat
    BY <1>1, <2>1, LaidFacts
  <2>3. pl[k] \in Nat /\ pl[k] <= pl[Len(s)]
    BY <1>1, <2>1, PlacesGrow
  <2>4. PICK a, b, w : a = pl[k - 1] /\ b = pl[k] /\ w = s[k].w
    OBVIOUS
  <2>5. (4 + a) + w = 4 + b
    BY <2>2, <2>4
  <2>6. Field(s[k], 4 + pl[k - 1]).at = 4 + a /\ Field(s[k], 4 + pl[k - 1]).w = w
    BY <2>4 DEF Field
  <2>. QED  BY <1>2, <2>3, <2>4, <2>5, <2>6
<1>4. Len(s) \in Nat /\ Len(s) \in 1..Len(s)
  BY <1>1, LaidFacts
<1>5. 4 + n \in A
  <2>1. Field(s[Len(s)], 4 + pl[Len(s) - 1]) \in F
    BY <1>1, <1>4 DEF With, FieldsOf
  <2>. QED  BY <1>2, <1>3, <1>4, <2>1
<1>6. ASSUME NEW y \in A PROVE y \in Nat /\ y <= 4 + n
  <2>1. PICK c \in F : y = c.at + c.w
    OBVIOUS
  <2>2. CASE c = Field(SizeField(v), 0)
    <3>1. y = 0 + 4
      BY <2>1, <2>2 DEF Field, SizeField, Item
    <3>. QED  BY <1>2, <3>1
  <2>3. CASE c \in FieldsOf(s, pl, 4)
    <3>1. PICK k \in 1..Len(s) : c = Field(s[k], 4 + pl[k - 1])
      BY <2>3 DEF FieldsOf
    <3>2. PICK b : b = pl[k]
      OBVIOUS
    <3>3. y = 4 + b /\ b \in Nat /\ b <= n
      BY <1>3, <2>1, <3>1, <3>2
    <3>. QED  BY <1>2, <3>3
  <2>. QED  BY <1>1, <2>2, <2>3 DEF With
<1>. HIDE DEF A
<1>7. Max(A) = 4 + n
  <2>1. \A y \in A : 4 + n >= y
    BY <1>2, <1>6
  <2>2. PICK x : x = CHOOSE z \in A : \A y \in A : z >= y
    OBVIOUS
  <2>3. x \in A /\ \A y \in A : x >= y
    BY <1>5, <2>1, <2>2
  <2>4. x = 4 + n
    BY <1>2, <1>5, <1>6, <2>3
  <2>. QED  BY <2>2, <2>4 DEF Max
<1>. QED  BY <1>7 DEF A

\* A packet whose fields are read, or are seen to lack their end.
LEMMA SoundBy ==
    ASSUME NEW q, NEW s, NEW g, NEW n, Carried(q, s, g, n), NEW d,
           Wanted(q, s) \/ NotAlike(q, d),
           \A junk \in Nat : Outcome(q, s, n, np_deserialize(q, d, junk))
    PROVE  Sound(q, d)
<1>1. n \in Nat /\ q.size \in Nat /\ q.size >= 7 /\ q.cut \in Nat /\ q.size + q.cut = 4 + n
  BY DEF Carried, Matched
<1>2. FilledUp(q)
  <2>1. PICK v : Holds(q.fields, v, s)
    BY DEF Carried
  <2>2. Max({c.at + c.w : c \in q.fields}) = 4 + n
    <3>1. Matched(s, g, n) /\ Len(s) > 0
      BY DEF Carried
    <3>. QED  BY <2>1, <3>1, FieldsEnd
  <2>3. q.cut = 0 => q.size = 4 + n
    BY <1>1
  <2>. QED  BY <2>2, <2>3 DEF FilledUp
<1>3. ASSUME NEW junk \in Nat PROVE Fate(q, d, np_deserialize(q, d, junk))
  <2>1. PICK D : D = np_deserialize(q, d, junk)
    OBVIOUS
  <2>2. Outcome(q, s, n, D)
    BY <2>1
  <2>3. ASSUME q.cut = 0 PROVE D.ok /\ \A i \in 1..Len(s) : <<s[i].f, s[i].f>> \in D.got
    <3>1. q.size = 4 + n
      BY <1>1, <2>3
    <3>. QED  BY <2>2, <3>1 DEF Outcome
  <2>4. ASSUME q.cut > 0 PROVE ~D.ok \/ EndsField(q)
    <3>1. q.size < 4 + n /\ q.size # 4
      BY <1>1, <2>4
    <3>2. ~D.ok \/ Ends(q.fields, q.size, 4)
      BY <2>2, <3>1 DEF Outcome
    <3>. QED  BY <3>1, <3>2 DEF Ends, EndsField
  <2>5. q.cut = 0 \/ q.cut > 0
    BY <1>1
  <2>6. ASSUME q.cut = 0, ~NotAlike(q, d), NEW f \in q.want \ {<<"size", 0>>}
        PROVE  <<f, f>> \in D.got
    <3>1. PICK i \in 1..Len(s) : f = s[i].f
      BY <2>6 DEF Wanted
    <3>. QED  BY <2>3, <2>6, <3>1
  <2>7. Fate(q, d, D)
    BY <2>3, <2>4, <2>5, <2>6 DEF Fate
  <2>. QED  BY <2>1, <2>7
<1>. QED  BY <1>1, <1>2, <1>3 DEF Sound

----------------------------------------------------------------------------
(* What becomes of a message *)

\* Message m of a conversation d is made, or it is one of those that are not;
\* and its packets are sound, the short ones too.
GoodPacket(m, q, d) ==
    /\ q.t = "none" => m.t \in {"none", "Tsetattr"}
    /\ q.t # "none" /\ q.size >= 7 => Sound(q, d)
Good(m, d) ==
    \A count \in Nat, cut \in Nat : GoodPacket(m, Packet(m, count, cut), d)

\* The types whose packets np_set_rread_count changes.
Settable == {"Rread", "Rreaddir"}

LEMMA NoneUnknown == "none" \notin Known
BY DEF Known, Gets2000, Gets9P, GetsL1, GetsL2

\* The members a message has.
LEMMA NamesOf ==
    ASSUME NEW t, NEW z, NEW b \in Seq(ItemT), NEW f \in Names(Create(t, z, b))
    PROVE  f = <<"size", 0>> \/ \E i \in 1..Len(IdTag \o b) : f = (IdTag \o b)[i].f
<1>. DEFINE s == IdTag \o b
            o == C32("size", z + 7)
            w == Create(t, z, b).items
<1>1. w = o \o s
  <2>1. w = C32("size", z + 7) \o I8("id") \o I16("tag") \o b
    BY DEF Create
  <2>. QED  BY <2>1, ItemsOf
<1>2. s \in Seq(ItemT)
  <2>1. IdTag \in Seq(ItemT)
    BY MatchedIdTag DEF Matched
  <2>. QED  BY <2>1
<1>. DEFINE U == ItemT \cup {SizeField(z + 7)}
<1>3. o = <<SizeField(z + 7)>> /\ o \in Seq(U) /\ s \in Seq(U)
  <2>1. o = <<SizeField(z + 7)>>
    BY DEF C32, SizeField
  <2>2. SizeField(z + 7) \in U /\ ItemT \subseteq U
    OBVIOUS
  <2>. HIDE DEF U, o, s
  <2>3. <<SizeField(z + 7)>> \in Seq(U)
    BY <2>2, OneOf
  <2>4. s \in Seq(U)
    BY <1>2, <2>2
  <2>. QED  BY <2>1, <2>3, <2>4
<1>4. PICK i \in DOMAIN w : f = w[i].f
  BY DEF Names
<1>. HIDE DEF w, s, U, o
<1>5. /\ Len(o) = 1 /\ o[1] = SizeField(z + 7) /\ Len(s) \in Nat /\ DOMAIN w = 1..(1 + Len(s))
      /\ w[i] = IF i <= 1 THEN o[i] ELSE s[i - 1]
  <2>1. Len(o) = 1 /\ o[1] = SizeField(z + 7)
    BY <1>3
  <2>2. Len(w) = Len(o) + Len(s) /\ w \in Seq(U) /\ Len(s) \in Nat
    BY <1>1, <1>3, ConcatProperties
  <2>3. DOMAIN w = 1..(1 + Len(s))
    BY <2>1, <2>2
  <2>4. w[i] = IF i <= Len(o) THEN o[i] ELSE s[i - Len(o)]
    BY <1>1, <1>3, <1>4, <2>1, <2>3, ConcatProperties
  <2>. QED  BY <2>1, <2>2, <2>3, <2>4
<1>6. CASE i = 1
  <2>1. w[i] = SizeField(z + 7)
    BY <1>5, <1>6
  <2>. QED  BY <1>4, <2>1 DEF SizeField, Item
<1>7. CASE i # 1
  <2>1. i - 1 \in 1..Len(s) /\ w[i] = s[i - 1]
    BY <1>4, <1>5, <1>7
  <2>. QED  BY <1>4, <2>1 DEF s
<1>. QED  BY <1>6, <1>7

\* The packet of a message.
LEMMA PacketIs ==
    ASSUME NEW t, t \notin Settable, NEW z \in Nat, NEW b, NEW h, NEW n, Matched(b, h, n), n <= z,
           NEW count, NEW cut, NEW q, q = Packet(Create(t, z, b), count, cut)
    PROVE  /\ q.t = t /\ q.size = (7 + z) - cut /\ q.cut = cut
           /\ Holds(q.fields, 7 + z, IdTag \o b) /\ Wanted(q, IdTag \o b)
<1>. DEFINE m == Create(t, z, b)
            y == np_post_check(m)
<1>1. y.t = t /\ y.size = 7 + z /\ Holds(y.fields, 7 + z, IdTag \o b)
  BY PostCheck
<1>2. b \in Seq(ItemT)
  BY DEF Matched
<1>3. \A f \in Names(m) : f = <<"size", 0>> \/ \E i \in 1..Len(IdTag \o b) : f = (IdTag \o b)[i].f
  BY <1>2, NamesOf
<1>. HIDE DEF m, y
<1>4. q = [t |-> y.t, size |-> y.size - cut, fields |-> y.fields, want |-> Names(m), cut |-> cut]
  <2>1. Packet(m, count, cut) =
          [t |-> y.t, size |-> y.size - cut, fields |-> y.fields, want |-> Names(m), cut |-> cut]
    BY <1>1 DEF Packet, Settable, y
  <2>. QED  BY <2>1 DEF m
<1>5. q.want = Names(m) /\ q.t = y.t /\ q.size = y.size - cut /\ q.fields = y.fields /\ q.cut = cut
  BY <1>4
<1>6. Wanted(q, IdTag \o b)
  BY <1>3, <1>5 DEF Wanted
<1>7. q.size = (7 + z) - cut /\ q.t = t /\ q.cut = cut
  BY <1>1, <1>5
<1>8. Holds(q.fields, 7 + z, IdTag \o b)
  BY <1>1, <1>5, Zenon
<1>. QED  BY <1>6, <1>7, <1>8

LEMMA CarriedIs ==
    ASSUME NEW t, t \notin Settable, NEW b, NEW h, NEW n, Matched(b, h, n),
           NEW count, NEW cut \in Nat, NEW q, q = Packet(Create(t, n, b), count, cut), q.size >= 7
    PROVE  Carried(q, IdTag \o b, IdTag \o h, 3 + n)
<1>1. n \in Nat /\ n <= n
  BY DEF Matched
<1>2. /\ q.t = t /\ q.size = (7 + n) - cut /\ q.cut = cut /\ Holds(q.fields, 7 + n, IdTag \o b)
  BY <1>1, PacketIs
<1>3. Matched(IdTag \o b, IdTag \o h, 3 + n)
  BY MatchedIdTag, MatchedCat
<1>4. Len(IdTag \o b) > 0
  <2>1. IdTag \in Seq(ItemT) /\ b \in Seq(ItemT)
    BY MatchedIdTag DEF Matched
  <2>2. Len(IdTag \o b) = Len(IdTag) + Len(b) /\ Len(b) \in Nat
    BY <2>1, ConcatProperties
  <2>. QED  BY <2>2, MatchedIdTag
<1>5. q.cut \in Nat /\ q.size + q.cut = 4 + (3 + n) /\ q.size \in Nat
  BY <1>1, <1>2
<1>. QED  BY <1>2, <1>3, <1>4, <1>5 DEF Carried

\* What np_deserialize asks for, in one sequence.
LEMMA AskedIs ==
    ASSUME NEW t, NEW d
    PROVE  Asked(t, d) = IdTag \o Gets(t, d)
BY DEF Asked, IdTag

\* A message that np_deserialize reads as it was made.
LEMMA GoodPlain ==
    ASSUME NEW t \in Known, t \notin Settable, NEW b, NEW h, NEW n, Matched(b, h, n),
           NEW z, z = n, NEW d, Gets(t, d) = h
    PROVE  Good(Create(t, z, b), d)
<1>. DEFINE m == Create(t, z, b)
            s == IdTag \o b
            g == IdTag \o h
<1>1. SUFFICES ASSUME NEW count \in Nat, NEW cut \in Nat, NEW q, q = Packet(m, count, cut)
               PROVE  GoodPacket(m, q, d)
  BY DEF Good
<1>2. n \in Nat /\ n <= n
  BY DEF Matched
<1>3. q.t = t /\ Wanted(q, s)
  BY <1>1, <1>2, PacketIs
<1>4. ASSUME q.size >= 7 PROVE Sound(q, d)
  <2>1. Carried(q, s, g, 3 + n)
    BY <1>1, <1>4, CarriedIs
  <2>2. Packed(q, s, g, 3 + n)
    BY <2>1, CarriedPacked
  <2>3. Asked(q.t, d) = g
    BY <1>3, AskedIs
  <2>. HIDE DEF s, g, m
  <2>4. \A junk \in Nat : Outcome(q, s, 3 + n, np_deserialize(q, d, junk))
    BY <1>3, <2>2, <2>3, OutcomePlain
  <2>. QED  BY <1>3, <2>1, <2>4, SoundBy
<1>. QED  BY <1>3, <1>4, NoneUnknown DEF GoodPacket

\* One that it reads for a field more.
LEMMA GoodMore ==
    ASSUME NEW t \in Known, t \notin Settable, NEW b, NEW h, NEW n, Matched(b, h, n),
           NEW z, z = n, NEW d, NEW e \in ItemT, e.k # "data", e.k = "int" => e.w > 0,
           Gets(t, d) = h \o <<e>>
    PROVE  Good(Create(t, z, b), d)
<1>. DEFINE m == Create(t, z, b)
            s == IdTag \o b
            g == IdTag \o h
<1>1. SUFFICES ASSUME NEW count \in Nat, NEW cut \in Nat, NEW q, q = Packet(m, count, cut)
               PROVE  GoodPacket(m, q, d)
  BY DEF Good
<1>2. n \in Nat /\ n <= n /\ h \in Seq(ItemT) /\ IdTag \in Seq(ItemT)
  BY MatchedIdTag DEF Matched
<1>3. q.t = t /\ Wanted(q, s)
  BY <1>1, <1>2, PacketIs
<1>4. ASSUME q.size >= 7 PROVE Sound(q, d)
  <2>1. Carried(q, s, g, 3 + n)
    BY <1>1, <1>4, CarriedIs
  <2>2. Packed(q, s, g, 3 + n)
    BY <2>1, CarriedPacked
  <2>3. Asked(q.t, d) = g \o <<e>>
    <3>1. PICK o : o = <<e>>
      OBVIOUS
    <3>2. o \in Seq(ItemT)
      BY <3>1, OneOf
    <3>3. IdTag \o (h \o o) = (IdTag \o h) \o o
      <4>1. PICK u : u = IdTag
        OBVIOUS
      <4>2. u \in Seq(ItemT) /\ h \in Seq(ItemT) /\ o \in Seq(ItemT)
        BY <1>2, <3>2, <4>1
      <4>3. u \o (h \o o) = (u \o h) \o o
        BY <4>2, ConcatAssociative, SMTT(30)
      <4>. QED  BY <4>1, <4>3
    <3>. QED  BY <1>3, <3>1, <3>3, AskedIs
  <2>. HIDE DEF s, g, m
  <2>4. \A junk \in Nat : Outcome(q, s, 3 + n, np_deserialize(q, d, junk))
    BY <1>3, <2>2, <2>3, OutcomeMore
  <2>. QED  BY <1>3, <2>1, <2>4, SoundBy
<1>. QED  BY <1>3, <1>4, NoneUnknown DEF GoodPacket

\* The last field of b is the number of elements that k reads for e.
CountedBy(b, l, e, k) ==
    /\ l \in Nat /\ l <= MAXWELEM /\ Len(b) > 0 /\ b[Len(b)].k = "int" /\ b[Len(b)].v = l
    /\ e \in WalkT /\ k = WalkOf(e, l)

\* A message that ends with the elements of a walk: b, then c.
WalkMessage(t, b, h, n, c, k, m, z, l, e, d) ==
    /\ t \in Known /\ t \notin Settable /\ Matched(b, h, n) /\ Matched(c, k, m) /\ NoData(c)
    /\ z = n + m /\ CountedBy(b, l, e, k) /\ Gets(t, d) = h \o <<e>>

LEMMA GoodWalk ==
    ASSUME NEW t, NEW b, NEW h, NEW n, NEW c, NEW k, NEW m, NEW z, NEW l, NEW e, NEW d,
           WalkMessage(t, b, h, n, c, k, m, z, l, e, d)
    PROVE  Good(Create(t, z, b \o c), d)
<1>. DEFINE w == Create(t, z, b \o c)
            s == IdTag \o b
            g == IdTag \o h
<1>1. SUFFICES ASSUME NEW count \in Nat, NEW cut \in Nat, NEW q, q = Packet(w, count, cut)
               PROVE  GoodPacket(w, q, d)
  BY DEF Good
<1>2. /\ n \in Nat /\ m \in Nat /\ h \in Seq(ItemT) /\ IdTag \in Seq(ItemT) /\ b \in Seq(ItemT)
      /\ c \in Seq(ItemT) /\ k \in Seq(ItemT)
  BY MatchedIdTag DEF Matched, WalkMessage
<1>3. Matched(b \o c, h \o k, z) /\ z <= z /\ z \in Nat
  <2>1. Matched(b \o c, h \o k, n + m)
    BY MatchedCat DEF WalkMessage
  <2>. QED  BY <1>2, <2>1 DEF WalkMessage
<1>4. q.t = t /\ Wanted(q, IdTag \o (b \o c))
  BY <1>1, <1>3, PacketIs DEF WalkMessage
<1>5. IdTag \o (b \o c) = s \o c /\ IdTag \o (h \o k) = g \o k
  <2>1. PICK u : u = IdTag
    OBVIOUS
  <2>2. u \in Seq(ItemT) /\ b \in Seq(ItemT) /\ c \in Seq(ItemT)
    BY <1>2, <2>1
  <2>3. (u \o b) \o c = u \o (b \o c)
    BY <2>2, ConcatAssociative, SMTT(30)
  <2>4. u \in Seq(ItemT) /\ h \in Seq(ItemT) /\ k \in Seq(ItemT)
    BY <1>2, <2>1
  <2>5. (u \o h) \o k = u \o (h \o k)
    BY <2>4, ConcatAssociative, SMTT(30)
  <2>. QED  BY <2>1, <2>3, <2>5
<1>6. (3 + n) + m = 3 + z /\ Matched(s, g, 3 + n)
  <2>1. (3 + n) + m = 3 + z
    BY <1>2 DEF WalkMessage
  <2>2. Matched(IdTag, IdTag, 3) /\ Matched(b, h, n)
    BY MatchedIdTag DEF WalkMessage
  <2>3. Matched(IdTag \o b, IdTag \o h, 3 + n)
    BY <2>2, MatchedCat
  <2>. QED  BY <2>1, <2>3
<1>7. Len(s) > 0 /\ s[Len(s)] = b[Len(b)]
  <2>0. Len(b) > 0
    BY DEF CountedBy, WalkMessage
  <2>1. PICK u : u = IdTag
    OBVIOUS
  <2>2. u \in Seq(ItemT) /\ Len(u) = 2 /\ Len(b) \in Nat
    BY <1>2, <2>1, MatchedIdTag
  <2>3. Len(u \o b) = 2 + Len(b) /\ (u \o b)[2 + Len(b)] = b[Len(b)]
    <3>0. u \in Seq(ItemT) /\ b \in Seq(ItemT)
      BY <1>2, <2>2
    <3>1. Len(u \o b) = Len(u) + Len(b)
      BY <3>0, ConcatProperties
    <3>2. /\ Len(u \o b) = 2 + Len(b) /\ 2 + Len(b) \in 1..Len(u \o b)
          /\ ~(2 + Len(b) <= Len(u)) /\ (2 + Len(b)) - Len(u) = Len(b)
      BY <2>0, <2>2, <3>1
    <3>3. (u \o b)[2 + Len(b)] = b[(2 + Len(b)) - Len(u)]
      BY <3>0, <3>2, ConcatProperties
    <3>. QED  BY <3>2, <3>3
  <2>. QED  BY <2>0, <2>1, <2>2, <2>3
<1>8. ASSUME q.size >= 7 PROVE Sound(q, d)
  <2>1. Carried(q, IdTag \o (b \o c), IdTag \o (h \o k), 3 + z)
    BY <1>1, <1>3, <1>8, CarriedIs DEF WalkMessage
  <2>2. Carried(q, s \o c, g \o k, (3 + n) + m)
    BY <1>5, <1>6, <2>1
  <2>3. Packed(q, s \o c, g \o k, (3 + n) + m)
    BY <2>2, CarriedPacked
  <2>4. Asked(q.t, d) = g \o <<e>>
    <3>1. PICK o, U : o = <<e>> /\ U = ItemT \cup WalkT
      OBVIOUS
    <3>2. e \in U /\ ItemT \subseteq U
      BY <3>1 DEF CountedBy, WalkMessage
    <3>3. o \in Seq(U)
      BY <3>1, <3>2, OneOf
    <3>4. PICK u : u = IdTag
      OBVIOUS
    <3>5. u \in Seq(U) /\ h \in Seq(U)
      BY <1>2, <3>2, <3>4
    <3>6. u \o (h \o o) = (u \o h) \o o
      <4>1. u \in Seq(U) /\ h \in Seq(U) /\ o \in Seq(U)
        BY <3>3, <3>5
      <4>. QED  BY <4>1, ConcatAssociative, SMTT(30)
    <3>. QED  BY <1>4, <3>1, <3>4, <3>6, AskedIs DEF WalkMessage
  <2>5. ASSUME NEW junk \in Nat
        PROVE  Outcome(q, s \o c, (3 + n) + m, np_deserialize(q, d, junk))
    <3>. HIDE DEF s, g, w
    <3>1. q.t \in Known /\ s[Len(s)].k = "int" /\ s[Len(s)].v = l /\ Len(s) > 0
      BY <1>4, <1>7 DEF CountedBy, WalkMessage
    <3>2. Matched(s, g, 3 + n)
      BY <1>6
    <3>3. l \in Nat /\ l <= MAXWELEM /\ e \in WalkT /\ k = WalkOf(e, l)
      BY DEF CountedBy, WalkMessage
    <3>. QED  BY <2>3, <2>4, <3>1, <3>2, <3>3, OutcomeWalk DEF WalkMessage
  <2>6. Wanted(q, s \o c)
    BY <1>4, <1>5
  <2>7. PICK u, v, x : u = s \o c /\ v = g \o k /\ x = (3 + n) + m
    OBVIOUS
  <2>8. /\ Carried(q, u, v, x) /\ Wanted(q, u)
        /\ \A junk \in Nat : Outcome(q, u, x, np_deserialize(q, d, junk))
    BY <2>2, <2>5, <2>6, <2>7
  <2>. QED  BY <2>8, SoundBy
<1>. QED  BY <1>4, <1>8, NoneUnknown DEF GoodPacket, WalkMessage

\* No message.
LEMMA GoodNone ==
    ASSUME NEW d
    PROVE  Good(Create("none", 0, <<>>), d)
<1>1. ASSUME NEW count \in Nat, NEW cut \in Nat, NEW q, q = Packet(Create("none", 0, <<>>), count, cut)
      PROVE  q.t = "none"
  <2>1. "none" \notin Settable /\ 0 \in Nat /\ 0 <= 0
    BY DEF Settable
  <2>. QED  BY <1>1, <2>1, MatchedNone, PacketIs
<1>2. Create("none", 0, <<>>).t = "none"
  BY DEF Create
<1>. QED  BY <1>1, <1>2 DEF Good, GoodPacket

\* One that is not read at all, and one that is not read as it was made.
LEMMA GoodOdd ==
    ASSUME NEW t \in {"Tlerror", "Rgetlock"}, NEW b, NEW h, NEW n, Matched(b, h, n),
           NEW z, z = n, NEW d
    PROVE  Good(Create(t, z, b), d)
<1>. DEFINE m == Create(t, z, b)
<1>1. SUFFICES ASSUME NEW count \in Nat, NEW cut \in Nat, NEW q, q = Packet(m, count, cut)
               PROVE  GoodPacket(m, q, d)
  BY DEF Good
<1>2. n \in Nat /\ n <= n /\ t \notin Settable
  BY DEF Matched, Settable
<1>3. q.t = t
  BY <1>1, <1>2, PacketIs
<1>4. ASSUME q.size >= 7 PROVE Sound(q, d)
  <2>1. Carried(q, IdTag \o b, IdTag \o h, 3 + n)
    BY <1>1, <1>2, <1>4, CarriedIs
  <2>2. q.size \in Nat /\ q.cut \in Nat /\ q.size + q.cut = 4 + (3 + n)
    BY <2>1 DEF Carried
  <2>3. FilledUp(q)
    <3>1. PICK s, g, v : Matched(s, g, 3 + n) /\ Len(s) > 0 /\ Holds(q.fields, v, s)
      BY <2>1 DEF Carried
    <3>2. Max({c.at + c.w : c \in q.fields}) = 4 + (3 + n)
      BY <3>1, FieldsEnd
    <3>3. q.cut = 0 => q.size = 4 + (3 + n)
      BY <1>2, <2>2
    <3>. QED  BY <3>2, <3>3 DEF FilledUp
  <2>4. ASSUME NEW junk \in Nat PROVE Fate(q, d, np_deserialize(q, d, junk))
    <3>1. CASE t = "Tlerror"
      <4>1. q.t \notin Known
        BY <1>3, <3>1 DEF Known, Gets2000, Gets9P, GetsL1, GetsL2
      <4>2. np_deserialize(q, d, junk).ok = FALSE
        BY <4>1, Unknown
      <4>. QED  BY <1>3, <3>1, <4>2 DEF Fate
    <3>2. CASE t = "Rgetlock"
      BY <1>3, <3>2 DEF Fate, NotAlike
    <3>. QED  BY <3>1, <3>2
  <2>. QED  BY <1>4, <2>2, <2>3, <2>4 DEF Sound
<1>. QED  BY <1>3, <1>4 DEF GoodPacket

\* The reply with bytes at its end that nobody wrote.
LEMMA GoodLong ==
    ASSUME NEW b, NEW h, NEW n, Matched(b, h, n), NEW z \in Nat, n <= z, NEW d,
           "Rstatfs" \in Known, Gets("Rstatfs", d) = h
    PROVE  Good(Create("Rstatfs", z, b), d)
<1>. DEFINE m == Create("Rstatfs", z, b)
            s == IdTag \o b
            g == IdTag \o h
<1>1. SUFFICES ASSUME NEW count \in Nat, NEW cut \in Nat, NEW q, q = Packet(m, count, cut)
               PROVE  GoodPacket(m, q, d)
  BY DEF Good
<1>2. n \in Nat /\ "Rstatfs" \notin Settable
  BY DEF Matched, Settable
<1>3. /\ q.t = "Rstatfs" /\ q.size = (7 + z) - cut /\ q.cut = cut
      /\ Holds(q.fields, 7 + z, s) /\ Wanted(q, s)
  BY <1>1, <1>2, PacketIs
<1>4. Matched(s, g, 3 + n)
  BY MatchedIdTag, MatchedCat
<1>5. Asked(q.t, d) = g
  BY <1>3, AskedIs
<1>. HIDE DEF m, s, g
<1>6. ASSUME q.size >= 7 PROVE Sound(q, d)
  <2>1. q.size \in Nat /\ q.cut \in Nat /\ (q.cut = 0 => 4 + (3 + n) <= q.size)
    BY <1>2, <1>3, <1>6
  <2>2. \E pl : Laid(s, pl) /\ Held(q.fields, s, pl, 4)
    BY <1>3, HeldPacket
  <2>3. Packed(q, s, g, 3 + n)
    BY <1>4, <1>6, <2>1, <2>2 DEF Packed
  <2>4. ASSUME NEW junk \in Nat PROVE Fate(q, d, np_deserialize(q, d, junk))
    <3>1. PICK D : D = np_deserialize(q, d, junk)
      OBVIOUS
    <3>2. ASSUME q.cut = 0 PROVE D.ok /\ \A i \in 1..Len(s) : <<s[i].f, s[i].f>> \in D.got
      <4>1. 4 + (3 + n) <= q.size
        BY <2>1, <3>2
      <4>2. PICK r0 : r0 = Start0(q, junk)
        OBVIOUS
      <4>3. PICK r : r = buf_get_all(r0, g)
        OBVIOUS
      <4>4. ReadOut(q, s, 3 + n, r)
        BY <2>3, <4>2, <4>3, GetPacked
      <4>5. /\ Reading(r, q.fields, q.size) /\ r.err = FALSE /\ r.p = 4 + (3 + n)
            /\ \A i \in 1..Len(s) : <<s[i].f, s[i].f>> \in r.got
        BY <4>1, <4>4 DEF ReadOut
      <4>6. ~buf_check_overflow(r)
        BY <1>2, <4>1, <4>5 DEF buf_check_overflow, Reading
      <4>7. r0.err = FALSE /\ g \in Seq(ItemT)
        BY <1>4, <2>1, <4>2, Starting DEF Matched
      <4>8. GetItems(r0, g) = r
        BY <4>3, <4>7, ItemsPlain
      <4>9. q.t \in Known
        BY <1>3
      <4>10. D = [ok |-> ~GetItems(r0, Asked(q.t, d)).err
                          /\ ~buf_check_overflow(GetItems(r0, Asked(q.t, d))),
                  got |-> GetItems(r0, Asked(q.t, d)).got]
        BY <3>1, <4>2, <4>9, Deserialized
      <4>11. D = [ok |-> ~r.err /\ ~buf_check_overflow(r), got |-> r.got]
        BY <1>5, <4>8, <4>10
      <4>12. D.ok = (~r.err /\ ~buf_check_overflow(r)) /\ D.got = r.got
        BY <4>11
      <4>. QED  BY <4>5, <4>6, <4>12
    <3>3. q.cut = 0 \/ q.cut > 0
      BY <2>1
    <3>4. ASSUME q.cut = 0, NEW f \in q.want \ {<<"size", 0>>} PROVE <<f, f>> \in D.got
      <4>1. PICK i \in 1..Len(s) : f = s[i].f
        BY <1>3, <3>4 DEF Wanted
      <4>. QED  BY <3>2, <3>4, <4>1
    <3>5. Fate(q, d, D)
      BY <1>3, <3>2, <3>3, <3>4 DEF Fate
    <3>. QED  BY <3>1, <3>5
  <2>5. FilledUp(q)
    BY <1>3 DEF FilledUp
  <2>. QED  BY <1>6, <2>1, <2>4, <2>5 DEF Sound
<1>. QED  BY <1>3, <1>6 DEF GoodPacket

\* The rest of a message does not fit.
LEMMA PutShort ==
    ASSUME NEW t, NEW z \in Nat, NEW b, NEW h, NEW n, Matched(b, h, n), n < z,
           NEW e \in ItemT, ~(n + e.w <= z), NEW c \in Seq(ItemT)
    PROVE  np_post_check(Create(t, z, (b \o <<e>>) \o c)).t = "none"
<1>. DEFINE s == IdTag \o b
            v == 7 + z
            w == C32("size", v)
            b0 == Buf(0, v, {})
            o == <<e>>
            x == Create(t, z, (b \o o) \o c)
<1>1. n \in Nat /\ v \in Nat /\ b \in Seq(ItemT) /\ e.w \in Nat /\ o \in Seq(ItemT)
      /\ IdTag \in Seq(ItemT) /\ w \in Seq(ItemT) /\ z + 7 = v /\ z + 4 + 1 + 2 = v
      /\ w = <<SizeField(v)>>
  <2>1. n \in Nat /\ b \in Seq(ItemT) /\ IdTag \in Seq(ItemT)
    BY MatchedIdTag DEF Matched
  <2>2. e.w \in Nat
    BY DEF ItemT
  <2>3. o \in Seq(ItemT)
    BY OneOf
  <2>4. v \in Nat /\ z + 7 = v /\ z + 4 + 1 + 2 = v
    OBVIOUS
  <2>5. w = <<SizeField(v)>> /\ SizeField(v) \in ItemT
    <3>1. "size" \in Member
      BY DEF Member
    <3>. QED  BY <2>4, <3>1 DEF C32, SizeField, Item, ItemT
  <2>6. w \in Seq(ItemT)
    BY <2>5, OneOf
  <2>. QED  BY <2>1, <2>2, <2>3, <2>4, <2>5, <2>6
<1>. HIDE DEF o, v, w
<1>2. x.size = v /\ x.items = w \o (IdTag \o ((b \o o) \o c))
  <2>1. (b \o o) \o c \in Seq(ItemT)
    BY <1>1
  <2>2. PICK y : y = (b \o o) \o c
    OBVIOUS
  <2>3. x.size = z + 4 + 1 + 2 /\ x.items = C32("size", z + 7) \o I8("id") \o I16("tag") \o y
    BY <2>2 DEF Create
  <2>4. C32("size", v) \o I8("id") \o I16("tag") \o y = C32("size", v) \o (IdTag \o y)
    BY <2>1, <2>2, ItemsOf
  <2>. QED  BY <1>1, <2>2, <2>3, <2>4 DEF w
<1>3. IdTag \o ((b \o o) \o c) = (s \o o) \o c
  <2>1. PICK i : i = IdTag
    OBVIOUS
  <2>2. i \in Seq(ItemT) /\ b \in Seq(ItemT) /\ o \in Seq(ItemT)
    BY <1>1, <2>1
  <2>3. (i \o b) \o o = i \o (b \o o)
    BY <2>2, ConcatAssociative, SMTT(30)
  <2>4. PICK y : y = b \o o
    OBVIOUS
  <2>5. i \in Seq(ItemT) /\ y \in Seq(ItemT) /\ c \in Seq(ItemT)
    BY <2>2, <2>4
  <2>6. (i \o y) \o c = i \o (y \o c)
    BY <2>5, ConcatAssociative, SMTT(30)
  <2>. QED  BY <2>1, <2>3, <2>4, <2>6
<1>4. Matched(s, IdTag \o h, 3 + n)
  BY MatchedIdTag, MatchedCat
<1>5. PICK pl : Laid(s, pl) /\ pl[Len(s)] = 3 + n
  BY <1>4 DEF Matched
<1>6. s \in Seq(ItemT)
  BY <1>4 DEF Matched
<1>. HIDE DEF s, x, b0
<1>. DEFINE y1 == buf_put(b0, SizeField(v))
            y2 == buf_put_all(y1, s)
            y3 == buf_put(y2, e)
<1>7. buf_put_all(b0, x.items) = buf_put_all(y3, c)
  <2>1. s \o o \in Seq(ItemT) /\ (s \o o) \o c \in Seq(ItemT)
    BY <1>1, <1>6
  <2>2. PICK y : y = s \o o
    OBVIOUS
  <2>3. PICK u : u = y \o c
    OBVIOUS
  <2>4. x.items = w \o u
    BY <1>2, <1>3, <2>2, <2>3
  <2>5. w \in Seq(ItemT) /\ u \in Seq(ItemT)
    BY <1>1, <2>1, <2>2, <2>3
  <2>6. buf_put_all(b0, w \o u) = buf_put_all(buf_put_all(b0, w), u)
    BY <2>5, PutConcat
  <2>7. buf_put_all(b0, w) = y1
    BY <1>1, PutOne
  <2>8. y \in Seq(ItemT) /\ c \in Seq(ItemT)
    BY <2>1, <2>2
  <2>. HIDE DEF y1
  <2>9. buf_put_all(y1, y \o c) = buf_put_all(buf_put_all(y1, y), c)
    BY <2>8, PutConcat
  <2>10. s \in Seq(ItemT) /\ o \in Seq(ItemT)
    BY <1>1, <1>6
  <2>11. buf_put_all(y1, s \o o) = buf_put_all(buf_put_all(y1, s), o)
    BY <2>10, PutConcat
  <2>12. buf_put_all(y2, o) = y3
    BY PutOne DEF o
  <2>. QED  BY <2>2, <2>3, <2>4, <2>6, <2>7, <2>9, <2>11, <2>12
<1>8. y1 = Buf(4, v, With({}, SizeField(v), 0))
  <2>1. SizeField(v).w = 4
    BY DEF SizeField, Item
  <2>2. 0 \in Nat /\ SizeField(v).w \in Nat /\ 0 + SizeField(v).w <= v /\ 0 + SizeField(v).w = 4
    BY <2>1 DEF v
  <2>3. buf_put(Buf(0, v, {}), SizeField(v)) = Buf(0 + SizeField(v).w, v, With({}, SizeField(v), 0))
    BY <1>1, <2>2, PutFits
  <2>. QED  BY <2>2, <2>3 DEF b0
<1>9. PICK f : f = With({}, SizeField(v), 0)
  OBVIOUS
<1>. HIDE DEF y1
<1>10. y2 = Buf(4 + (3 + n), v, WithAll(f, s, pl, 4))
  <2>1. 4 \in Nat /\ 4 + pl[Len(s)] <= v
    BY <1>1, <1>5 DEF v
  <2>2. buf_put_all(Buf(4, v, f), s) = Buf(4 + pl[Len(s)], v, WithAll(f, s, pl, 4))
    BY <1>1, <1>5, <2>1, PutAll, SMTT(30)
  <2>. QED  BY <1>5, <1>8, <1>9, <2>2
<1>11. PICK k : k = WithAll(f, s, pl, 4)
  OBVIOUS
<1>. HIDE DEF y2
<1>12. y3 = Buf(v + 1, v, k)
  <2>1. 4 + (3 + n) \in Nat /\ ~((4 + (3 + n)) + e.w <= v) /\ 4 + (3 + n) < v
    BY <1>1 DEF v
  <2>2. PICK p : p = 4 + (3 + n)
    OBVIOUS
  <2>3. p \in Nat /\ ~(p + e.w <= v) /\ p < v
    BY <2>1, <2>2
  <2>4. buf_put(Buf(p, v, k), e) = Buf(IF p < v THEN v + 1 ELSE p, v, k)
    BY <1>1, <2>3, PutPast
  <2>. QED  BY <1>10, <1>11, <2>2, <2>3, <2>4
<1>. HIDE DEF y3
<1>13. buf_put_all(y3, c) = Buf(v + 1, v, k)
  <2>1. PICK p : p = v + 1
    OBVIOUS
  <2>2. p \in Nat /\ p > v
    BY <1>1, <2>1
  <2>. QED  BY <1>1, <1>12, <2>1, <2>2, PutOver
<1>14. buf_check_overflow(Buf(v + 1, v, k))
  BY <1>1, BufIs DEF buf_check_overflow
<1>15. np_post_check(x) = NoPacket
  <2>1. np_post_check(x) = IF buf_check_overflow(buf_put_all([p |-> 0, ep |-> x.size, out |-> {}], x.items))
          THEN NoPacket
          ELSE [t |-> x.t, size |-> x.size,
                fields |-> buf_put_all([p |-> 0, ep |-> x.size, out |-> {}], x.items).out]
    BY DEF np_post_check
  <2>2. [p |-> 0, ep |-> x.size, out |-> {}] = b0
    BY <1>2 DEF Buf, b0
  <2>. QED  BY <1>7, <1>13, <1>14, <2>1, <2>2
<1>16. NoPacket.t = "none"
  BY DEF NoPacket
<1>. QED  BY <1>15, <1>16 DEF x, o

\* A message that does not fit.
LEMMA GoodShort ==
    ASSUME NEW m, np_post_check(m).t = "none", m.t \in {"none", "Tsetattr"}, NEW d
    PROVE  Good(m, d)
<1>1. ASSUME NEW count \in Nat, NEW cut \in Nat PROVE Packet(m, count, cut).t = "none"
  <2>1. PICK q : q = np_post_check(m)
    OBVIOUS
  <2>2. q.t = "none" /\ q.t \notin {"Rread", "Rreaddir"}
    BY <2>1
  <2>. QED  BY <2>1, <2>2 DEF Packet
<1>. QED  BY <1>1 DEF Good, GoodPacket

\* The Rerror of np_create_rerror1: the name without its length.
LEMMA GoodError ==
    ASSUME NEW b, NEW z, NEW n, NEW pl, LaidOut(b, n, z, pl),
           Len(b) > 0, b[1].k = "data", b[1].f = <<"ename", 0>>, NEW d
    PROVE  Good(Create("Rerror", z, b), d)
<1>. DEFINE m == Create("Rerror", z, b)
            s == IdTag \o b
            y == np_post_check(m)
<1>1. y.t = "Rerror" /\ y.size = 7 + z /\ Holds(y.fields, 7 + z, s)
  BY PostLaid
<1>2. \E c \in y.fields : c.f = <<"ename", 0>> /\ c.k = "data"
  <2>1. PICK r : Laid(s, r) /\ y.fields = With(FieldsOf(s, r, 4), SizeField(7 + z), 0)
    BY <1>1 DEF Holds
  <2>2. 3 \in 1..Len(s) /\ s[3] = b[1]
    <3>1. PICK i : i = IdTag
      OBVIOUS
    <3>2. i \in Seq(ItemT) /\ Len(i) = 2 /\ b \in Seq(ItemT) /\ Len(b) \in Nat
      BY <3>1, MatchedIdTag DEF Matched, LaidOut
    <3>3. Len(i \o b) = Len(i) + Len(b)
      BY <3>2, ConcatProperties
    <3>4. 3 \in 1..Len(i \o b) /\ ~(3 <= Len(i)) /\ 3 - Len(i) = 1
      BY <3>2, <3>3
    <3>5. (i \o b)[3] = b[3 - Len(i)]
      <4>1. i \in Seq(ItemT) /\ b \in Seq(ItemT)
        BY <3>2
      <4>. QED  BY <3>4, <4>1, ConcatProperties
    <3>. QED  BY <3>1, <3>4, <3>5
  <2>3. Field(s[3], 4 + r[3 - 1]) \in y.fields
    BY <2>1, <2>2 DEF With, FieldsOf
  <2>4. Field(s[3], 4 + r[3 - 1]).f = <<"ename", 0>> /\ Field(s[3], 4 + r[3 - 1]).k = "data"
    BY <2>2 DEF Field
  <2>. QED  BY <2>3, <2>4
<1>. HIDE DEF m, y
<1>3. ASSUME NEW count \in Nat, NEW cut \in Nat PROVE GoodPacket(m, Packet(m, count, cut), d)
  <2>1. PICK q : q = Packet(m, count, cut)
    OBVIOUS
  <2>2. q = [t |-> y.t, size |-> y.size - cut, fields |-> y.fields, want |-> Names(m), cut |-> cut]
    BY <1>1, <2>1 DEF Packet, y
  <2>3. q.t = "Rerror" /\ q.size = (7 + z) - cut /\ q.cut = cut /\ q.fields = y.fields
    BY <1>1, <2>2
  <2>4. NoLength(q)
    BY <1>2, <2>3 DEF NoLength
  <2>5. ASSUME q.size >= 7 PROVE Sound(q, d)
    <3>1. z \in Nat
      BY DEF LaidOut
    <3>2. q.size \in Nat /\ q.cut \in Nat
      BY <2>3, <2>5, <3>1
    <3>. QED  BY <2>4, <2>5, <3>2 DEF Sound, FilledUp, Fate, NotAlike
  <2>. QED  BY <2>1, <2>3, <2>5 DEF GoodPacket
<1>. QED  BY <1>3 DEF Good, m

\* A Tauth of 9P2000.u: its last field does not fit, but np_post_check does not see it.
LEMMA GoodAuth ==
    ASSUME NEW b, NEW h, NEW n, Matched(b, h, n), NEW z, z = n, NEW e \in ItemT,
           e.k = "int", e.w > 0, NEW d, d = TRUE, "Tauth" \in Known, Gets("Tauth", d) = h \o <<e>>
    PROVE  Good(Create("Tauth", z, b \o <<e>>), d)
<1>. DEFINE m == Create("Tauth", z, b \o <<e>>)
            m0 == Create("Tauth", z, b)
            s == IdTag \o b
            g == IdTag \o h
            v == 7 + z
            b0 == Buf(0, v, {})
            o == <<e>>
<1>1. /\ n \in Nat /\ z \in Nat /\ n <= z /\ v \in Nat /\ b \in Seq(ItemT) /\ h \in Seq(ItemT)
      /\ IdTag \in Seq(ItemT) /\ e.w \in Nat /\ e \in ItemT /\ e.k # "data"
  BY MatchedIdTag DEF Matched, ItemT
<1>2. Matched(s, g, 3 + n)
  BY MatchedIdTag, MatchedCat
<1>3. PICK pl : LaidOut(b, n, z, pl)
  <2>1. PICK pl : Laid(s, pl) /\ pl[Len(s)] = 3 + n
    BY <1>2 DEF Matched
  <2>2. LaidOut(b, n, z, pl)
    BY <1>1, <2>1 DEF LaidOut
  <2>. QED  BY <2>2
<1>4. PICK f : f = With(FieldsOf(s, pl, 4), SizeField(v), 0)
  OBVIOUS
<1>5. m0.items = C32("size", v) \o s /\ buf_put_all(b0, m0.items) = Buf(v, v, f)
  <2>1. PutAs(m0, "Tauth", s, v, 4 + (3 + n), pl)
    BY <1>3, PutLaid
  <2>2. 4 + (3 + n) = v
    BY <1>1
  <2>. QED  BY <1>4, <2>1, <2>2 DEF PutAs
<1>6. o \in Seq(ItemT)
  BY OneOf
<1>. HIDE DEF m0, g, o
<1>7. m.t = "Tauth" /\ m.size = v /\ m.items = C32("size", v) \o (s \o o)
  <2>1. PICK y : y = b \o o
    OBVIOUS
  <2>2. y \in Seq(ItemT)
    BY <1>1, <1>6, <2>1
  <2>3. m.t = "Tauth" /\ m.size = z + 4 + 1 + 2
        /\ m.items = C32("size", z + 7) \o I8("id") \o I16("tag") \o y
    BY <2>1 DEF Create, o
  <2>4. z + 7 = v /\ z + 4 + 1 + 2 = v
    BY <1>1
  <2>5. C32("size", v) \o I8("id") \o I16("tag") \o y = C32("size", v) \o (IdTag \o y)
    BY <2>2, ItemsOf
  <2>6. IdTag \o (b \o o) = s \o o
    <3>1. PICK u : u = IdTag
      OBVIOUS
    <3>2. u \in Seq(ItemT) /\ b \in Seq(ItemT) /\ o \in Seq(ItemT)
      BY <1>1, <1>6, <3>1
    <3>3. (u \o b) \o o = u \o (b \o o)
      BY <3>2, ConcatAssociative, SMTT(30)
    <3>. QED  BY <3>1, <3>3
  <2>7. m.size = v
    BY <2>3, <2>4
  <2>8. m.items = C32("size", v) \o (IdTag \o y)
    BY <2>3, <2>4, <2>5
  <2>9. IdTag \o y = s \o o
    BY <2>1, <2>6
  <2>. HIDE DEF m, s, v
  <2>. QED  BY <2>3, <2>7, <2>8, <2>9
<1>. HIDE DEF m, b0, v
<1>8. s \in Seq(ItemT)
  BY <1>2 DEF Matched
<1>. HIDE DEF s
<1>9. buf_put_all(b0, m.items) = Buf(v, v, f)
  <2>1. C32("size", v) \in Seq(ItemT)
    <3>1. SizeField(v) \in ItemT /\ C32("size", v) = <<SizeField(v)>>
      <4>1. "size" \in Member
        BY DEF Member
      <4>. QED  BY <1>1, <4>1 DEF C32, SizeField, Item, ItemT
    <3>. QED  BY <3>1, OneOf
  <2>2. PICK w : w = C32("size", v)
    OBVIOUS
  <2>3. w \o (s \o o) = (w \o s) \o o
    <3>1. w \in Seq(ItemT) /\ s \in Seq(ItemT) /\ o \in Seq(ItemT)
      BY <1>6, <1>8, <2>1, <2>2
    <3>. QED  BY <3>1, ConcatAssociative, SMTT(30)
  <2>4. PICK y : y = w \o s
    OBVIOUS
  <2>5. y \in Seq(ItemT) /\ o \in Seq(ItemT)
    BY <1>6, <1>8, <2>1, <2>2, <2>4
  <2>6. buf_put_all(b0, y \o o) = buf_put_all(buf_put_all(b0, y), o)
    BY <2>5, PutConcat
  <2>7. buf_put_all(Buf(v, v, f), o) = buf_put(Buf(v, v, f), e)
    BY PutOne DEF o
  <2>8. buf_put(Buf(v, v, f), e) = Buf(v, v, f)
    <3>1. ~(v + e.w <= v) /\ ~(v < v)
      BY <1>1
    <3>2. buf_put(Buf(v, v, f), e) = Buf(IF v < v THEN v + 1 ELSE v, v, f)
      BY <1>1, <3>1, PutPast
    <3>. QED  BY <3>1, <3>2
  <2>. QED  BY <1>5, <1>7, <2>2, <2>3, <2>4, <2>6, <2>7, <2>8
<1>10. np_post_check(m) = [t |-> "Tauth", size |-> v, fields |-> f]
  <2>1. ~buf_check_overflow(Buf(v, v, f)) /\ Buf(v, v, f).out = f
    BY <1>1, BufIs DEF buf_check_overflow
  <2>2. [p |-> 0, ep |-> m.size, out |-> {}] = b0
    BY <1>7 DEF Buf, b0
  <2>. QED  BY <1>7, <1>9, <2>1, <2>2 DEF np_post_check
<1>11. ASSUME NEW count \in Nat, NEW cut \in Nat PROVE GoodPacket(m, Packet(m, count, cut), d)
  <2>1. PICK q : q = Packet(m, count, cut)
    OBVIOUS
  <2>2. q = [t |-> "Tauth", size |-> v - cut, fields |-> f, want |-> Names(m), cut |-> cut]
    BY <1>10, <2>1 DEF Packet
  <2>3. q.t = "Tauth" /\ q.size = v - cut /\ q.cut = cut /\ q.fields = f
    BY <2>2
  <2>4. ASSUME q.size >= 7 PROVE Sound(q, d)
    <3>1. Holds(q.fields, v, s)
      <4>1. Laid(s, pl)
        BY <1>3 DEF LaidOut, s
      <4>. QED  BY <1>4, <2>3, <4>1 DEF Holds
    <3>2. q.cut \in Nat /\ q.size + q.cut = 4 + (3 + n) /\ q.size \in Nat
      BY <1>1, <2>3, <2>4 DEF v
    <3>3. Len(s) > 0
      <4>1. PICK u : u = IdTag
        OBVIOUS
      <4>2. u \in Seq(ItemT) /\ Len(u) = 2 /\ b \in Seq(ItemT) /\ Len(b) \in Nat
        BY <1>1, <4>1, MatchedIdTag
      <4>3. Len(u \o b) = Len(u) + Len(b)
        BY <4>2, ConcatProperties
      <4>. QED  BY <4>1, <4>2, <4>3 DEF s
    <3>4. Carried(q, s, g, 3 + n)
      BY <1>2, <2>4, <3>1, <3>2, <3>3 DEF Carried
    <3>5. Packed(q, s, g, 3 + n)
      BY <3>4, CarriedPacked
    <3>6. Asked(q.t, d) = g \o <<e>>
      <4>1. IdTag \o (h \o o) = (IdTag \o h) \o o
        <5>1. PICK u : u = IdTag
          OBVIOUS
        <5>2. u \in Seq(ItemT) /\ h \in Seq(ItemT) /\ o \in Seq(ItemT)
          BY <1>1, <1>6, <5>1
        <5>3. u \o (h \o o) = (u \o h) \o o
          BY <5>2, ConcatAssociative, SMTT(30)
        <5>. QED  BY <5>1, <5>3
      <4>2. Asked(q.t, d) = IdTag \o (h \o o)
        BY <2>3, AskedIs DEF o
      <4>. QED  BY <4>1, <4>2 DEF g, o
    <3>7. \A junk \in Nat : Outcome(q, s, 3 + n, np_deserialize(q, d, junk))
      BY <1>1, <2>3, <3>5, <3>6, OutcomeMore
    <3>8. NotAlike(q, d)
      BY <2>3 DEF NotAlike
    <3>. QED  BY <3>4, <3>7, <3>8, SoundBy
  <2>. QED  BY <2>1, <2>3, <2>4 DEF GoodPacket
<1>. QED  BY <1>11 DEF Good, m, o

\* The replies to reads: l bytes of data behind their number.
ReadPut(l) == C32("count", l) \o Data("data", l)
ReadGot == I32("count") \o Data("data", 0)

LEMMA MatchedRead ==
    ASSUME NEW l \in Nat
    PROVE  /\ Matched(ReadPut(l), ReadGot, 4 + l)
           /\ Matched(IdTag \o ReadPut(l), IdTag \o ReadGot, 3 + (4 + l))
<1>1. "count" \in Member /\ "data" \in Member
  BY DEF Member
<1>2. Matched(C32("count", l), I32("count"), 4)
  BY <1>1, MatchedField
<1>3. Len(C32("count", l)) = 1 /\ C32("count", l)[1].k = "int" /\ C32("count", l)[1].v = l
  BY DEF C32, Item
<1>4. PICK u, w : u = C32("count", l) /\ w = I32("count")
  OBVIOUS
<1>5. Matched(u, w, 4) /\ Len(u) > 0 /\ u[Len(u)].k = "int" /\ u[Len(u)].v = l
  BY <1>2, <1>3, <1>4
<1>6. Matched(u \o Data("data", l), w \o Data("data", 0), 4 + l)
  BY <1>1, <1>5, MatchedData
<1>7. Matched(ReadPut(l), ReadGot, 4 + l)
  BY <1>4, <1>6 DEF ReadPut, ReadGot
<1>8. Matched(IdTag \o ReadPut(l), IdTag \o ReadGot, 3 + (4 + l))
  BY <1>7, MatchedIdTag, MatchedCat
<1>. QED  BY <1>7, <1>8

\* The fields of such a packet.
Placed(k, n, w, v, at) == [k |-> k, f |-> <<n, 0>>, w |-> w, v |-> v, at |-> at]
ReadFields(v, l) ==
    {Placed("int", "size", 4, v, 0), Placed("int", "id", 1, 0, 4), Placed("int", "tag", 2, 0, 5),
     Placed("int", "count", 4, l, 7), Placed("data", "data", l, l, 11)}

\* The four behind the size.
LEMMA ReadItems ==
    ASSUME NEW l \in Nat
    PROVE  LET s == IdTag \o ReadPut(l) IN
           /\ Len(s) = 4 /\ s[1] = Item("int", "id", 0, 1, 0) /\ s[2] = Item("int", "tag", 0, 2, 0)
           /\ s[3] = Item("int", "count", 0, 4, l) /\ s[4] = Item("data", "data", 0, l, l)
<1>1. PICK a, b, c, e : /\ a = Item("int", "id", 0, 1, 0) /\ b = Item("int", "tag", 0, 2, 0)
                        /\ c = Item("int", "count", 0, 4, l) /\ e = Item("data", "data", 0, l, l)
  OBVIOUS
<1>2. IdTag = <<a>> \o <<b>> /\ ReadPut(l) = <<c>> \o <<e>>
  BY <1>1 DEF IdTag, ReadPut, I8, I16, C32, Data
<1>. DEFINE S == {a, b, c, e}
<1>3. PICK u, w : u = <<a>> \o <<b>> /\ w = <<c>> \o <<e>>
  OBVIOUS
<1>4. /\ u \in Seq(S) /\ Len(u) = 2 /\ u[1] = a /\ u[2] = b
      /\ w \in Seq(S) /\ Len(w) = 2 /\ w[1] = c /\ w[2] = e
  <2>1. a \in S /\ b \in S /\ c \in S /\ e \in S
    OBVIOUS
  <2>. HIDE DEF S
  <2>2. \A x \in S, y \in S : /\ <<x>> \o <<y>> \in Seq(S) /\ Len(<<x>> \o <<y>>) = 2
                              /\ (<<x>> \o <<y>>)[1] = x /\ (<<x>> \o <<y>>)[2] = y
    OBVIOUS
  <2>. QED  BY <1>3, <2>1, <2>2
<1>. HIDE DEF S
<1>5. /\ Len(u \o w) = 4 /\ (u \o w)[1] = a /\ (u \o w)[2] = b
      /\ (u \o w)[3] = c /\ (u \o w)[4] = e
  <2>1. u \in Seq(S) /\ w \in Seq(S)
    BY <1>4
  <2>2. Len(u \o w) = Len(u) + Len(w)
    BY <2>1, ConcatProperties
  <2>3. \A i \in 1..4 : (u \o w)[i] = IF i <= 2 THEN u[i] ELSE w[i - 2]
    BY <1>4, <2>1, <2>2, ConcatProperties
  <2>. QED  BY <1>4, <2>2, <2>3
<1>. QED  BY <1>1, <1>2, <1>3, <1>5

LEMMA ReadHeld ==
    ASSUME NEW F, NEW v, NEW l \in Nat
    PROVE  Holds(F, v, IdTag \o ReadPut(l)) <=> F = ReadFields(v, l)
<1>. DEFINE s == IdTag \o ReadPut(l)
<1>1. /\ Len(s) = 4 /\ s[1] = Item("int", "id", 0, 1, 0) /\ s[2] = Item("int", "tag", 0, 2, 0)
      /\ s[3] = Item("int", "count", 0, 4, l) /\ s[4] = Item("data", "data", 0, l, l)
  BY ReadItems
<1>2. \E pl : Laid(s, pl)
  BY MatchedRead DEF Matched
<1>. HIDE DEF s
<1>3. ASSUME NEW pl, Laid(s, pl) PROVE With(FieldsOf(s, pl, 4), SizeField(v), 0) = ReadFields(v, l)
  <2>1. /\ pl[0] = 0 /\ pl[1] = pl[1 - 1] + s[1].w /\ pl[2] = pl[2 - 1] + s[2].w
        /\ pl[3] = pl[3 - 1] + s[3].w
    BY <1>1, <1>3 DEF Laid
  <2>2. s[1].w = 1 /\ s[2].w = 2 /\ s[3].w = 4 /\ s[4].w = l
    BY <1>1 DEF Item
  <2>3. pl[1 - 1] = 0 /\ pl[2 - 1] = 1 /\ pl[3 - 1] = 3 /\ pl[4 - 1] = 7
    BY <2>1, <2>2
  <2>4. /\ Field(s[1], 4 + pl[1 - 1]) = Placed("int", "id", 1, 0, 4)
        /\ Field(s[2], 4 + pl[2 - 1]) = Placed("int", "tag", 2, 0, 5)
        /\ Field(s[3], 4 + pl[3 - 1]) = Placed("int", "count", 4, l, 7)
        /\ Field(s[4], 4 + pl[4 - 1]) = Placed("data", "data", l, l, 11)
    BY <1>1, <2>3 DEF Field, Item, Placed
  <2>5. Field(SizeField(v), 0) = Placed("int", "size", 4, v, 0)
    BY DEF Field, SizeField, Item, Placed
  <2>6. FieldsOf(s, pl, 4) = {Field(s[1], 4 + pl[1 - 1]), Field(s[2], 4 + pl[2 - 1]),
                              Field(s[3], 4 + pl[3 - 1]), Field(s[4], 4 + pl[4 - 1])}
    <3>1. 1..Len(s) = {1, 2, 3, 4}
      BY <1>1
    <3>. QED  BY <3>1 DEF FieldsOf
  <2>. QED  BY <2>4, <2>5, <2>6, Zenon DEF With, ReadFields
<1>. QED  BY <1>2, <1>3 DEF Holds, s

\* np_set_rread_count and np_set_rreaddir_count: the packet is one of the data that was read.
LEMMA SetIs ==
    ASSUME NEW y, NEW v, NEW l, y.fields = ReadFields(v, l), NEW t, NEW z,
           y = [t |-> t, size |-> z, fields |-> y.fields],
           NEW k \in Nat
    PROVE  SetCount(y, k) = [t |-> t, size |-> 11 + k, fields |-> ReadFields(11 + k, k)]
<1>. DEFINE G(c) == IF c.f = <<"data", 0>> THEN [c EXCEPT !.w = k, !.v = k]
                    ELSE IF c.f = <<"count", 0>> THEN [c EXCEPT !.v = k]
                    ELSE IF c.f = <<"size", 0>> THEN [c EXCEPT !.v = 4 + 1 + 2 + 4 + k]
                    ELSE c
<1>1. 4 + 1 + 2 + 4 + k = 11 + k
  OBVIOUS
<1>3. ASSUME NEW c
      PROVE  /\ c.f = <<"size", 0>> => G(c) = [c EXCEPT !.v = 11 + k]
             /\ c.f \in {<<"id", 0>>, <<"tag", 0>>} => G(c) = c
             /\ c.f = <<"count", 0>> => G(c) = [c EXCEPT !.v = k]
             /\ c.f = <<"data", 0>> => G(c) = [c EXCEPT !.w = k, !.v = k]
  <2>1. <<"size", 0>> # <<"data", 0>> /\ <<"size", 0>> # <<"count", 0>> /\ <<"count", 0>> # <<"data", 0>>
    OBVIOUS
  <2>2. \A x \in {<<"id", 0>>, <<"tag", 0>>} : x # <<"data", 0>> /\ x # <<"count", 0>> /\ x # <<"size", 0>>
    OBVIOUS
  <2>. QED  BY <1>1, <2>1, <2>2
<1>. HIDE DEF G
<1>9. /\ G(Placed("int", "size", 4, v, 0)) = Placed("int", "size", 4, 11 + k, 0)
      /\ G(Placed("int", "id", 1, 0, 4)) = Placed("int", "id", 1, 0, 4)
      /\ G(Placed("int", "tag", 2, 0, 5)) = Placed("int", "tag", 2, 0, 5)
      /\ G(Placed("int", "count", 4, l, 7)) = Placed("int", "count", 4, k, 7)
      /\ G(Placed("data", "data", l, l, 11)) = Placed("data", "data", k, k, 11)
  <2>1. G(Placed("int", "size", 4, v, 0)) = Placed("int", "size", 4, 11 + k, 0)
    <3>1. PICK c : c = Placed("int", "size", 4, v, 0)
      OBVIOUS
    <3>2. c.f = <<"size", 0>>
      BY <3>1 DEF Placed
    <3>3. \A j : [c EXCEPT !.v = j] = Placed("int", "size", 4, j, 0)
      BY <3>1 DEF Placed
    <3>. QED  BY <1>3, <3>1, <3>2, <3>3
  <2>2. G(Placed("int", "id", 1, 0, 4)) = Placed("int", "id", 1, 0, 4)
    <3>1. PICK c : c = Placed("int", "id", 1, 0, 4)
      OBVIOUS
    <3>2. c.f = <<"id", 0>>
      BY <3>1 DEF Placed
    <3>. QED  BY <1>3, <3>1, <3>2 DEF Placed
  <2>3. G(Placed("int", "tag", 2, 0, 5)) = Placed("int", "tag", 2, 0, 5)
    <3>1. PICK c : c = Placed("int", "tag", 2, 0, 5)
      OBVIOUS
    <3>2. c.f = <<"tag", 0>>
      BY <3>1 DEF Placed
    <3>. QED  BY <1>3, <3>1, <3>2 DEF Placed
  <2>4. G(Placed("int", "count", 4, l, 7)) = Placed("int", "count", 4, k, 7)
    <3>1. PICK c : c = Placed("int", "count", 4, l, 7)
      OBVIOUS
    <3>2. c.f = <<"count", 0>>
      BY <3>1 DEF Placed
    <3>3. \A j : [c EXCEPT !.v = j] = Placed("int", "count", 4, j, 7)
      BY <3>1 DEF Placed
    <3>. QED  BY <1>3, <3>1, <3>2, <3>3
  <2>5. G(Placed("data", "data", l, l, 11)) = Placed("data", "data", k, k, 11)
    <3>1. PICK c : c = Placed("data", "data", l, l, 11)
      OBVIOUS
    <3>2. c.f = <<"data", 0>>
      BY <3>1 DEF Placed
    <3>3. PICK e : e = [c EXCEPT !.w = k]
      OBVIOUS
    <3>4. e = Placed("data", "data", k, l, 11)
      BY <3>1, <3>3 DEF Placed
    <3>5. [e EXCEPT !.v = k] = Placed("data", "data", k, k, 11)
      BY <3>4 DEF Placed
    <3>. QED  BY <1>3, <3>1, <3>2, <3>3, <3>5
  <2>. QED  BY <2>1, <2>2, <2>3, <2>4, <2>5
<1>4. {G(c) : c \in ReadFields(v, l)} = ReadFields(11 + k, k)
  BY <1>9 DEF ReadFields
<1>5. SetCount(y, k) = [y EXCEPT !.size = 11 + k, !.fields = {G(c) : c \in y.fields}]
  BY <1>1 DEF SetCount, G
<1>6. ASSUME NEW a, NEW b
      PROVE  [y EXCEPT !.size = a, !.fields = b] = [t |-> t, size |-> a, fields |-> b]
  <2>1. PICK F : F = y.fields
    OBVIOUS
  <2>2. y = [t |-> t, size |-> z, fields |-> F]
    BY <2>1
  <2>3. PICK c : c = [y EXCEPT !.size = a]
    OBVIOUS
  <2>4. c = [t |-> t, size |-> a, fields |-> F]
    BY <2>2, <2>3
  <2>5. [c EXCEPT !.fields = b] = [t |-> t, size |-> a, fields |-> b]
    BY <2>4
  <2>. QED  BY <2>3, <2>5
<1>. QED  BY <1>4, <1>5, <1>6

\* A message whose count is set once it is known.
LEMMA GoodSet ==
    ASSUME NEW t \in Settable, t \in Known, NEW l \in Nat, NEW d, Gets(t, d) = ReadGot
    PROVE  Good(Create(t, 4 + l, ReadPut(l)), d)
<1>. DEFINE m == Create(t, 4 + l, ReadPut(l))
            y == np_post_check(m)
<1>1. y.t = t /\ Holds(y.fields, 7 + (4 + l), IdTag \o ReadPut(l))
  <2>1. 4 + l \in Nat /\ 4 + l <= 4 + l
    OBVIOUS
  <2>. QED  BY <2>1, MatchedRead, PostCheck
<1>2. y.fields = ReadFields(7 + (4 + l), l)
  BY <1>1, ReadHeld
<1>3. \E z : y = [t |-> t, size |-> z, fields |-> y.fields]
  BY <1>1 DEF np_post_check, NoPacket
<1>4. ASSUME NEW f \in Names(m), NEW k \in Nat
      PROVE  f = <<"size", 0>> \/ \E i \in 1..Len(IdTag \o ReadPut(k)) : f = (IdTag \o ReadPut(k))[i].f
  <2>1. ReadPut(l) \in Seq(ItemT)
    BY MatchedRead DEF Matched
  <2>2. f = <<"size", 0>> \/ \E i \in 1..Len(IdTag \o ReadPut(l)) : f = (IdTag \o ReadPut(l))[i].f
    BY <1>4, <2>1, NamesOf
  <2>3. PICK s, u : s = IdTag \o ReadPut(l) /\ u = IdTag \o ReadPut(k)
    OBVIOUS
  <2>4. /\ Len(s) = 4 /\ s[1] = Item("int", "id", 0, 1, 0) /\ s[2] = Item("int", "tag", 0, 2, 0)
        /\ s[3] = Item("int", "count", 0, 4, l) /\ s[4] = Item("data", "data", 0, l, l)
    BY <2>3, ReadItems
  <2>5. /\ Len(u) = 4 /\ u[1] = Item("int", "id", 0, 1, 0) /\ u[2] = Item("int", "tag", 0, 2, 0)
        /\ u[3] = Item("int", "count", 0, 4, k) /\ u[4] = Item("data", "data", 0, k, k)
    BY <2>3, ReadItems
  <2>6. \A i \in 1..4 : s[i].f = u[i].f
    <3>1. s[1].f = u[1].f /\ s[2].f = u[2].f /\ s[3].f = u[3].f /\ s[4].f = u[4].f
      BY <2>4, <2>5 DEF Item
    <3>. QED  BY <3>1
  <2>. QED  BY <2>2, <2>3, <2>4, <2>5, <2>6
<1>. HIDE DEF m, y
<1>5. ASSUME NEW count \in Nat, NEW cut \in Nat PROVE GoodPacket(m, Packet(m, count, cut), d)
  <2>1. PICK q : q = Packet(m, count, cut)
    OBVIOUS
  <2>2. PICK z : y = [t |-> t, size |-> z, fields |-> y.fields]
    BY <1>3
  <2>3. SetCount(y, count) = [t |-> t, size |-> 11 + count, fields |-> ReadFields(11 + count, count)]
    BY <1>2, <2>2, SetIs
  <2>4. Packet(m, count, cut) = [t |-> SetCount(y, count).t, size |-> SetCount(y, count).size - cut,
                                 fields |-> SetCount(y, count).fields, want |-> Names(m), cut |-> cut]
    BY <1>1 DEF Packet, y, Settable
  <2>5. /\ q.t = t /\ q.size = (11 + count) - cut /\ q.fields = ReadFields(11 + count, count)
        /\ q.want = Names(m) /\ q.cut = cut
    BY <2>1, <2>3, <2>4
  <2>6. PICK s, g : s = IdTag \o ReadPut(count) /\ g = IdTag \o ReadGot
    OBVIOUS
  <2>7. ASSUME q.size >= 7 PROVE Sound(q, d)
    <3>1. Matched(s, g, 3 + (4 + count)) /\ Len(s) > 0
      BY <2>6, MatchedRead, ReadItems
    <3>2. Holds(q.fields, 11 + count, s)
      BY <2>5, <2>6, ReadHeld
    <3>3. q.cut \in Nat /\ q.size + q.cut = 4 + (3 + (4 + count)) /\ q.size \in Nat
      BY <2>5, <2>7
    <3>4. Carried(q, s, g, 3 + (4 + count))
      BY <2>7, <3>1, <3>2, <3>3 DEF Carried
    <3>5. Packed(q, s, g, 3 + (4 + count))
      BY <3>4, CarriedPacked
    <3>6. Asked(q.t, d) = g
      BY <2>5, <2>6, AskedIs
    <3>7. \A junk \in Nat : Outcome(q, s, 3 + (4 + count), np_deserialize(q, d, junk))
      BY <2>5, <3>5, <3>6, OutcomePlain
    <3>8. Wanted(q, s)
      <4>1. ASSUME NEW f \in q.want PROVE f = <<"size", 0>> \/ \E i \in 1..Len(s) : f = s[i].f
        <5>1. f \in Names(m)
          BY <2>5
        <5>. QED  BY <1>4, <2>6, <5>1
      <4>. QED  BY <4>1 DEF Wanted
    <3>. QED  BY <3>4, <3>7, <3>8, SoundBy
  <2>. QED  BY <2>1, <2>5, <2>7, NoneUnknown DEF GoodPacket
<1>. QED  BY <1>5 DEF Good, m

----------------------------------------------------------------------------
(* The messages, one by one *)

\* The arguments of np_create_* in a conversation d.
ArgsIn(x, d) ==
    /\ x.a \in Nat /\ x.b \in Nat /\ x.n \in Nat /\ x.c \in Nat
    /\ d \in BOOLEAN /\ x.dotu = d

\* The messages of 9P2000.
Old ==
    {"Tversion", "Rversion", "Tauth", "Rauth", "Tflush", "Tattach", "Rattach", "Rerror",
     "Twalk", "Rwalk", "Topen", "Ropen", "Rcreate", "Tcreate", "Tread", "Rread", "Twrite",
     "Rwrite", "Tclunk", "Tremove", "Tstat", "Rflush", "Rclunk", "Rremove", "Rwstat", "Rstat",
     "Twstat"}

LEMMA OldIs ==
    ASSUME NEW d \in BOOLEAN, NEW t \in Old
    PROVE  t \in Known /\ Gets(t, d) = Gets9P([dotu |-> d])[t]
<1>1. t \in DOMAIN Gets2000 /\ t \notin DOMAIN GetsL1 /\ t \notin DOMAIN GetsL2
  BY DEF Old, Gets2000, Gets9P, GetsL1, GetsL2
<1>2. CASE d = TRUE
  BY <1>1, <1>2 DEF Gets, Gets2000u, Known
<1>3. CASE d = FALSE
  BY <1>1, <1>3 DEF Gets, Gets2000, Known
<1>. QED  BY <1>2, <1>3

\* Those of 9P2000.L.
LEMMA L1Is ==
    ASSUME NEW d, NEW t \in DOMAIN GetsL1
    PROVE  t \in Known /\ Gets(t, d) = GetsL1[t]
BY DEF Known, Gets

LEMMA L2Is ==
    ASSUME NEW d, NEW t \in DOMAIN GetsL2
    PROVE  t \in Known /\ Gets(t, d) = GetsL2[t]
<1>1. t \notin DOMAIN GetsL1
  BY DEF GetsL1, GetsL2
<1>. QED  BY <1>1 DEF Known, Gets

\* Fields that only 9P2000.u has.
LEMMA MatchedDotu ==
    ASSUME NEW s, NEW g, NEW n, Matched(s, g, n), NEW x, NEW y, x.dotu \in BOOLEAN, y.dotu = x.dotu
    PROVE  Matched(Dotu(x, s), Dotu(y, g), DotuSize(x, n))
<1>1. CASE x.dotu
  BY <1>1 DEF Dotu, DotuSize
<1>2. CASE ~x.dotu
  BY <1>2, MatchedNone DEF Dotu, DotuSize
<1>. QED  BY <1>1, <1>2

\* The fields that several messages have.
LEMMA MatchedParts == Matched(AttrTimes, AttrTimes, 32) /\ Matched(LockRange, LockRange, 20)
<1>0. {"atime_sec", "atime_nsec", "mtime_sec", "mtime_nsec", "offset", "locklength", "procid"} \subseteq Member
  BY DEF Member
<1>1. Matched(AttrTimes, AttrTimes, 8 + 8 + 8 + 8)
  <2>1. /\ Matched(I64("atime_sec"), I64("atime_sec"), 8) /\ Matched(I64("atime_nsec"), I64("atime_nsec"), 8)
        /\ Matched(I64("mtime_sec"), I64("mtime_sec"), 8) /\ Matched(I64("mtime_nsec"), I64("mtime_nsec"), 8)
    BY <1>0, MatchedField
  <2>. QED  BY <2>1, MatchedCat DEF AttrTimes
<1>2. Matched(LockRange, LockRange, 8 + 8 + 4)
  <2>1. /\ Matched(I64("offset"), I64("offset"), 8) /\ Matched(I64("locklength"), I64("locklength"), 8)
        /\ Matched(I32("procid"), I32("procid"), 4)
    BY <1>0, MatchedField
  <2>. QED  BY <2>1, MatchedCat DEF LockRange
<1>3. 8 + 8 + 8 + 8 = 32 /\ 8 + 8 + 4 = 20
  OBVIOUS
<1>. QED  BY <1>1, <1>2, <1>3

\* Tversion, Rversion.
LEMMA GoodTversion ==
    ASSUME NEW x, NEW d, ArgsIn(x, d)
    PROVE  Good(np_create_tversion(x), d) /\ Good(np_create_rversion(x), d)
<1>. DEFINE b == I32("msize") \o Str("version", x.a)
            g == I32("msize") \o Str("version", 0)
            n == 4 + (2 + x.a)
<1>1. Matched(b, g, n)
  <2>1. {"msize", "version"} \subseteq Member
    BY DEF Member
  <2>2. /\ Matched(I32("msize"), I32("msize"), 4)
        /\ Matched(Str("version", x.a), Str("version", 0), 2 + x.a)
    BY <2>1, MatchedField DEF ArgsIn
  <2>. QED  BY <2>2, MatchedCat
<1>2. /\ "Tversion" \in Known /\ Gets("Tversion", d) = g
      /\ "Rversion" \in Known /\ Gets("Rversion", d) = g
  <2>1. "Tversion" \in Old /\ "Rversion" \in Old
    BY DEF Old
  <2>2. Gets9P([dotu |-> d])["Tversion"] = g /\ Gets9P([dotu |-> d])["Rversion"] = g
    BY DEF Gets9P
  <2>. QED  BY <2>1, <2>2, OldIs DEF ArgsIn
<1>3. 4 + 2 + x.a = n
  BY DEF ArgsIn
<1>4. "Tversion" \notin Settable /\ "Rversion" \notin Settable
  BY DEF Settable
<1>. HIDE DEF b, g, n
<1>5. /\ Good(Create("Tversion", 4 + 2 + x.a, b), d)
      /\ Good(Create("Rversion", 4 + 2 + x.a, b), d)
  BY <1>1, <1>2, <1>3, <1>4, GoodPlain
<1>. QED  BY <1>5 DEF np_create_tversion, np_create_rversion, b

\* Rauth, Rattach, Rsymlink, Rmknod, Rmkdir.
LEMMA GoodQid ==
    ASSUME NEW x, NEW d, ArgsIn(x, d)
    PROVE  /\ Good(np_create_rauth(x), d) /\ Good(np_create_rattach(x), d)
           /\ Good(np_create_rsymlink(x), d) /\ Good(np_create_rmknod(x), d)
           /\ Good(np_create_rmkdir(x), d)
<1>. DEFINE b == Qid("qid")
            g == Qid("qid")
            n == 13
<1>1. Matched(b, g, n)
  <2>1. {"qid"} \subseteq Member
    BY DEF Member
  <2>2. Matched(Qid("qid"), Qid("qid"), 13)
    BY <2>1, MatchedField
  <2>. QED  BY <2>2
<1>2. /\ "Rauth" \in Known /\ Gets("Rauth", d) = g
      /\ "Rattach" \in Known /\ Gets("Rattach", d) = g
  <2>1. "Rauth" \in Old /\ "Rattach" \in Old
    BY DEF Old
  <2>2. Gets9P([dotu |-> d])["Rauth"] = g /\ Gets9P([dotu |-> d])["Rattach"] = g
    BY DEF Gets9P
  <2>. QED  BY <2>1, <2>2, OldIs DEF ArgsIn
<1>3. /\ "Rsymlink" \in Known /\ Gets("Rsymlink", d) = g
      /\ "Rmknod" \in Known /\ Gets("Rmknod", d) = g
  BY L1Is DEF GetsL1
<1>4. "Rmkdir" \in Known /\ Gets("Rmkdir", d) = g
  BY L2Is DEF GetsL2
<1>5. 13 = n
  BY DEF ArgsIn
<1>6. /\ "Rauth" \notin Settable /\ "Rattach" \notin Settable /\ "Rsymlink" \notin Settable
      /\ "Rmknod" \notin Settable /\ "Rmkdir" \notin Settable
  BY DEF Settable
<1>. HIDE DEF b, g, n
<1>7. /\ Good(Create("Rauth", 13, b), d) /\ Good(Create("Rattach", 13, b), d)
      /\ Good(Create("Rsymlink", 13, b), d) /\ Good(Create("Rmknod", 13, b), d)
      /\ Good(Create("Rmkdir", 13, b), d)
  BY <1>1, <1>2, <1>3, <1>4, <1>5, <1>6, GoodPlain
<1>. QED  BY <1>7 DEF np_create_rauth, np_create_rattach, np_create_rsymlink, np_create_rmknod,
      np_create_rmkdir, b

\* Rerror.
LEMMA GoodRerror ==
    ASSUME NEW x, NEW d, ArgsIn(x, d)
    PROVE  Good(np_create_rerror(x), d)
<1>0. PICK y : y = [dotu |-> d]
  OBVIOUS
<1>. DEFINE b == Str("ename", x.a) \o Dotu(x, I32("ecode"))
            g == Str("ename", 0) \o Dotu(y, I32("ecode"))
            n == (2 + x.a) + DotuSize(x, 4)
<1>1. Matched(b, g, n)
  <2>1. {"ename", "ecode"} \subseteq Member
    BY DEF Member
  <2>2. /\ Matched(Str("ename", x.a), Str("ename", 0), 2 + x.a)
        /\ Matched(I32("ecode"), I32("ecode"), 4)
    BY <2>1, MatchedField DEF ArgsIn
  <2>3. Matched(Dotu(x, I32("ecode")), Dotu(y, I32("ecode")), DotuSize(x, 4))
    BY <1>0, <2>2, MatchedDotu DEF ArgsIn
  <2>. QED  BY <2>2, <2>3, MatchedCat
<1>2. "Rerror" \in Known /\ Gets("Rerror", d) = g
  <2>1. "Rerror" \in Old
    BY DEF Old
  <2>2. Gets9P([dotu |-> d])["Rerror"] = g
    BY <1>0 DEF Gets9P
  <2>. QED  BY <2>1, <2>2, OldIs DEF ArgsIn
<1>3. 2 + x.a + DotuSize(x, 4) = n
  BY DEF ArgsIn, DotuSize
<1>4. "Rerror" \notin Settable
  BY DEF Settable
<1>. HIDE DEF b, g, n
<1>5. Good(Create("Rerror", 2 + x.a + DotuSize(x, 4), b), d)
  BY <1>1, <1>2, <1>3, <1>4, GoodPlain
<1>. QED  BY <1>5 DEF np_create_rerror, b

\* Tflush.
LEMMA GoodTflush ==
    ASSUME NEW x, NEW d, ArgsIn(x, d)
    PROVE  Good(np_create_tflush(x), d)
<1>. DEFINE b == I16("oldtag")
            g == I16("oldtag")
            n == 2
<1>1. Matched(b, g, n)
  <2>1. {"oldtag"} \subseteq Member
    BY DEF Member
  <2>2. Matched(I16("oldtag"), I16("oldtag"), 2)
    BY <2>1, MatchedField
  <2>. QED  BY <2>2
<1>2. "Tflush" \in Known /\ Gets("Tflush", d) = g
  <2>1. "Tflush" \in Old
    BY DEF Old
  <2>2. Gets9P([dotu |-> d])["Tflush"] = g
    BY DEF Gets9P
  <2>. QED  BY <2>1, <2>2, OldIs DEF ArgsIn
<1>3. 2 = n
  BY DEF ArgsIn
<1>4. "Tflush" \notin Settable
  BY DEF Settable
<1>. HIDE DEF b, g, n
<1>5. Good(Create("Tflush", 2, b), d)
  BY <1>1, <1>2, <1>3, <1>4, GoodPlain
<1>. QED  BY <1>5 DEF np_create_tflush, b

\* The messages with nothing but a header.
LEMMA GoodBare ==
    ASSUME NEW x, NEW d, ArgsIn(x, d)
    PROVE  /\ Good(np_create_rflush(x), d) /\ Good(np_create_rclunk(x), d)
           /\ Good(np_create_rremove(x), d) /\ Good(np_create_rwstat(x), d)
           /\ Good(np_create_rrename(x), d) /\ Good(np_create_rsetattr(x), d)
           /\ Good(np_create_rxattrcreate(x), d) /\ Good(np_create_rfsync(x), d)
           /\ Good(np_create_rlink(x), d) /\ Good(np_create_rrenameat(x), d)
           /\ Good(np_create_runlinkat(x), d)
<1>2. /\ "Rflush" \in Known /\ Gets("Rflush", d) = <<>>
      /\ "Rclunk" \in Known /\ Gets("Rclunk", d) = <<>>
      /\ "Rremove" \in Known /\ Gets("Rremove", d) = <<>>
      /\ "Rwstat" \in Known /\ Gets("Rwstat", d) = <<>>
  <2>1. "Rflush" \in Old /\ "Rclunk" \in Old /\ "Rremove" \in Old /\ "Rwstat" \in Old
    BY DEF Old
  <2>2. /\ Gets9P([dotu |-> d])["Rflush"] = <<>> /\ Gets9P([dotu |-> d])["Rclunk"] = <<>>
        /\ Gets9P([dotu |-> d])["Rremove"] = <<>> /\ Gets9P([dotu |-> d])["Rwstat"] = <<>>
    BY DEF Gets9P
  <2>. QED  BY <2>1, <2>2, OldIs DEF ArgsIn
<1>3. "Rrename" \in Known /\ Gets("Rrename", d) = <<>>
  BY L1Is DEF GetsL1
<1>4. /\ "Rsetattr" \in Known /\ Gets("Rsetattr", d) = <<>>
      /\ "Rxattrcreate" \in Known /\ Gets("Rxattrcreate", d) = <<>>
      /\ "Rfsync" \in Known /\ Gets("Rfsync", d) = <<>>
      /\ "Rlink" \in Known /\ Gets("Rlink", d) = <<>>
      /\ "Rrenameat" \in Known /\ Gets("Rrenameat", d) = <<>>
      /\ "Runlinkat" \in Known /\ Gets("Runlinkat", d) = <<>>
  BY L2Is DEF GetsL2
<1>5. /\ "Rflush" \notin Settable /\ "Rclunk" \notin Settable /\ "Rremove" \notin Settable
      /\ "Rwstat" \notin Settable /\ "Rrename" \notin Settable /\ "Rsetattr" \notin Settable
      /\ "Rxattrcreate" \notin Settable /\ "Rfsync" \notin Settable /\ "Rlink" \notin Settable
      /\ "Rrenameat" \notin Settable /\ "Runlinkat" \notin Settable
  BY DEF Settable
<1>6. /\ Good(Create("Rflush", 0, <<>>), d) /\ Good(Create("Rclunk", 0, <<>>), d)
      /\ Good(Create("Rremove", 0, <<>>), d) /\ Good(Create("Rwstat", 0, <<>>), d)
      /\ Good(Create("Rrename", 0, <<>>), d) /\ Good(Create("Rsetattr", 0, <<>>), d)
      /\ Good(Create("Rxattrcreate", 0, <<>>), d) /\ Good(Create("Rfsync", 0, <<>>), d)
      /\ Good(Create("Rlink", 0, <<>>), d) /\ Good(Create("Rrenameat", 0, <<>>), d)
      /\ Good(Create("Runlinkat", 0, <<>>), d)
  BY <1>2, <1>3, <1>4, <1>5, MatchedNone, GoodPlain
<1>. QED  BY <1>6 DEF np_create_rflush, np_create_rclunk, np_create_rremove, np_create_rwstat,
      np_create_rrename, np_create_rsetattr, np_create_rxattrcreate, np_create_rfsync,
      np_create_rlink, np_create_rrenameat, np_create_runlinkat

\* Tattach.
LEMMA GoodTattach ==
    ASSUME NEW x, NEW d, ArgsIn(x, d)
    PROVE  Good(np_create_tattach(x), d)
<1>0. PICK y : y = [dotu |-> d]
  OBVIOUS
<1>. DEFINE b == I32("fid") \o I32("afid") \o Str("uname", x.a) \o Str("aname", x.b)
               \o Dotu(x, I32("n_uname"))
            g == I32("fid") \o I32("afid") \o Str("uname", 0) \o Str("aname", 0)
               \o Dotu(y, I32("n_uname"))
            n == 4 + 4 + (2 + x.a) + (2 + x.b) + DotuSize(x, 4)
<1>1. Matched(b, g, n)
  <2>1. {"fid", "afid", "uname", "aname", "n_uname"} \subseteq Member
    BY DEF Member
  <2>2. /\ Matched(I32("fid"), I32("fid"), 4) /\ Matched(I32("afid"), I32("afid"), 4)
        /\ Matched(Str("uname", x.a), Str("uname", 0), 2 + x.a)
        /\ Matched(Str("aname", x.b), Str("aname", 0), 2 + x.b)
        /\ Matched(I32("n_uname"), I32("n_uname"), 4)
    BY <2>1, MatchedField DEF ArgsIn
  <2>3. Matched(Dotu(x, I32("n_uname")), Dotu(y, I32("n_uname")), DotuSize(x, 4))
    BY <1>0, <2>2, MatchedDotu DEF ArgsIn
  <2>. QED  BY <2>2, <2>3, MatchedCat
<1>2. "Tattach" \in Known /\ Gets("Tattach", d) = g
  <2>1. "Tattach" \in Old
    BY DEF Old
  <2>2. Gets9P([dotu |-> d])["Tattach"] = g
    BY <1>0 DEF Gets9P
  <2>. QED  BY <2>1, <2>2, OldIs DEF ArgsIn
<1>3. 4 + 4 + 2 + 2 + x.a + x.b + DotuSize(x, 4) = n
  BY DEF ArgsIn, DotuSize
<1>4. "Tattach" \notin Settable
  BY DEF Settable
<1>. HIDE DEF b, g, n
<1>5. Good(Create("Tattach", 4 + 4 + 2 + 2 + x.a + x.b + DotuSize(x, 4), b), d)
  BY <1>1, <1>2, <1>3, <1>4, GoodPlain
<1>. QED  BY <1>5 DEF np_create_tattach, b

\* Topen.
LEMMA GoodTopen ==
    ASSUME NEW x, NEW d, ArgsIn(x, d)
    PROVE  Good(np_create_topen(x), d)
<1>. DEFINE b == I32("fid") \o I8("mode")
            g == I32("fid") \o I8("mode")
            n == 4 + 1
<1>1. Matched(b, g, n)
  <2>1. {"fid", "mode"} \subseteq Member
    BY DEF Member
  <2>2. Matched(I32("fid"), I32("fid"), 4) /\ Matched(I8("mode"), I8("mode"), 1)
    BY <2>1, MatchedField
  <2>. QED  BY <2>2, MatchedCat
<1>2. "Topen" \in Known /\ Gets("Topen", d) = g
  <2>1. "Topen" \in Old
    BY DEF Old
  <2>2. Gets9P([dotu |-> d])["Topen"] = g
    BY DEF Gets9P
  <2>. QED  BY <2>1, <2>2, OldIs DEF ArgsIn
<1>3. 4 + 1 = n
  BY DEF ArgsIn
<1>4. "Topen" \notin Settable
  BY DEF Settable
<1>. HIDE DEF b, g, n
<1>5. Good(Create("Topen", 4 + 1, b), d)
  BY <1>1, <1>2, <1>3, <1>4, GoodPlain
<1>. QED  BY <1>5 DEF np_create_topen, b

\* Ropen, Rcreate, Rlopen, Rlcreate.
LEMMA GoodRopen ==
    ASSUME NEW x, NEW d, ArgsIn(x, d)
    PROVE  /\ Good(np_create_ropen(x), d) /\ Good(np_create_rcreate(x), d)
           /\ Good(np_create_rlopen(x), d) /\ Good(np_create_rlcreate(x), d)
<1>. DEFINE b == Qid("qid") \o I32("iounit")
            g == Qid("qid") \o I32("iounit")
            n == 13 + 4
<1>1. Matched(b, g, n)
  <2>1. {"qid", "iounit"} \subseteq Member
    BY DEF Member
  <2>2. Matched(Qid("qid"), Qid("qid"), 13) /\ Matched(I32("iounit"), I32("iounit"), 4)
    BY <2>1, MatchedField
  <2>. QED  BY <2>2, MatchedCat
<1>2. /\ "Ropen" \in Known /\ Gets("Ropen", d) = g
      /\ "Rcreate" \in Known /\ Gets("Rcreate", d) = g
  <2>1. "Ropen" \in Old /\ "Rcreate" \in Old
    BY DEF Old
  <2>2. Gets9P([dotu |-> d])["Ropen"] = g /\ Gets9P([dotu |-> d])["Rcreate"] = g
    BY DEF Gets9P
  <2>. QED  BY <2>1, <2>2, OldIs DEF ArgsIn
<1>3. /\ "Rlopen" \in Known /\ Gets("Rlopen", d) = g
      /\ "Rlcreate" \in Known /\ Gets("Rlcreate", d) = g
  BY L1Is DEF GetsL1
<1>4. 13 + 4 = n
  BY DEF ArgsIn
<1>5. /\ "Ropen" \notin Settable /\ "Rcreate" \notin Settable /\ "Rlopen" \notin Settable
      /\ "Rlcreate" \notin Settable
  BY DEF Settable
<1>. HIDE DEF b, g, n
<1>6. /\ Good(Create("Ropen", 13 + 4, b), d) /\ Good(Create("Rcreate", 13 + 4, b), d)
      /\ Good(Create("Rlopen", 13 + 4, b), d) /\ Good(Create("Rlcreate", 13 + 4, b), d)
  BY <1>1, <1>2, <1>3, <1>4, <1>5, GoodPlain
<1>. QED  BY <1>6 DEF np_create_ropen, np_create_rcreate, np_create_rlopen, np_create_rlcreate,
      b

\* Tread, Treaddir.
LEMMA GoodTread ==
    ASSUME NEW x, NEW d, ArgsIn(x, d)
    PROVE  Good(np_create_tread(x), d) /\ Good(np_create_treaddir(x), d)
<1>. DEFINE b == I32("fid") \o I64("offset") \o I32("count")
            g == I32("fid") \o I64("offset") \o I32("count")
            n == 4 + 8 + 4
<1>1. Matched(b, g, n)
  <2>1. {"fid", "offset", "count"} \subseteq Member
    BY DEF Member
  <2>2. /\ Matched(I32("fid"), I32("fid"), 4) /\ Matched(I64("offset"), I64("offset"), 8)
        /\ Matched(I32("count"), I32("count"), 4)
    BY <2>1, MatchedField
  <2>. QED  BY <2>2, MatchedCat
<1>2. "Tread" \in Known /\ Gets("Tread", d) = g
  <2>1. "Tread" \in Old
    BY DEF Old
  <2>2. Gets9P([dotu |-> d])["Tread"] = g
    BY DEF Gets9P
  <2>. QED  BY <2>1, <2>2, OldIs DEF ArgsIn
<1>3. "Treaddir" \in Known /\ Gets("Treaddir", d) = g
  BY L2Is DEF GetsL2
<1>4. 4 + 8 + 4 = n
  BY DEF ArgsIn
<1>5. "Tread" \notin Settable /\ "Treaddir" \notin Settable
  BY DEF Settable
<1>. HIDE DEF b, g, n
<1>6. Good(Create("Tread", 4 + 8 + 4, b), d) /\ Good(Create("Treaddir", 4 + 8 + 4, b), d)
  BY <1>1, <1>2, <1>3, <1>4, <1>5, GoodPlain
<1>. QED  BY <1>6 DEF np_create_tread, np_create_treaddir, b

\* Rwrite.
LEMMA GoodRwrite ==
    ASSUME NEW x, NEW d, ArgsIn(x, d)
    PROVE  Good(np_create_rwrite(x), d)
<1>. DEFINE b == I32("count")
            g == I32("count")
            n == 4
<1>1. Matched(b, g, n)
  <2>1. {"count"} \subseteq Member
    BY DEF Member
  <2>2. Matched(I32("count"), I32("count"), 4)
    BY <2>1, MatchedField
  <2>. QED  BY <2>2
<1>2. "Rwrite" \in Known /\ Gets("Rwrite", d) = g
  <2>1. "Rwrite" \in Old
    BY DEF Old
  <2>2. Gets9P([dotu |-> d])["Rwrite"] = g
    BY DEF Gets9P
  <2>. QED  BY <2>1, <2>2, OldIs DEF ArgsIn
<1>3. 4 = n
  BY DEF ArgsIn
<1>4. "Rwrite" \notin Settable
  BY DEF Settable
<1>. HIDE DEF b, g, n
<1>5. Good(Create("Rwrite", 4, b), d)
  BY <1>1, <1>2, <1>3, <1>4, GoodPlain
<1>. QED  BY <1>5 DEF np_create_rwrite, b

\* Tclunk, Tremove, Tstat, Tstatfs, Treadlink, Tfsync.
LEMMA GoodFid ==
    ASSUME NEW x, NEW d, ArgsIn(x, d)
    PROVE  /\ Good(np_create_tclunk(x), d) /\ Good(np_create_tremove(x), d)
           /\ Good(np_create_tstat(x), d) /\ Good(np_create_tstatfs(x), d)
           /\ Good(np_create_treadlink(x), d) /\ Good(np_create_tfsync(x), d)
<1>. DEFINE b == I32("fid")
            g == I32("fid")
            n == 4
<1>1. Matched(b, g, n)
  <2>1. {"fid"} \subseteq Member
    BY DEF Member
  <2>2. Matched(I32("fid"), I32("fid"), 4)
    BY <2>1, MatchedField
  <2>. QED  BY <2>2
<1>2. /\ "Tclunk" \in Known /\ Gets("Tclunk", d) = g
      /\ "Tremove" \in Known /\ Gets("Tremove", d) = g
      /\ "Tstat" \in Known /\ Gets("Tstat", d) = g
  <2>1. "Tclunk" \in Old /\ "Tremove" \in Old /\ "Tstat" \in Old
    BY DEF Old
  <2>2. /\ Gets9P([dotu |-> d])["Tclunk"] = g /\ Gets9P([dotu |-> d])["Tremove"] = g
        /\ Gets9P([dotu |-> d])["Tstat"] = g
    BY DEF Gets9P
  <2>. QED  BY <2>1, <2>2, OldIs DEF ArgsIn
<1>3. /\ "Tstatfs" \in Known /\ Gets("Tstatfs", d) = g
      /\ "Treadlink" \in Known /\ Gets("Treadlink", d) = g
  BY L1Is DEF GetsL1
<1>4. "Tfsync" \in Known /\ Gets("Tfsync", d) = g
  BY L2Is DEF GetsL2
<1>5. 4 = n
  BY DEF ArgsIn
<1>6. /\ "Tclunk" \notin Settable /\ "Tremove" \notin Settable /\ "Tstat" \notin Settable
      /\ "Tstatfs" \notin Settable /\ "Treadlink" \notin Settable /\ "Tfsync" \notin Settable
  BY DEF Settable
<1>. HIDE DEF b, g, n
<1>7. /\ Good(Create("Tclunk", 4, b), d) /\ Good(Create("Tremove", 4, b), d)
      /\ Good(Create("Tstat", 4, b), d) /\ Good(Create("Tstatfs", 4, b), d)
      /\ Good(Create("Treadlink", 4, b), d) /\ Good(Create("Tfsync", 4, b), d)
  BY <1>1, <1>2, <1>3, <1>4, <1>5, <1>6, GoodPlain
<1>. QED  BY <1>7 DEF np_create_tclunk, np_create_tremove, np_create_tstat, np_create_tstatfs,
      np_create_treadlink, np_create_tfsync, b

\* Rlerror.
LEMMA GoodRlerror ==
    ASSUME NEW x, NEW d, ArgsIn(x, d)
    PROVE  Good(np_create_rlerror(x), d)
<1>. DEFINE b == I32("ecode")
            g == I32("ecode")
            n == 4
<1>1. Matched(b, g, n)
  <2>1. {"ecode"} \subseteq Member
    BY DEF Member
  <2>2. Matched(I32("ecode"), I32("ecode"), 4)
    BY <2>1, MatchedField
  <2>. QED  BY <2>2
<1>2. "Rlerror" \in Known /\ Gets("Rlerror", d) = g
  BY L1Is DEF GetsL1
<1>3. 4 = n
  BY DEF ArgsIn
<1>4. "Rlerror" \notin Settable
  BY DEF Settable
<1>. HIDE DEF b, g, n
<1>5. Good(Create("Rlerror", 4, b), d)
  BY <1>1, <1>2, <1>3, <1>4, GoodPlain
<1>. QED  BY <1>5 DEF np_create_rlerror, b

\* Tlopen.
LEMMA GoodTlopen ==
    ASSUME NEW x, NEW d, ArgsIn(x, d)
    PROVE  Good(np_create_tlopen(x), d)
<1>. DEFINE b == I32("fid") \o I32("flags")
            g == I32("fid") \o I32("flags")
            n == 4 + 4
<1>1. Matched(b, g, n)
  <2>1. {"fid", "flags"} \subseteq Member
    BY DEF Member
  <2>2. Matched(I32("fid"), I32("fid"), 4) /\ Matched(I32("flags"), I32("flags"), 4)
    BY <2>1, MatchedField
  <2>. QED  BY <2>2, MatchedCat
<1>2. "Tlopen" \in Known /\ Gets("Tlopen", d) = g
  BY L1Is DEF GetsL1
<1>3. 4 + 4 = n
  BY DEF ArgsIn
<1>4. "Tlopen" \notin Settable
  BY DEF Settable
<1>. HIDE DEF b, g, n
<1>5. Good(Create("Tlopen", 4 + 4, b), d)
  BY <1>1, <1>2, <1>3, <1>4, GoodPlain
<1>. QED  BY <1>5 DEF np_create_tlopen, b

\* Tlcreate.
LEMMA GoodTlcreate ==
    ASSUME NEW x, NEW d, ArgsIn(x, d)
    PROVE  Good(np_create_tlcreate(x), d)
<1>. DEFINE b == I32("fid") \o Str("name", x.a) \o I32("flags") \o I32("perm") \o I32("gid")
            g == I32("fid") \o Str("name", 0) \o I32("flags") \o I32("perm") \o I32("gid")
            n == 4 + (2 + x.a) + 4 + 4 + 4
<1>1. Matched(b, g, n)
  <2>1. {"fid", "name", "flags", "perm", "gid"} \subseteq Member
    BY DEF Member
  <2>2. /\ Matched(I32("fid"), I32("fid"), 4)
        /\ Matched(Str("name", x.a), Str("name", 0), 2 + x.a)
        /\ Matched(I32("flags"), I32("flags"), 4) /\ Matched(I32("perm"), I32("perm"), 4)
        /\ Matched(I32("gid"), I32("gid"), 4)
    BY <2>1, MatchedField DEF ArgsIn
  <2>. QED  BY <2>2, MatchedCat
<1>2. "Tlcreate" \in Known /\ Gets("Tlcreate", d) = g
  BY L1Is DEF GetsL1
<1>3. 4 + 2 + x.a + 4 + 4 + 4 = n
  BY DEF ArgsIn
<1>4. "Tlcreate" \notin Settable
  BY DEF Settable
<1>. HIDE DEF b, g, n
<1>5. Good(Create("Tlcreate", 4 + 2 + x.a + 4 + 4 + 4, b), d)
  BY <1>1, <1>2, <1>3, <1>4, GoodPlain
<1>. QED  BY <1>5 DEF np_create_tlcreate, b

\* Tsymlink.
LEMMA GoodTsymlink ==
    ASSUME NEW x, NEW d, ArgsIn(x, d)
    PROVE  Good(np_create_tsymlink(x), d)
<1>. DEFINE b == I32("dfid") \o Str("name", x.a) \o Str("symtgt", x.b) \o I32("gid")
            g == I32("dfid") \o Str("name", 0) \o Str("symtgt", 0) \o I32("gid")
            n == 4 + (2 + x.a) + (2 + x.b) + 4
<1>1. Matched(b, g, n)
  <2>1. {"dfid", "name", "symtgt", "gid"} \subseteq Member
    BY DEF Member
  <2>2. /\ Matched(I32("dfid"), I32("dfid"), 4)
        /\ Matched(Str("name", x.a), Str("name", 0), 2 + x.a)
        /\ Matched(Str("symtgt", x.b), Str("symtgt", 0), 2 + x.b)
        /\ Matched(I32("gid"), I32("gid"), 4)
    BY <2>1, MatchedField DEF ArgsIn
  <2>. QED  BY <2>2, MatchedCat
<1>2. "Tsymlink" \in Known /\ Gets("Tsymlink", d) = g
  BY L1Is DEF GetsL1
<1>3. 4 + 2 + x.a + 2 + x.b + 4 = n
  BY DEF ArgsIn
<1>4. "Tsymlink" \notin Settable
  BY DEF Settable
<1>. HIDE DEF b, g, n
<1>5. Good(Create("Tsymlink", 4 + 2 + x.a + 2 + x.b + 4, b), d)
  BY <1>1, <1>2, <1>3, <1>4, GoodPlain
<1>. QED  BY <1>5 DEF np_create_tsymlink, b

\* Tmknod.
LEMMA GoodTmknod ==
    ASSUME NEW x, NEW d, ArgsIn(x, d)
    PROVE  Good(np_create_tmknod(x), d)
<1>. DEFINE b == I32("fid") \o Str("name", x.a) \o I32("perm") \o I32("major") \o I32("minor")
               \o I32("gid")
            g == I32("fid") \o Str("name", 0) \o I32("perm") \o I32("major") \o I32("minor")
               \o I32("gid")
            n == 4 + (2 + x.a) + 4 + 4 + 4 + 4
<1>1. Matched(b, g, n)
  <2>1. {"fid", "name", "perm", "major", "minor", "gid"} \subseteq Member
    BY DEF Member
  <2>2. /\ Matched(I32("fid"), I32("fid"), 4)
        /\ Matched(Str("name", x.a), Str("name", 0), 2 + x.a)
        /\ Matched(I32("perm"), I32("perm"), 4) /\ Matched(I32("major"), I32("major"), 4)
        /\ Matched(I32("minor"), I32("minor"), 4) /\ Matched(I32("gid"), I32("gid"), 4)
    BY <2>1, MatchedField DEF ArgsIn
  <2>. QED  BY <2>2, MatchedCat
<1>2. "Tmknod" \in Known /\ Gets("Tmknod", d) = g
  BY L1Is DEF GetsL1
<1>3. 4 + 2 + x.a + 4 + 4 + 4 + 4 = n
  BY DEF ArgsIn
<1>4. "Tmknod" \notin Settable
  BY DEF Settable
<1>. HIDE DEF b, g, n
<1>5. Good(Create("Tmknod", 4 + 2 + x.a + 4 + 4 + 4 + 4, b), d)
  BY <1>1, <1>2, <1>3, <1>4, GoodPlain
<1>. QED  BY <1>5 DEF np_create_tmknod, b

\* Trename.
LEMMA GoodTrename ==
    ASSUME NEW x, NEW d, ArgsIn(x, d)
    PROVE  Good(np_create_trename(x), d)
<1>. DEFINE b == I32("fid") \o I32("dfid") \o Str("name", x.a)
            g == I32("fid") \o I32("dfid") \o Str("name", 0)
            n == 4 + 4 + (2 + x.a)
<1>1. Matched(b, g, n)
  <2>1. {"fid", "dfid", "name"} \subseteq Member
    BY DEF Member
  <2>2. /\ Matched(I32("fid"), I32("fid"), 4) /\ Matched(I32("dfid"), I32("dfid"), 4)
        /\ Matched(Str("name", x.a), Str("name", 0), 2 + x.a)
    BY <2>1, MatchedField DEF ArgsIn
  <2>. QED  BY <2>2, MatchedCat
<1>2. "Trename" \in Known /\ Gets("Trename", d) = g
  BY L1Is DEF GetsL1
<1>3. 4 + 4 + 2 + x.a = n
  BY DEF ArgsIn
<1>4. "Trename" \notin Settable
  BY DEF Settable
<1>. HIDE DEF b, g, n
<1>5. Good(Create("Trename", 4 + 4 + 2 + x.a, b), d)
  BY <1>1, <1>2, <1>3, <1>4, GoodPlain
<1>. QED  BY <1>5 DEF np_create_trename, b

\* Rreadlink.
LEMMA GoodRreadlink ==
    ASSUME NEW x, NEW d, ArgsIn(x, d)
    PROVE  Good(np_create_rreadlink(x), d)
<1>. DEFINE b == Str("symtgt", x.a)
            g == Str("symtgt", 0)
            n == (2 + x.a)
<1>1. Matched(b, g, n)
  <2>1. {"symtgt"} \subseteq Member
    BY DEF Member
  <2>2. Matched(Str("symtgt", x.a), Str("symtgt", 0), 2 + x.a)
    BY <2>1, MatchedField DEF ArgsIn
  <2>. QED  BY <2>2
<1>2. "Rreadlink" \in Known /\ Gets("Rreadlink", d) = g
  BY L1Is DEF GetsL1
<1>3. 2 + x.a = n
  BY DEF ArgsIn
<1>4. "Rreadlink" \notin Settable
  BY DEF Settable
<1>. HIDE DEF b, g, n
<1>5. Good(Create("Rreadlink", 2 + x.a, b), d)
  BY <1>1, <1>2, <1>3, <1>4, GoodPlain
<1>. QED  BY <1>5 DEF np_create_rreadlink, b

\* Tgetattr.
LEMMA GoodTgetattr ==
    ASSUME NEW x, NEW d, ArgsIn(x, d)
    PROVE  Good(np_create_tgetattr(x), d)
<1>. DEFINE b == I32("fid") \o I64("mask")
            g == I32("fid") \o I64("mask")
            n == 4 + 8
<1>1. Matched(b, g, n)
  <2>1. {"fid", "mask"} \subseteq Member
    BY DEF Member
  <2>2. Matched(I32("fid"), I32("fid"), 4) /\ Matched(I64("mask"), I64("mask"), 8)
    BY <2>1, MatchedField
  <2>. QED  BY <2>2, MatchedCat
<1>2. "Tgetattr" \in Known /\ Gets("Tgetattr", d) = g
  BY L1Is DEF GetsL1
<1>3. 4 + 8 = n
  BY DEF ArgsIn
<1>4. "Tgetattr" \notin Settable
  BY DEF Settable
<1>. HIDE DEF b, g, n
<1>5. Good(Create("Tgetattr", 4 + 8, b), d)
  BY <1>1, <1>2, <1>3, <1>4, GoodPlain
<1>. QED  BY <1>5 DEF np_create_tgetattr, b

\* Rgetattr.
LEMMA GoodRgetattr ==
    ASSUME NEW x, NEW d, ArgsIn(x, d)
    PROVE  Good(np_create_rgetattr(x), d)
<1>. DEFINE b == I64("mask") \o Qid("qid") \o I32("mode") \o I32("uid") \o I32("gid")
               \o I64("nlink") \o I64("rdev") \o I64("size") \o I64("blksize") \o I64("blocks")
               \o AttrTimes \o I64("ctime_sec") \o I64("ctime_nsec") \o I64("btime_sec")
               \o I64("btime_nsec") \o I64("gen") \o I64("data_version")
            g == I64("mask") \o Qid("qid") \o I32("mode") \o I32("uid") \o I32("gid")
               \o I64("nlink") \o I64("rdev") \o I64("size") \o I64("blksize") \o I64("blocks")
               \o AttrTimes \o I64("ctime_sec") \o I64("ctime_nsec") \o I64("btime_sec")
               \o I64("btime_nsec") \o I64("gen") \o I64("data_version")
            n == 8 + 13 + 4 + 4 + 4 + 8 + 8 + 8 + 8 + 8 + 32 + 8 + 8 + 8 + 8 + 8 + 8
<1>1. Matched(b, g, n)
  <2>1. {"mask", "qid", "mode", "uid", "gid", "nlink", "rdev", "size", "blksize", "blocks",
        "ctime_sec", "ctime_nsec", "btime_sec", "btime_nsec", "gen", "data_version"}
        \subseteq Member
    BY DEF Member
  <2>2. /\ Matched(I64("mask"), I64("mask"), 8) /\ Matched(Qid("qid"), Qid("qid"), 13)
        /\ Matched(I32("mode"), I32("mode"), 4) /\ Matched(I32("uid"), I32("uid"), 4)
        /\ Matched(I32("gid"), I32("gid"), 4) /\ Matched(I64("nlink"), I64("nlink"), 8)
        /\ Matched(I64("rdev"), I64("rdev"), 8) /\ Matched(I64("size"), I64("size"), 8)
        /\ Matched(I64("blksize"), I64("blksize"), 8) /\ Matched(I64("blocks"), I64("blocks"), 8)
        /\ Matched(I64("ctime_sec"), I64("ctime_sec"), 8)
        /\ Matched(I64("ctime_nsec"), I64("ctime_nsec"), 8)
        /\ Matched(I64("btime_sec"), I64("btime_sec"), 8)
        /\ Matched(I64("btime_nsec"), I64("btime_nsec"), 8) /\ Matched(I64("gen"), I64("gen"), 8)
        /\ Matched(I64("data_version"), I64("data_version"), 8)
    BY <2>1, MatchedField
  <2>. DEFINE c == I64("mask") \o Qid("qid") \o I32("mode") \o I32("uid") \o I32("gid")
               \o I64("nlink")
              e == c \o I64("rdev") \o I64("size") \o I64("blksize") \o I64("blocks")
               \o AttrTimes
  <2>3. Matched(c, c, 8 + 13 + 4 + 4 + 4 + 8)
    BY <2>2, MatchedCat
  <2>. HIDE DEF c
  <2>4. Matched(e, e, 8 + 13 + 4 + 4 + 4 + 8 + 8 + 8 + 8 + 8 + 32)
    BY <2>2, <2>3, MatchedParts, MatchedCat, ZenonT(40)
  <2>. HIDE DEF e
  <2>. DEFINE k == e \o I64("ctime_sec") \o I64("ctime_nsec") \o I64("btime_sec")
  <2>5. Matched(k, k, 8 + 13 + 4 + 4 + 4 + 8 + 8 + 8 + 8 + 8 + 32 + 8 + 8 + 8)
    BY <2>2, <2>4, MatchedCat, ZenonT(40)
  <2>. HIDE DEF k
  <2>6. Matched(k \o I64("btime_nsec") \o I64("gen") \o I64("data_version"),
                k \o I64("btime_nsec") \o I64("gen") \o I64("data_version"), n)
    BY <2>2, <2>5, MatchedCat, ZenonT(40)
  <2>. QED  BY <2>6 DEF c, e, k
<1>2. "Rgetattr" \in Known /\ Gets("Rgetattr", d) = g
  BY L1Is DEF GetsL1
<1>3. 8 + 13 + 4 + 4 + 4 + 15 * 8 = n
  BY DEF ArgsIn
<1>4. "Rgetattr" \notin Settable
  BY DEF Settable
<1>. HIDE DEF b, g, n
<1>5. Good(Create("Rgetattr", 8 + 13 + 4 + 4 + 4 + 15 * 8, b), d)
  BY <1>1, <1>2, <1>3, <1>4, GoodPlain
<1>. QED  BY <1>5 DEF np_create_rgetattr, b

\* Txattrwalk.
LEMMA GoodTxattrwalk ==
    ASSUME NEW x, NEW d, ArgsIn(x, d)
    PROVE  Good(np_create_txattrwalk(x), d)
<1>. DEFINE b == I32("fid") \o I32("newfid") \o Str("name", x.a)
            g == I32("fid") \o I32("newfid") \o Str("name", 0)
            n == 4 + 4 + (2 + x.a)
<1>1. Matched(b, g, n)
  <2>1. {"fid", "newfid", "name"} \subseteq Member
    BY DEF Member
  <2>2. /\ Matched(I32("fid"), I32("fid"), 4) /\ Matched(I32("newfid"), I32("newfid"), 4)
        /\ Matched(Str("name", x.a), Str("name", 0), 2 + x.a)
    BY <2>1, MatchedField DEF ArgsIn
  <2>. QED  BY <2>2, MatchedCat
<1>2. "Txattrwalk" \in Known /\ Gets("Txattrwalk", d) = g
  BY L2Is DEF GetsL2
<1>3. 4 + 4 + 2 + x.a = n
  BY DEF ArgsIn
<1>4. "Txattrwalk" \notin Settable
  BY DEF Settable
<1>. HIDE DEF b, g, n
<1>5. Good(Create("Txattrwalk", 4 + 4 + 2 + x.a, b), d)
  BY <1>1, <1>2, <1>3, <1>4, GoodPlain
<1>. QED  BY <1>5 DEF np_create_txattrwalk, b

\* Rxattrwalk.
LEMMA GoodRxattrwalk ==
    ASSUME NEW x, NEW d, ArgsIn(x, d)
    PROVE  Good(np_create_rxattrwalk(x), d)
<1>. DEFINE b == I64("asize")
            g == I64("asize")
            n == 8
<1>1. Matched(b, g, n)
  <2>1. {"asize"} \subseteq Member
    BY DEF Member
  <2>2. Matched(I64("asize"), I64("asize"), 8)
    BY <2>1, MatchedField
  <2>. QED  BY <2>2
<1>2. "Rxattrwalk" \in Known /\ Gets("Rxattrwalk", d) = g
  BY L2Is DEF GetsL2
<1>3. 8 = n
  BY DEF ArgsIn
<1>4. "Rxattrwalk" \notin Settable
  BY DEF Settable
<1>. HIDE DEF b, g, n
<1>5. Good(Create("Rxattrwalk", 8, b), d)
  BY <1>1, <1>2, <1>3, <1>4, GoodPlain
<1>. QED  BY <1>5 DEF np_create_rxattrwalk, b

\* Txattrcreate.
LEMMA GoodTxattrcreate ==
    ASSUME NEW x, NEW d, ArgsIn(x, d)
    PROVE  Good(np_create_txattrcreate(x), d)
<1>. DEFINE b == I32("fid") \o Str("name", x.a) \o I64("asize") \o I32("flags")
            g == I32("fid") \o Str("name", 0) \o I64("asize") \o I32("flags")
            n == 4 + (2 + x.a) + 8 + 4
<1>1. Matched(b, g, n)
  <2>1. {"fid", "name", "asize", "flags"} \subseteq Member
    BY DEF Member
  <2>2. /\ Matched(I32("fid"), I32("fid"), 4)
        /\ Matched(Str("name", x.a), Str("name", 0), 2 + x.a)
        /\ Matched(I64("asize"), I64("asize"), 8) /\ Matched(I32("flags"), I32("flags"), 4)
    BY <2>1, MatchedField DEF ArgsIn
  <2>. QED  BY <2>2, MatchedCat
<1>2. "Txattrcreate" \in Known /\ Gets("Txattrcreate", d) = g
  BY L2Is DEF GetsL2
<1>3. 4 + 2 + x.a + 8 + 4 = n
  BY DEF ArgsIn
<1>4. "Txattrcreate" \notin Settable
  BY DEF Settable
<1>. HIDE DEF b, g, n
<1>5. Good(Create("Txattrcreate", 4 + 2 + x.a + 8 + 4, b), d)
  BY <1>1, <1>2, <1>3, <1>4, GoodPlain
<1>. QED  BY <1>5 DEF np_create_txattrcreate, b

\* Tlock.
LEMMA GoodTlock ==
    ASSUME NEW x, NEW d, ArgsIn(x, d)
    PROVE  Good(np_create_tlock(x), d)
<1>. DEFINE b == I32("fid") \o I8("locktype") \o I32("flags") \o LockRange
               \o Str("clientid", x.a)
            g == I32("fid") \o I8("locktype") \o I32("flags") \o LockRange
               \o Str("clientid", 0)
            n == 4 + 1 + 4 + 20 + (2 + x.a)
<1>1. Matched(b, g, n)
  <2>1. {"fid", "locktype", "flags", "clientid"} \subseteq Member
    BY DEF Member
  <2>2. /\ Matched(I32("fid"), I32("fid"), 4) /\ Matched(I8("locktype"), I8("locktype"), 1)
        /\ Matched(I32("flags"), I32("flags"), 4)
        /\ Matched(Str("clientid", x.a), Str("clientid", 0), 2 + x.a)
    BY <2>1, MatchedField DEF ArgsIn
  <2>. QED  BY <2>2, MatchedParts, MatchedCat
<1>2. "Tlock" \in Known /\ Gets("Tlock", d) = g
  BY L2Is DEF GetsL2
<1>3. 4 + 1 + 4 + 8 + 8 + 4 + 2 + x.a = n
  BY DEF ArgsIn
<1>4. "Tlock" \notin Settable
  BY DEF Settable
<1>. HIDE DEF b, g, n
<1>5. Good(Create("Tlock", 4 + 1 + 4 + 8 + 8 + 4 + 2 + x.a, b), d)
  BY <1>1, <1>2, <1>3, <1>4, GoodPlain
<1>. QED  BY <1>5 DEF np_create_tlock, b

\* Rlock.
LEMMA GoodRlock ==
    ASSUME NEW x, NEW d, ArgsIn(x, d)
    PROVE  Good(np_create_rlock(x), d)
<1>. DEFINE b == I8("lockstatus")
            g == I8("lockstatus")
            n == 1
<1>1. Matched(b, g, n)
  <2>1. {"lockstatus"} \subseteq Member
    BY DEF Member
  <2>2. Matched(I8("lockstatus"), I8("lockstatus"), 1)
    BY <2>1, MatchedField
  <2>. QED  BY <2>2
<1>2. "Rlock" \in Known /\ Gets("Rlock", d) = g
  BY L2Is DEF GetsL2
<1>3. 1 = n
  BY DEF ArgsIn
<1>4. "Rlock" \notin Settable
  BY DEF Settable
<1>. HIDE DEF b, g, n
<1>5. Good(Create("Rlock", 1, b), d)
  BY <1>1, <1>2, <1>3, <1>4, GoodPlain
<1>. QED  BY <1>5 DEF np_create_rlock, b

\* Tgetlock.
LEMMA GoodTgetlock ==
    ASSUME NEW x, NEW d, ArgsIn(x, d)
    PROVE  Good(np_create_tgetlock(x), d)
<1>. DEFINE b == I32("fid") \o I8("locktype") \o LockRange \o Str("clientid", x.a)
            g == I32("fid") \o I8("locktype") \o LockRange \o Str("clientid", 0)
            n == 4 + 1 + 20 + (2 + x.a)
<1>1. Matched(b, g, n)
  <2>1. {"fid", "locktype", "clientid"} \subseteq Member
    BY DEF Member
  <2>2. /\ Matched(I32("fid"), I32("fid"), 4) /\ Matched(I8("locktype"), I8("locktype"), 1)
        /\ Matched(Str("clientid", x.a), Str("clientid", 0), 2 + x.a)
    BY <2>1, MatchedField DEF ArgsIn
  <2>. QED  BY <2>2, MatchedParts, MatchedCat
<1>2. "Tgetlock" \in Known /\ Gets("Tgetlock", d) = g
  BY L2Is DEF GetsL2
<1>3. 4 + 1 + 8 + 8 + 4 + 2 + x.a = n
  BY DEF ArgsIn
<1>4. "Tgetlock" \notin Settable
  BY DEF Settable
<1>. HIDE DEF b, g, n
<1>5. Good(Create("Tgetlock", 4 + 1 + 8 + 8 + 4 + 2 + x.a, b), d)
  BY <1>1, <1>2, <1>3, <1>4, GoodPlain
<1>. QED  BY <1>5 DEF np_create_tgetlock, b

\* Tlink.
LEMMA GoodTlink ==
    ASSUME NEW x, NEW d, ArgsIn(x, d)
    PROVE  Good(np_create_tlink(x), d)
<1>. DEFINE b == I32("dfid") \o I32("fid") \o Str("name", x.a)
            g == I32("dfid") \o I32("fid") \o Str("name", 0)
            n == 4 + 4 + (2 + x.a)
<1>1. Matched(b, g, n)
  <2>1. {"dfid", "fid", "name"} \subseteq Member
    BY DEF Member
  <2>2. /\ Matched(I32("dfid"), I32("dfid"), 4) /\ Matched(I32("fid"), I32("fid"), 4)
        /\ Matched(Str("name", x.a), Str("name", 0), 2 + x.a)
    BY <2>1, MatchedField DEF ArgsIn
  <2>. QED  BY <2>2, MatchedCat
<1>2. "Tlink" \in Known /\ Gets("Tlink", d) = g
  BY L2Is DEF GetsL2
<1>3. 4 + 4 + 2 + x.a = n
  BY DEF ArgsIn
<1>4. "Tlink" \notin Settable
  BY DEF Settable
<1>. HIDE DEF b, g, n
<1>5. Good(Create("Tlink", 4 + 4 + 2 + x.a, b), d)
  BY <1>1, <1>2, <1>3, <1>4, GoodPlain
<1>. QED  BY <1>5 DEF np_create_tlink, b

\* Tmkdir.
LEMMA GoodTmkdir ==
    ASSUME NEW x, NEW d, ArgsIn(x, d)
    PROVE  Good(np_create_tmkdir(x), d)
<1>. DEFINE b == I32("fid") \o Str("name", x.a) \o I32("perm") \o I32("gid")
            g == I32("fid") \o Str("name", 0) \o I32("perm") \o I32("gid")
            n == 4 + (2 + x.a) + 4 + 4
<1>1. Matched(b, g, n)
  <2>1. {"fid", "name", "perm", "gid"} \subseteq Member
    BY DEF Member
  <2>2. /\ Matched(I32("fid"), I32("fid"), 4)
        /\ Matched(Str("name", x.a), Str("name", 0), 2 + x.a)
        /\ Matched(I32("perm"), I32("perm"), 4) /\ Matched(I32("gid"), I32("gid"), 4)
    BY <2>1, MatchedField DEF ArgsIn
  <2>. QED  BY <2>2, MatchedCat
<1>2. "Tmkdir" \in Known /\ Gets("Tmkdir", d) = g
  BY L2Is DEF GetsL2
<1>3. 4 + 2 + x.a + 4 + 4 = n
  BY DEF ArgsIn
<1>4. "Tmkdir" \notin Settable
  BY DEF Settable
<1>. HIDE DEF b, g, n
<1>5. Good(Create("Tmkdir", 4 + 2 + x.a + 4 + 4, b), d)
  BY <1>1, <1>2, <1>3, <1>4, GoodPlain
<1>. QED  BY <1>5 DEF np_create_tmkdir, b

\* Trenameat.
LEMMA GoodTrenameat ==
    ASSUME NEW x, NEW d, ArgsIn(x, d)
    PROVE  Good(np_create_trenameat(x), d)
<1>. DEFINE b == I32("fid") \o Str("oname", x.a) \o I32("newfid") \o Str("name", x.b)
            g == I32("fid") \o Str("oname", 0) \o I32("newfid") \o Str("name", 0)
            n == 4 + (2 + x.a) + 4 + (2 + x.b)
<1>1. Matched(b, g, n)
  <2>1. {"fid", "oname", "newfid", "name"} \subseteq Member
    BY DEF Member
  <2>2. /\ Matched(I32("fid"), I32("fid"), 4)
        /\ Matched(Str("oname", x.a), Str("oname", 0), 2 + x.a)
        /\ Matched(I32("newfid"), I32("newfid"), 4)
        /\ Matched(Str("name", x.b), Str("name", 0), 2 + x.b)
    BY <2>1, MatchedField DEF ArgsIn
  <2>. QED  BY <2>2, MatchedCat
<1>2. "Trenameat" \in Known /\ Gets("Trenameat", d) = g
  BY L2Is DEF GetsL2
<1>3. 4 + 2 + x.a + 4 + 2 + x.b = n
  BY DEF ArgsIn
<1>4. "Trenameat" \notin Settable
  BY DEF Settable
<1>. HIDE DEF b, g, n
<1>5. Good(Create("Trenameat", 4 + 2 + x.a + 4 + 2 + x.b, b), d)
  BY <1>1, <1>2, <1>3, <1>4, GoodPlain
<1>. QED  BY <1>5 DEF np_create_trenameat, b

\* Tunlinkat.
LEMMA GoodTunlinkat ==
    ASSUME NEW x, NEW d, ArgsIn(x, d)
    PROVE  Good(np_create_tunlinkat(x), d)
<1>. DEFINE b == I32("fid") \o Str("name", x.a) \o I32("flags")
            g == I32("fid") \o Str("name", 0) \o I32("flags")
            n == 4 + (2 + x.a) + 4
<1>1. Matched(b, g, n)
  <2>1. {"fid", "name", "flags"} \subseteq Member
    BY DEF Member
  <2>2. /\ Matched(I32("fid"), I32("fid"), 4)
        /\ Matched(Str("name", x.a), Str("name", 0), 2 + x.a)
        /\ Matched(I32("flags"), I32("flags"), 4)
    BY <2>1, MatchedField DEF ArgsIn
  <2>. QED  BY <2>2, MatchedCat
<1>2. "Tunlinkat" \in Known /\ Gets("Tunlinkat", d) = g
  BY L2Is DEF GetsL2
<1>3. 4 + 2 + x.a + 4 = n
  BY DEF ArgsIn
<1>4. "Tunlinkat" \notin Settable
  BY DEF Settable
<1>. HIDE DEF b, g, n
<1>5. Good(Create("Tunlinkat", 4 + 2 + x.a + 4, b), d)
  BY <1>1, <1>2, <1>3, <1>4, GoodPlain
<1>. QED  BY <1>5 DEF np_create_tunlinkat, b

----------------------------------------------------------------------------
(* The messages that are not like the others *)

\* The last field.
LEMMA LastOf ==
    ASSUME NEW s \in Seq(ItemT), NEW e \in ItemT
    PROVE  Len(s \o <<e>>) > 0 /\ (s \o <<e>>)[Len(s \o <<e>>)] = e
<1>1. PICK o : o = <<e>>
  OBVIOUS
<1>2. o \in Seq(ItemT) /\ Len(o) = 1 /\ o[1] = e /\ Len(s) \in Nat
  BY <1>1, OneOf
<1>3. s \in Seq(ItemT) /\ o \in Seq(ItemT)
  BY <1>2
<1>4. Len(s \o o) = Len(s) + Len(o)
  BY <1>3, ConcatProperties
<1>5. Len(s \o o) = Len(s) + 1 /\ Len(s) + 1 \in 1..Len(s \o o) /\ ~(Len(s) + 1 <= Len(s))
      /\ (Len(s) + 1) - Len(s) = 1
  BY <1>2, <1>4
<1>6. (s \o o)[Len(s) + 1] = o[(Len(s) + 1) - Len(s)]
  BY <1>3, <1>5, ConcatProperties
<1>. QED  BY <1>1, <1>2, <1>5, <1>6

\* Rread, Rreaddir.
LEMMA GoodRead ==
    ASSUME NEW x, NEW d, ArgsIn(x, d)
    PROVE  /\ Good(np_create_rread(x), d) /\ Good(np_alloc_rread(x), d)
           /\ Good(np_create_rreaddir(x), d) /\ Good(np_alloc_rreaddir(x), d)
<1>1. "Rread" \in Known /\ Gets("Rread", d) = ReadGot
  <2>1. "Rread" \in Old
    BY DEF Old
  <2>2. Gets9P([dotu |-> d])["Rread"] = ReadGot
    BY DEF Gets9P, ReadGot
  <2>. QED  BY <2>1, <2>2, OldIs DEF ArgsIn
<1>2. "Rreaddir" \in Known /\ Gets("Rreaddir", d) = ReadGot
  BY L2Is DEF GetsL2, ReadGot
<1>3. "Rread" \in Settable /\ "Rreaddir" \in Settable
  BY DEF Settable
<1>4. Good(Create("Rread", 4 + x.c, ReadPut(x.c)), d) /\ Good(Create("Rreaddir", 4 + x.c, ReadPut(x.c)), d)
  <2>1. x.c \in Nat
    BY DEF ArgsIn
  <2>. QED  BY <1>1, <1>2, <1>3, <2>1, GoodSet
<1>. QED  BY <1>4 DEF np_create_rread, np_alloc_rread, np_create_rreaddir, np_alloc_rreaddir, ReadPut

\* Twrite.
LEMMA GoodTwrite ==
    ASSUME NEW x, NEW d, ArgsIn(x, d)
    PROVE  Good(np_create_twrite(x), d)
<1>. DEFINE s == I32("fid") \o I64("offset") \o C32("count", x.c)
            g == I32("fid") \o I64("offset") \o I32("count")
<1>0. x.c \in Nat
  BY DEF ArgsIn
<1>1. Matched(I32("fid") \o I64("offset"), I32("fid") \o I64("offset"), 4 + 8) /\ Matched(s, g, 4 + 8 + 4)
  <2>1. {"fid", "offset", "count"} \subseteq Member
    BY DEF Member
  <2>2. /\ Matched(I32("fid"), I32("fid"), 4) /\ Matched(I64("offset"), I64("offset"), 8)
        /\ Matched(C32("count", x.c), I32("count"), 4)
    BY <1>0, <2>1, MatchedField
  <2>. QED  BY <2>2, MatchedCat
<1>2. Len(s) > 0 /\ s[Len(s)].k = "int" /\ s[Len(s)].v = x.c
  <2>1. PICK u, e : u = I32("fid") \o I64("offset") /\ e = Item("int", "count", 0, 4, x.c)
    OBVIOUS
  <2>2. u \in Seq(ItemT)
    BY <1>1, <2>1 DEF Matched
  <2>3. e \in ItemT /\ e.k = "int" /\ e.v = x.c
    <3>1. "count" \in Member
      BY DEF Member
    <3>. QED  BY <1>0, <2>1, <3>1 DEF Item, ItemT
  <2>4. s = u \o <<e>>
    BY <2>1 DEF C32
  <2>. HIDE DEF s
  <2>. QED  BY <2>2, <2>3, <2>4, LastOf
<1>. HIDE DEF s, g
<1>3. Matched(s \o Data("data", x.c), g \o Data("data", 0), (4 + 8 + 4) + x.c)
  <2>1. "data" \in Member
    BY DEF Member
  <2>. QED  BY <1>0, <1>1, <1>2, <2>1, MatchedData
<1>4. "Twrite" \in Known /\ Gets("Twrite", d) = g \o Data("data", 0)
  <2>1. "Twrite" \in Old
    BY DEF Old
  <2>2. Gets9P([dotu |-> d])["Twrite"] = g \o Data("data", 0)
    BY DEF Gets9P, g
  <2>. QED  BY <2>1, <2>2, OldIs DEF ArgsIn
<1>5. 4 + 8 + 4 + x.c = (4 + 8 + 4) + x.c /\ "Twrite" \notin Settable
  BY DEF Settable
<1>6. Good(Create("Twrite", 4 + 8 + 4 + x.c, s \o Data("data", x.c)), d)
  BY <1>3, <1>4, <1>5, GoodPlain
<1>. QED  BY <1>6 DEF np_create_twrite, s

\* Tcreate: 9P2000.u reads an extension that is not sent.
LEMMA GoodTcreate ==
    ASSUME NEW x, NEW d, ArgsIn(x, d)
    PROVE  Good(np_create_tcreate(x), d)
<1>0. PICK y : y = [dotu |-> d]
  OBVIOUS
<1>. DEFINE b == I32("fid") \o Str("name", x.a) \o I32("perm") \o I8("mode")
            g == I32("fid") \o Str("name", 0) \o I32("perm") \o I8("mode")
            n == 4 + (2 + x.a) + 4 + 1
            e == Item("str", "extension", 0, 2, 0)
<1>1. Matched(b, g, n)
  <2>1. {"fid", "name", "perm", "mode"} \subseteq Member
    BY DEF Member
  <2>2. /\ Matched(I32("fid"), I32("fid"), 4) /\ Matched(Str("name", x.a), Str("name", 0), 2 + x.a)
        /\ Matched(I32("perm"), I32("perm"), 4) /\ Matched(I8("mode"), I8("mode"), 1)
    BY <2>1, MatchedField DEF ArgsIn
  <2>. QED  BY <2>2, MatchedCat
<1>2. "Tcreate" \in Known /\ Gets("Tcreate", d) = g \o Dotu(y, Str("extension", 0))
  <2>1. "Tcreate" \in Old
    BY DEF Old
  <2>2. Gets9P([dotu |-> d])["Tcreate"] = g \o Dotu(y, Str("extension", 0))
    BY <1>0 DEF Gets9P
  <2>. QED  BY <2>1, <2>2, OldIs DEF ArgsIn
<1>3. 4 + 2 + x.a + 4 + 1 = n /\ "Tcreate" \notin Settable
  BY DEF ArgsIn, Settable
<1>4. e \in ItemT /\ e.k = "str"
  <2>1. "extension" \in Member
    BY DEF Member
  <2>. QED  BY <2>1 DEF Item, ItemT
<1>5. Str("extension", 0) = <<e>>
  BY DEF Str, StrN
<1>. HIDE DEF b, g, n, e
<1>6. Good(Create("Tcreate", 4 + 2 + x.a + 4 + 1, b), d)
  <2>1. CASE d = TRUE
    <3>1. Gets("Tcreate", d) = g \o <<e>>
      BY <1>0, <1>2, <1>5, <2>1 DEF Dotu
    <3>. QED  BY <1>1, <1>2, <1>3, <1>4, <3>1, GoodMore
  <2>2. CASE d = FALSE
    <3>1. g \in Seq(ItemT)
      BY <1>1 DEF Matched
    <3>2. Gets("Tcreate", d) = g
      BY <1>0, <1>2, <2>2, <3>1 DEF Dotu
    <3>. QED  BY <1>1, <1>2, <1>3, <3>2, GoodPlain
  <2>. QED  BY <2>1, <2>2 DEF ArgsIn
<1>. QED  BY <1>6 DEF np_create_tcreate, b

\* Tauth.
LEMMA GoodTauth ==
    ASSUME NEW x, NEW d, ArgsIn(x, d)
    PROVE  Good(np_create_tauth(x), d)
<1>0. PICK y : y = [dotu |-> d]
  OBVIOUS
<1>. DEFINE b == I32("afid") \o Str("uname", x.a) \o Str("aname", x.b)
            g == I32("afid") \o Str("uname", 0) \o Str("aname", 0)
            n == 4 + (2 + x.a) + (2 + x.b)
            e == Item("int", "n_uname", 0, 4, 0)
<1>1. Matched(b, g, n)
  <2>1. {"afid", "uname", "aname"} \subseteq Member
    BY DEF Member
  <2>2. /\ Matched(I32("afid"), I32("afid"), 4) /\ Matched(Str("uname", x.a), Str("uname", 0), 2 + x.a)
        /\ Matched(Str("aname", x.b), Str("aname", 0), 2 + x.b)
    BY <2>1, MatchedField DEF ArgsIn
  <2>. QED  BY <2>2, MatchedCat
<1>2. "Tauth" \in Known /\ Gets("Tauth", d) = g \o Dotu(y, I32("n_uname"))
  <2>1. "Tauth" \in Old
    BY DEF Old
  <2>2. Gets9P([dotu |-> d])["Tauth"] = g \o Dotu(y, I32("n_uname"))
    BY <1>0 DEF Gets9P
  <2>. QED  BY <2>1, <2>2, OldIs DEF ArgsIn
<1>3. 4 + 2 + 2 + x.a + x.b = n /\ "Tauth" \notin Settable
  BY DEF ArgsIn, Settable
<1>4. e \in ItemT /\ e.k = "int" /\ e.w > 0
  <2>1. "n_uname" \in Member
    BY DEF Member
  <2>. QED  BY <2>1 DEF Item, ItemT
<1>5. I32("n_uname") = <<e>>
  BY DEF I32
<1>6. b \in Seq(ItemT) /\ g \in Seq(ItemT)
  BY <1>1 DEF Matched
<1>7. np_create_tauth(x) = Create("Tauth", 4 + 2 + 2 + x.a + x.b, b \o Dotu(x, I32("n_uname")))
  BY DEF np_create_tauth
<1>. HIDE DEF b, g, n, e
<1>8. CASE d = TRUE
  <2>1. Gets("Tauth", d) = g \o <<e>>
    BY <1>0, <1>2, <1>5, <1>8 DEF Dotu
  <2>2. np_create_tauth(x) = Create("Tauth", 4 + 2 + 2 + x.a + x.b, b \o <<e>>)
    BY <1>5, <1>7, <1>8 DEF Dotu, ArgsIn
  <2>. QED  BY <1>1, <1>2, <1>3, <1>4, <1>8, <2>1, <2>2, GoodAuth
<1>9. CASE d = FALSE
  <2>1. Gets("Tauth", d) = g
    BY <1>0, <1>2, <1>6, <1>9 DEF Dotu
  <2>2. np_create_tauth(x) = Create("Tauth", 4 + 2 + 2 + x.a + x.b, b)
    BY <1>6, <1>7, <1>9 DEF Dotu, ArgsIn
  <2>. QED  BY <1>1, <1>2, <1>3, <2>1, <2>2, GoodPlain
<1>. QED  BY <1>8, <1>9 DEF ArgsIn

\* The Rerror of np_create_rerror1.
LEMMA GoodRerror1 ==
    ASSUME NEW x, NEW d, ArgsIn(x, d)
    PROVE  Good(np_create_rerror1(x), d)
<1>. DEFINE D == Item("data", "ename", 0, x.a, x.a)
            E == Item("int", "ecode", 0, 4, 0)
            n == x.a + DotuSize(x, 4)
            b == Data("ename", x.a) \o Dotu(x, I32("ecode"))
<1>1. D \in ItemT /\ E \in ItemT /\ D.w = x.a /\ E.w = 4 /\ D.k = "data" /\ D.f = <<"ename", 0>>
  <2>1. "ename" \in Member /\ "ecode" \in Member
    BY DEF Member
  <2>. QED  BY <2>1 DEF Item, ItemT, ArgsIn
<1>2. Data("ename", x.a) = <<D>> /\ I32("ecode") = <<E>>
  BY DEF Data, I32
<1>3. PICK o, p : o = <<D>> /\ p = Dotu(x, <<E>>)
  OBVIOUS
<1>4. o \in Seq(ItemT) /\ Len(o) = 1 /\ o[1] = D /\ <<E>> \in Seq(ItemT)
  BY <1>1, <1>3, OneOf
<1>5. p \in Seq(ItemT) /\ (d = TRUE => p = <<E>>) /\ (d = FALSE => p = <<>>)
  BY <1>3, <1>4 DEF Dotu, ArgsIn
<1>6. n \in Nat /\ (d = TRUE => n = x.a + 4) /\ (d = FALSE => n = x.a) /\ 2 + x.a + DotuSize(x, 4) = 2 + n
  BY DEF DotuSize, ArgsIn
<1>7. b = o \o p
  BY <1>2, <1>3
<1>8. b \in Seq(ItemT) /\ Len(b) > 0 /\ b[1] = D
  <2>1. o \in Seq(ItemT) /\ p \in Seq(ItemT)
    BY <1>4, <1>5
  <2>2. Len(o \o p) = Len(o) + Len(p) /\ Len(p) \in Nat
    BY <2>1, ConcatProperties
  <2>3. 1 \in 1..Len(o \o p) /\ 1 <= Len(o)
    BY <1>4, <2>2
  <2>4. (o \o p)[1] = o[1] /\ o \o p \in Seq(ItemT)
    BY <2>1, <2>3, ConcatProperties
  <2>. HIDE DEF b, D
  <2>. QED  BY <1>4, <1>7, <2>3, <2>4
<1>9. \E pl : Laid(IdTag \o b, pl) /\ pl[Len(IdTag \o b)] = 3 + n
  <2>1. PICK u : u = IdTag
    OBVIOUS
  <2>2. u \in Seq(ItemT)
    BY <2>1, MatchedIdTag DEF Matched
  <2>3. PICK pl : Laid(u, pl) /\ pl[Len(u)] = 3
    BY <2>1, MatchedIdTag DEF Matched
  <2>. HIDE DEF D, E, b, n
  <2>4. PICK s : s = u \o o
    OBVIOUS
  <2>5. PICK r : Laid(s, r) /\ r[Len(s)] = 3 + x.a
    <3>1. PICK r : Laid(u \o <<D>>, r) /\ r[Len(u \o <<D>>)] = pl[Len(u)] + D.w
      BY <1>1, <2>3, LaidAppend
    <3>2. u \o <<D>> = s
      BY <1>3, <2>4
    <3>3. pl[Len(u)] + D.w = 3 + x.a
      BY <1>1, <2>3
    <3>. QED  BY <3>1, <3>2, <3>3, Zenon
  <2>6. u \o (o \o p) = s \o p
    <3>1. u \in Seq(ItemT) /\ o \in Seq(ItemT) /\ p \in Seq(ItemT)
      BY <1>4, <1>5, <2>2
    <3>2. (u \o o) \o p = u \o (o \o p)
      BY <3>1, ConcatAssociative, SMTT(30)
    <3>. QED  BY <2>4, <3>2
  <2>7. CASE d = TRUE
    <3>1. \E k : Laid(s \o <<E>>, k) /\ k[Len(s \o <<E>>)] = (3 + x.a) + 4
      BY <1>1, <2>5, LaidAppend
    <3>2. (3 + x.a) + 4 = 3 + n
      BY <1>6, <2>7 DEF ArgsIn
    <3>3. IdTag \o b = s \o <<E>>
      BY <1>5, <1>7, <2>1, <2>6, <2>7
    <3>. QED  BY <3>1, <3>2, <3>3
  <2>8. CASE d = FALSE
    <3>1. s \o p = s
      <4>1. s \in Seq(ItemT) /\ p = <<>>
        BY <1>5, <2>5, <2>8 DEF Laid
      <4>. QED  BY <4>1
    <3>2. IdTag \o b = s /\ 3 + x.a = 3 + n
      BY <1>6, <1>7, <2>1, <2>6, <2>8, <3>1
    <3>. QED  BY <2>5, <3>2
  <2>. QED  BY <2>7, <2>8 DEF ArgsIn
<1>. HIDE DEF D, E, b, n
<1>10. PICK pl : LaidOut(b, n, 2 + n, pl)
  <2>1. 2 + n \in Nat /\ n <= 2 + n
    BY <1>6
  <2>. QED  BY <1>6, <1>8, <1>9, <2>1 DEF LaidOut
<1>11. b[1].k = "data" /\ b[1].f = <<"ename", 0>>
  BY <1>1, <1>8
<1>12. Good(Create("Rerror", 2 + n, b), d)
  BY <1>8, <1>10, <1>11, GoodError
<1>. QED  BY <1>6, <1>12 DEF np_create_rerror1, b

\* Tlerror, which np_deserialize does not know, and Rgetlock, which it reads with a fid.
LEMMA GoodUnread ==
    ASSUME NEW x, NEW d, ArgsIn(x, d)
    PROVE  Good(np_create_lerror(x), d) /\ Good(np_create_rgetlock(x), d)
<1>. DEFINE b == I8("locktype") \o LockRange \o Str("clientid", x.a)
            g == I8("locktype") \o LockRange \o Str("clientid", 0)
            n == 1 + 20 + (2 + x.a)
<1>1. Matched(b, g, n) /\ Matched(I32("ecode"), I32("ecode"), 4)
  <2>1. {"locktype", "clientid", "ecode"} \subseteq Member
    BY DEF Member
  <2>2. /\ Matched(I8("locktype"), I8("locktype"), 1) /\ Matched(Str("clientid", x.a), Str("clientid", 0), 2 + x.a)
        /\ Matched(I32("ecode"), I32("ecode"), 4)
    BY <2>1, MatchedField DEF ArgsIn
  <2>. QED  BY <2>2, MatchedParts, MatchedCat
<1>2. 1 + 8 + 8 + 4 + 2 + x.a = n
  BY DEF ArgsIn
<1>. HIDE DEF b, g, n
<1>3. Good(Create("Rgetlock", 1 + 8 + 8 + 4 + 2 + x.a, b), d) /\ Good(Create("Tlerror", 4, I32("ecode")), d)
  BY <1>1, <1>2, GoodOdd
<1>. QED  BY <1>3 DEF np_create_lerror, np_create_rgetlock, b

\* Rstatfs.
LEMMA GoodRstatfs ==
    ASSUME NEW x, NEW d
    PROVE  Good(np_create_rstatfs(x), d)
<1>. DEFINE c == I32("type") \o I32("bsize") \o I64("blocks") \o I64("bfree") \o I64("bavail")
            e == c \o I64("files") \o I64("ffree") \o I64("fsid") \o I32("namelen")
            n == 4 + 4 + 8 + 8 + 8 + 8 + 8 + 8 + 4
<1>1. Matched(e, e, n)
  <2>1. {"type", "bsize", "blocks", "bfree", "bavail", "files", "ffree", "fsid", "namelen"} \subseteq Member
    BY DEF Member
  <2>2. /\ Matched(I32("type"), I32("type"), 4) /\ Matched(I32("bsize"), I32("bsize"), 4)
        /\ Matched(I64("blocks"), I64("blocks"), 8) /\ Matched(I64("bfree"), I64("bfree"), 8)
        /\ Matched(I64("bavail"), I64("bavail"), 8)
        /\ Matched(I64("files"), I64("files"), 8) /\ Matched(I64("ffree"), I64("ffree"), 8)
        /\ Matched(I64("fsid"), I64("fsid"), 8) /\ Matched(I32("namelen"), I32("namelen"), 4)
    BY <2>1, MatchedField
  <2>3. Matched(c, c, 4 + 4 + 8 + 8 + 8)
    BY <2>2, MatchedCat
  <2>. HIDE DEF c
  <2>. QED  BY <2>2, <2>3, MatchedCat
<1>2. buf_put_statfs = e /\ buf_get_statfs = e
  BY DEF buf_put_statfs, buf_get_statfs
<1>3. "Rstatfs" \in Known /\ Gets("Rstatfs", d) = buf_get_statfs
  BY L1Is DEF GetsL1
<1>4. size_statfs \in Nat /\ n <= size_statfs
  BY DEF size_statfs
<1>. HIDE DEF e, n
<1>5. Good(Create("Rstatfs", size_statfs, e), d)
  BY <1>1, <1>2, <1>3, <1>4, GoodLong
<1>. QED  BY <1>2, <1>5 DEF np_create_rstatfs

\* Tsetattr, whose size does not count the last two times.
LEMMA GoodTsetattr ==
    ASSUME NEW x, NEW d
    PROVE  Good(np_create_tsetattr(x), d)
<1>. DEFINE c == I32("fid") \o I32("mask") \o I32("mode") \o I32("uid") \o I32("gid") \o I64("size")
            b == c \o I64("atime_sec") \o I64("atime_nsec")
            e == Item("int", "mtime_sec", 0, 8, 0)
            m == I64("mtime_nsec")
            n == 4 + 4 + 4 + 4 + 4 + 8 + 8 + 8
<1>0. {"fid", "mask", "mode", "uid", "gid", "size", "atime_sec", "atime_nsec", "mtime_sec", "mtime_nsec"}
        \subseteq Member
  BY DEF Member
<1>1. Matched(c, c, 4 + 4 + 4 + 4 + 4 + 8)
  <2>1. /\ Matched(I32("fid"), I32("fid"), 4) /\ Matched(I32("mask"), I32("mask"), 4)
        /\ Matched(I32("mode"), I32("mode"), 4) /\ Matched(I32("uid"), I32("uid"), 4)
        /\ Matched(I32("gid"), I32("gid"), 4) /\ Matched(I64("size"), I64("size"), 8)
    BY <1>0, MatchedField
  <2>. QED  BY <2>1, MatchedCat
<1>2. /\ Matched(I64("atime_sec"), I64("atime_sec"), 8) /\ Matched(I64("atime_nsec"), I64("atime_nsec"), 8)
      /\ Matched(m, m, 8)
  BY <1>0, MatchedField
<1>3. e \in ItemT /\ e.w = 8
  BY <1>0 DEF Item, ItemT
<1>4. I64("mtime_sec") = <<e>>
  BY DEF I64
<1>5. np_create_tsetattr(x) = Create("Tsetattr", 4 + 4 + 4 + 4 + 8 + 8 + 8 + 8, c \o AttrTimes)
  BY DEF np_create_tsetattr
<1>. HIDE DEF c, m, e
<1>6. Matched(b, b, n)
  BY <1>1, <1>2, MatchedCat
<1>7. c \o AttrTimes = (b \o <<e>>) \o m
  <2>1. PICK i, j, o : i = I64("atime_sec") /\ j = I64("atime_nsec") /\ o = <<e>>
    OBVIOUS
  <2>2. c \in Seq(ItemT) /\ i \in Seq(ItemT) /\ j \in Seq(ItemT) /\ o \in Seq(ItemT) /\ m \in Seq(ItemT)
    <3>1. o \in Seq(ItemT)
      BY <1>3, <2>1, OneOf
    <3>. QED  BY <1>1, <1>2, <2>1, <3>1 DEF Matched
  <2>3. AttrTimes = ((i \o j) \o o) \o m /\ b = (c \o i) \o j
    BY <1>4, <2>1 DEF AttrTimes, m
  <2>4. PICK p, q : p = i \o j /\ q = (i \o j) \o o
    OBVIOUS
  <2>5. p \in Seq(ItemT) /\ q \in Seq(ItemT)
    BY <2>2, <2>4
  <2>6. (c \o i) \o j = c \o (i \o j)
    <3>1. c \in Seq(ItemT) /\ i \in Seq(ItemT) /\ j \in Seq(ItemT)
      BY <2>2
    <3>. QED  BY <3>1, ConcatAssociative, SMTT(30)
  <2>7. (c \o p) \o o = c \o (p \o o)
    <3>1. c \in Seq(ItemT) /\ p \in Seq(ItemT) /\ o \in Seq(ItemT)
      BY <2>2, <2>5
    <3>. QED  BY <3>1, ConcatAssociative, SMTT(30)
  <2>8. (c \o q) \o m = c \o (q \o m)
    <3>1. c \in Seq(ItemT) /\ q \in Seq(ItemT) /\ m \in Seq(ItemT)
      BY <2>2, <2>5
    <3>. QED  BY <3>1, ConcatAssociative, SMTT(30)
  <2>. QED  BY <2>1, <2>3, <2>4, <2>6, <2>7, <2>8
<1>8. 4 + 4 + 4 + 4 + 8 + 8 + 8 + 8 \in Nat /\ n < 4 + 4 + 4 + 4 + 8 + 8 + 8 + 8
      /\ ~(n + e.w <= 4 + 4 + 4 + 4 + 8 + 8 + 8 + 8)
  BY <1>3
<1>9. m \in Seq(ItemT)
  BY <1>2 DEF Matched
<1>. HIDE DEF b, n
<1>10. np_post_check(Create("Tsetattr", 4 + 4 + 4 + 4 + 8 + 8 + 8 + 8, (b \o <<e>>) \o m)).t = "none"
  BY <1>3, <1>6, <1>8, <1>9, PutShort
<1>11. np_create_tsetattr(x).t = "Tsetattr"
  BY <1>5 DEF Create
<1>. QED  BY <1>5, <1>7, <1>10, <1>11, GoodShort

\* Twalk, Rwalk.
LEMMA GoodTwalk ==
    ASSUME NEW x, NEW d, ArgsIn(x, d)
    PROVE  Good(np_create_twalk(x), d)
<1>. DEFINE u == I32("fid") \o I32("newfid")
            b == u \o C16("nwname", x.n)
            h == u \o I16("nwname")
            c == Strs("wnames", x.n, x.a)
            k == Strs("wnames", x.n, 0)
            e == Item("strs", "wnames", 0, 0, 0)
            i == Item("int", "nwname", 0, 2, x.n)
            z == 4 + 4 + 2 + x.n * 2 + x.n * x.a
            n == 4 + 4 + 2
            m == x.n * (2 + x.a)
<1>0. x.n \in Nat /\ x.a \in Nat /\ MAXWELEM \in Nat
  BY NpMsgAssumption DEF ArgsIn
<1>1. CASE x.n > MAXWELEM
  BY <1>1, GoodNone DEF np_create_twalk
<1>2. CASE ~(x.n > MAXWELEM)
  <2>0. {"fid", "newfid", "nwname", "wnames"} \subseteq Member
    BY DEF Member
  <2>1. Matched(u, u, 4 + 4) /\ Matched(b, h, n)
    <3>1. /\ Matched(I32("fid"), I32("fid"), 4) /\ Matched(I32("newfid"), I32("newfid"), 4)
          /\ Matched(C16("nwname", x.n), I16("nwname"), 2)
      BY <1>0, <2>0, MatchedField
    <3>. QED  BY <3>1, MatchedCat
  <2>2. Matched(c, k, m) /\ NoData(c)
    BY <1>0, <2>0, MatchedEach
  <2>3. i \in ItemT /\ i.k = "int" /\ i.v = x.n /\ C16("nwname", x.n) = <<i>>
    BY <1>0, <2>0 DEF Item, ItemT, C16
  <2>4. e \in WalkT /\ WalkOf(e, x.n) = k /\ Walked("strs", "wnames") = <<e>>
    BY <2>0 DEF WalkT, WalkOf, Item, Walked
  <2>5. "Twalk" \in Known /\ Gets("Twalk", d) = h \o <<e>>
    <3>1. "Twalk" \in Old
      BY DEF Old
    <3>2. Gets9P([dotu |-> d])["Twalk"] = h \o <<e>>
      BY <2>4 DEF Gets9P
    <3>. QED  BY <3>1, <3>2, OldIs DEF ArgsIn
  <2>6. z = n + m /\ "Twalk" \notin Settable
    <3>1. \A p, q \in Nat : 4 + 4 + 2 + p * 2 + p * q = (4 + 4 + 2) + p * (2 + q)
      OBVIOUS
    <3>. QED  BY <1>0, <3>1 DEF Settable
  <2>7. np_create_twalk(x) = Create("Twalk", z, b \o c)
    BY <1>2, EachIs DEF np_create_twalk
  <2>8. b = u \o <<i>> /\ u \in Seq(ItemT)
    BY <2>1, <2>3 DEF Matched
  <2>. HIDE DEF b, h, c, k, e, i, z, n, m, u
  <2>9. CountedBy(b, x.n, e, k)
    <3>1. x.n <= MAXWELEM
      BY <1>0, <1>2
    <3>2. Len(b) > 0 /\ b[Len(b)] = i
      BY <2>3, <2>8, LastOf
    <3>. QED  BY <1>0, <2>3, <2>4, <3>1, <3>2 DEF CountedBy
  <2>10. WalkMessage("Twalk", b, h, n, c, k, m, z, x.n, e, d)
    BY <2>1, <2>2, <2>5, <2>6, <2>9 DEF WalkMessage
  <2>. QED  BY <2>7, <2>10, GoodWalk
<1>. QED  BY <1>1, <1>2

LEMMA GoodRwalk ==
    ASSUME NEW x, NEW d, ArgsIn(x, d)
    PROVE  Good(np_create_rwalk(x), d)
<1>. DEFINE b == C16("nwqid", x.n)
            h == I16("nwqid")
            c == Qids("wqids", x.n)
            e == Item("qids", "wqids", 0, 0, 0)
            i == Item("int", "nwqid", 0, 2, x.n)
            z == 2 + x.n * 13
            m == x.n * 13
<1>0. x.n \in Nat /\ MAXWELEM \in Nat
  BY NpMsgAssumption DEF ArgsIn
<1>1. CASE x.n > MAXWELEM
  BY <1>1, GoodNone DEF np_create_rwalk
<1>2. CASE ~(x.n > MAXWELEM)
  <2>0. {"nwqid", "wqids"} \subseteq Member
    BY DEF Member
  <2>1. Matched(b, h, 2)
    BY <1>0, <2>0, MatchedField
  <2>2. Matched(c, c, m) /\ NoData(c)
    BY <1>0, <2>0, MatchedEach
  <2>3. i \in ItemT /\ i.k = "int" /\ i.v = x.n /\ b = <<i>>
    BY <1>0, <2>0 DEF Item, ItemT, C16
  <2>4. e \in WalkT /\ WalkOf(e, x.n) = c /\ Walked("qids", "wqids") = <<e>>
    BY <2>0 DEF WalkT, WalkOf, Item, Walked
  <2>5. "Rwalk" \in Known /\ Gets("Rwalk", d) = h \o <<e>>
    <3>1. "Rwalk" \in Old
      BY DEF Old
    <3>2. Gets9P([dotu |-> d])["Rwalk"] = h \o <<e>>
      BY <2>4 DEF Gets9P
    <3>. QED  BY <3>1, <3>2, OldIs DEF ArgsIn
  <2>6. z = 2 + m /\ "Rwalk" \notin Settable
    BY DEF Settable
  <2>7. np_create_rwalk(x) = Create("Rwalk", z, b \o c)
    BY <1>2, EachIs DEF np_create_rwalk
  <2>. HIDE DEF b, h, c, e, i, z, m
  <2>8. CountedBy(b, x.n, e, c)
    <3>1. x.n <= MAXWELEM
      BY <1>0, <1>2
    <3>2. Len(b) > 0 /\ b[Len(b)] = i
      BY <2>3, OneOf
    <3>. QED  BY <1>0, <2>3, <2>4, <3>1, <3>2 DEF CountedBy
  <2>9. WalkMessage("Rwalk", b, h, 2, c, c, m, z, x.n, e, d)
    BY <2>1, <2>2, <2>5, <2>6, <2>8 DEF WalkMessage
  <2>. QED  BY <2>7, <2>9, GoodWalk
<1>. QED  BY <1>1, <1>2

\* The arguments of a stat.
StatArgs(x, d) == x.a \in Nat /\ x.b \in Nat /\ d \in BOOLEAN /\ x.dotu = d

\* The record of a file.
LEMMA MatchedWstat ==
    ASSUME NEW x, NEW d, StatArgs(x, d)
    PROVE  Matched(buf_put_wstat(x), buf_get_stat(d), 2 + size_wstat(x)) /\ size_wstat(x) \in Nat
<1>0. PICK y : y = [dotu |-> d]
  OBVIOUS
<1>. DEFINE c == C16("stat.size", size_wstat(x)) \o I16("stat.type") \o I32("stat.dev") \o Qid("stat.qid")
            p == I16("stat.size") \o I16("stat.type") \o I32("stat.dev") \o Qid("stat.qid")
            f == c \o I32("stat.mode") \o I32("stat.atime") \o I32("stat.mtime") \o I64("stat.length")
            q == p \o I32("stat.mode") \o I32("stat.atime") \o I32("stat.mtime") \o I64("stat.length")
            g == f \o Str("stat.name", x.a) \o Str("stat.uid", x.b) \o Str("stat.gid", x.b)
                   \o Str("stat.muid", x.b)
            r == q \o Str("stat.name", 0) \o Str("stat.uid", 0) \o Str("stat.gid", 0)
                   \o Str("stat.muid", 0)
            i == Str("stat.extension", x.b) \o I32("stat.n_uid") \o I32("stat.n_gid") \o I32("stat.n_muid")
            j == Str("stat.extension", 0) \o I32("stat.n_uid") \o I32("stat.n_gid") \o I32("stat.n_muid")
            n == 2 + 2 + 4 + 13 + 4 + 4 + 4 + 8 + (2 + x.a) + (2 + x.b) + (2 + x.b) + (2 + x.b)
            m == (2 + x.b) + 4 + 4 + 4
<1>1. x.a \in Nat /\ x.b \in Nat /\ size_wstat(x) \in Nat /\ 2 + size_wstat(x) = n + DotuSize(x, m)
  BY DEF StatArgs, size_wstat, DotuSize
<1>2. /\ buf_put_wstat(x) = g \o Dotu(x, i) /\ buf_get_stat(d) = r \o Dotu(y, j)
      /\ y.dotu = x.dotu /\ x.dotu \in BOOLEAN
  BY <1>0 DEF buf_put_wstat, buf_get_stat, StatArgs
<1>3. {"stat.size", "stat.type", "stat.dev", "stat.qid", "stat.mode", "stat.atime", "stat.mtime",
       "stat.length", "stat.name", "stat.uid", "stat.gid", "stat.muid", "stat.extension",
       "stat.n_uid", "stat.n_gid", "stat.n_muid"} \subseteq Member
  BY DEF Member
<1>4. Matched(c, p, 2 + 2 + 4 + 13)
  <2>1. PICK v : v = size_wstat(x)
    OBVIOUS
  <2>2. /\ Matched(C16("stat.size", v), I16("stat.size"), 2) /\ Matched(I16("stat.type"), I16("stat.type"), 2)
        /\ Matched(I32("stat.dev"), I32("stat.dev"), 4) /\ Matched(Qid("stat.qid"), Qid("stat.qid"), 13)
    BY <1>1, <1>3, <2>1, MatchedField
  <2>. QED  BY <2>1, <2>2, MatchedCat
<1>. HIDE DEF c, p
<1>5. Matched(f, q, 2 + 2 + 4 + 13 + 4 + 4 + 4 + 8)
  <2>1. /\ Matched(I32("stat.mode"), I32("stat.mode"), 4) /\ Matched(I32("stat.atime"), I32("stat.atime"), 4)
        /\ Matched(I32("stat.mtime"), I32("stat.mtime"), 4) /\ Matched(I64("stat.length"), I64("stat.length"), 8)
    BY <1>3, MatchedField
  <2>. QED  BY <1>4, <2>1, MatchedCat
<1>. HIDE DEF f, q
<1>6. Matched(g, r, n)
  <2>1. /\ Matched(Str("stat.name", x.a), Str("stat.name", 0), 2 + x.a)
        /\ Matched(Str("stat.uid", x.b), Str("stat.uid", 0), 2 + x.b)
        /\ Matched(Str("stat.gid", x.b), Str("stat.gid", 0), 2 + x.b)
        /\ Matched(Str("stat.muid", x.b), Str("stat.muid", 0), 2 + x.b)
    BY <1>1, <1>3, MatchedField
  <2>. QED  BY <1>5, <2>1, MatchedCat
<1>7. Matched(i, j, m)
  <2>1. /\ Matched(Str("stat.extension", x.b), Str("stat.extension", 0), 2 + x.b)
        /\ Matched(I32("stat.n_uid"), I32("stat.n_uid"), 4) /\ Matched(I32("stat.n_gid"), I32("stat.n_gid"), 4)
        /\ Matched(I32("stat.n_muid"), I32("stat.n_muid"), 4)
    BY <1>1, <1>3, MatchedField
  <2>. QED  BY <2>1, MatchedCat
<1>. HIDE DEF g, r, i, j, n, m
<1>8. Matched(Dotu(x, i), Dotu(y, j), DotuSize(x, m))
  BY <1>2, <1>7, MatchedDotu
<1>9. Matched(g \o Dotu(x, i), r \o Dotu(y, j), n + DotuSize(x, m))
  BY <1>6, <1>8, MatchedCat
<1>. QED  BY <1>1, <1>2, <1>9

\* Rstat, Twstat.
LEMMA GoodStat ==
    ASSUME NEW x, NEW d, ArgsIn(x, d)
    PROVE  Good(np_create_rstat(x), d) /\ Good(np_create_twstat(x), d)
<1>0. PICK y : y = [dotu |-> d]
  OBVIOUS
<1>. DEFINE w == size_wstat(x)
            b == C16("n", w + 2) \o buf_put_wstat(x)
            g == I16("n") \o buf_get_stat(d)
            c == I32("fid") \o C16("n", w + 2) \o buf_put_wstat(x)
            h == I32("fid") \o I16("n") \o buf_get_stat(d)
<1>1. Matched(buf_put_wstat(x), buf_get_stat(d), 2 + w) /\ w \in Nat
  <2>1. StatArgs(x, d)
    BY DEF ArgsIn, StatArgs
  <2>. QED  BY <2>1, MatchedWstat
<1>2. Matched(b, g, 2 + (2 + w)) /\ Matched(c, h, 4 + 2 + (2 + w))
  <2>1. {"n", "fid"} \subseteq Member
    BY DEF Member
  <2>2. PICK v : v = w + 2
    OBVIOUS
  <2>3. Matched(C16("n", v), I16("n"), 2) /\ Matched(I32("fid"), I32("fid"), 4)
    BY <1>1, <2>1, <2>2, MatchedField
  <2>. QED  BY <1>1, <2>2, <2>3, MatchedCat
<1>3. /\ "Rstat" \in Known /\ Gets("Rstat", d) = g
      /\ "Twstat" \in Known /\ Gets("Twstat", d) = h
  <2>1. "Rstat" \in Old /\ "Twstat" \in Old
    BY DEF Old
  <2>2. Gets9P([dotu |-> d])["Rstat"] = g /\ Gets9P([dotu |-> d])["Twstat"] = h
    BY DEF Gets9P
  <2>. QED  BY <2>1, <2>2, OldIs DEF ArgsIn
<1>4. 2 + 2 + w = 2 + (2 + w) /\ 4 + 2 + 2 + w = 4 + 2 + (2 + w)
  BY <1>1
<1>5. "Rstat" \notin Settable /\ "Twstat" \notin Settable
  BY DEF Settable
<1>. HIDE DEF w, b, g, c, h
<1>6. Good(Create("Rstat", 2 + 2 + w, b), d) /\ Good(Create("Twstat", 4 + 2 + 2 + w, c), d)
  BY <1>2, <1>3, <1>4, <1>5, GoodPlain
<1>. QED  BY <1>6 DEF np_create_rstat, np_create_twstat, w, b, c

\* All the messages.
LEMMA GoodMade ==
    ASSUME NEW x, NEW d, ArgsIn(x, d), NEW m \in Made2000(x) \cup MadeL(x)
    PROVE  Good(m, d)
<1>1. ASSUME m \in Made2000(x) PROVE Good(m, d)
  BY <1>1, GoodTversion, GoodTauth, GoodQid, GoodRerror, GoodRerror1, GoodTflush, GoodBare,
     GoodTattach, GoodTwalk, GoodRwalk, GoodTopen, GoodRopen, GoodTcreate, GoodTread, GoodRead,
     GoodTwrite, GoodRwrite, GoodFid, GoodStat DEF Made2000
<1>2. ASSUME m \in MadeL(x) PROVE Good(m, d)
  BY <1>2, GoodUnread, GoodRlerror, GoodFid, GoodRstatfs, GoodTlopen, GoodRopen, GoodTlcreate,
     GoodTsymlink, GoodQid, GoodTmknod, GoodTrename, GoodBare, GoodRreadlink, GoodTgetattr,
     GoodRgetattr, GoodTsetattr, GoodTxattrwalk, GoodRxattrwalk, GoodTxattrcreate, GoodTread,
     GoodRead, GoodTlock, GoodRlock, GoodTgetlock, GoodTlink, GoodTmkdir, GoodTrenameat,
     GoodTunlinkat DEF MadeL
<1>. QED  BY <1>1, <1>2

----------------------------------------------------------------------------
(* The stream *)

\* The function that Start defines.
StartFold(s, m, c) == c = [k \in 0..m |-> IF k = 0 THEN 0 ELSE c[k - 1] + s[k].size]

\* There is such a function.
LEMMA StartExists ==
    ASSUME NEW s, NEW m \in Nat
    PROVE  \E c : StartFold(s, m, c)
<1>. DEFINE F(c, n) == [k \in 0..n |-> IF k = 0 THEN 0 ELSE c[k - 1] + s[k].size]
            T == {n \in 0..m : ~\E c : c = F(c, n)}
<1>1. SUFFICES ASSUME T # {} PROVE FALSE
  <2>. HIDE DEF F
  <2>1. m \in 0..m
    OBVIOUS
  <2>2. \E c : c = F(c, m)
    BY <2>1
  <2>. QED  BY <2>2 DEF F, StartFold
<1>0. T \subseteq Nat
  OBVIOUS
<1>. HIDE DEF T
<1>2. PICK n \in T : \A j \in T : n <= j
  BY <1>0, <1>1, LeastNat
<1>. USE DEF T
<1>. HIDE DEF F
<1>3. CASE n = 0
  <2>. DEFINE c == [k \in 0..0 |-> 0]
  <2>1. F(c, 0) = c
    <3>1. \A k \in 0..0 : k = 0
      OBVIOUS
    <3>. QED  BY <3>1 DEF F
  <2>. QED  BY <1>2, <1>3, <2>1
<1>4. CASE n # 0
  <2>1. n - 1 \in 0..m /\ n - 1 \notin T /\ n \in 1..m /\ n \in Nat
    BY <1>2, <1>4
  <2>2. PICK d : d = F(d, n - 1)
    BY <2>1
  <2>. DEFINE c == [k \in 0..n |-> IF k = n THEN d[n - 1] + s[n].size ELSE d[k]]
  <2>3. ASSUME NEW k \in 0..n PROVE c[k] = IF k = 0 THEN 0 ELSE c[k - 1] + s[k].size
    <3>1. CASE k = n
      <4>1. n - 1 \in 0..n /\ n - 1 # n /\ k # 0
        BY <1>4, <2>1, <3>1
      <4>2. c[n - 1] = d[n - 1]
        BY <4>1
      <4>. QED  BY <3>1, <4>1, <4>2
    <3>2. CASE k # n
      <4>1. k \in 0..(n - 1) /\ (k # 0 => k - 1 \in 0..n /\ k - 1 # n)
        BY <2>1, <3>2
      <4>2. d[k] = IF k = 0 THEN 0 ELSE d[k - 1] + s[k].size
        <5>. DEFINE G(e) == [j \in 0..(n - 1) |-> IF j = 0 THEN 0 ELSE e[j - 1] + s[j].size]
        <5>1. d = G(d)
          BY <2>2 DEF F
        <5>2. G(d)[k] = IF k = 0 THEN 0 ELSE d[k - 1] + s[k].size
          BY <4>1
        <5>. HIDE DEF G
        <5>. QED  BY <5>1, <5>2
      <4>3. c[k] = d[k] /\ (k # 0 => c[k - 1] = d[k - 1])
        BY <3>2, <4>1
      <4>. QED  BY <4>2, <4>3
    <3>. QED  BY <3>1, <3>2
  <2>4. c = [k \in 0..n |-> c[k]]
    OBVIOUS
  <2>. HIDE DEF c
  <2>5. c = F(c, n)
    BY <2>3, <2>4 DEF F
  <2>. QED  BY <1>2, <2>5
<1>. QED  BY <1>3, <1>4

\* The place of packet i in a stream s.
StartOf(s, i) ==
    LET at[k \in 0..Len(s)] == IF k = 0 THEN 0 ELSE at[k - 1] + s[k].size IN at[i - 1]

\* c is what StartOf goes through.
StartRun(s, c) == c[0] = 0 /\ \A k \in 1..Len(s) : c[k] = c[k - 1] + s[k].size

LEMMA StartRuns ==
    ASSUME NEW s, Len(s) \in Nat
    PROVE  \E c : StartRun(s, c) /\ \A i : StartOf(s, i) = c[i - 1]
<1>. DEFINE n == Len(s)
            F(c) == [k \in 0..n |-> IF k = 0 THEN 0 ELSE c[k - 1] + s[k].size]
            d == CHOOSE c : c = F(c)
<1>1. \E c : c = F(c)
  <2>1. PICK c : StartFold(s, n, c)
    BY StartExists
  <2>2. c = F(c)
    BY <2>1 DEF StartFold
  <2>. HIDE DEF F
  <2>. QED  BY <2>2
<1>2. \A i : StartOf(s, i) = d[i - 1]
  BY DEF StartOf
<1>3. d = F(d)
  <2>. HIDE DEF F
  <2>. QED  BY <1>1
<1>4. 0 \in 0..n /\ \A k \in 1..n : k \in 0..n /\ k # 0
  OBVIOUS
<1>. HIDE DEF d
<1>5. ASSUME NEW k \in 0..n PROVE d[k] = IF k = 0 THEN 0 ELSE d[k - 1] + s[k].size
  <2>1. F(d)[k] = IF k = 0 THEN 0 ELSE d[k - 1] + s[k].size
    OBVIOUS
  <2>. HIDE DEF F
  <2>. QED  BY <1>3, <2>1
<1>. HIDE DEF F
<1>6. d[0] = 0
  BY <1>4, <1>5
<1>7. ASSUME NEW k \in 1..n PROVE d[k] = d[k - 1] + s[k].size
  BY <1>4, <1>5
<1>8. StartRun(s, d)
  BY <1>6, <1>7 DEF StartRun
<1>. QED  BY <1>2, <1>8

\* Packets, each with a header at least.
Packets(s) ==
    /\ \E S : s \in Seq(S)
    /\ Len(s) \in Nat /\ DOMAIN s = 1..Len(s)
    /\ \A i \in 1..Len(s) : s[i].size \in Nat /\ s[i].size >= 7

\* Packets stand one after the other.
LEMMA StartFacts ==
    ASSUME NEW s, Packets(s)
    PROVE  /\ StartOf(s, 1) = 0
           /\ \A i \in 1..(Len(s) + 1) : StartOf(s, i) \in Nat
           /\ \A i \in 1..Len(s) : StartOf(s, i + 1) = StartOf(s, i) + s[i].size
<1>1. Len(s) \in Nat /\ \A i \in 1..Len(s) : s[i].size \in Nat
  BY DEF Packets
<1>2. PICK c : StartRun(s, c) /\ \A i : StartOf(s, i) = c[i - 1]
  BY <1>1, StartRuns
<1>3. c[0] = 0 /\ \A k \in 1..Len(s) : c[k] = c[k - 1] + s[k].size
  BY <1>2 DEF StartRun
<1>4. StartOf(s, 1) = 0
  BY <1>2, <1>3
<1>5. ASSUME NEW i \in 1..Len(s) PROVE StartOf(s, i + 1) = StartOf(s, i) + s[i].size
  <2>1. (i + 1) - 1 = i
    OBVIOUS
  <2>. QED  BY <1>2, <1>3, <2>1
<1>. DEFINE T == {i \in 1..(Len(s) + 1) : StartOf(s, i) \notin Nat}
<1>6. ASSUME T # {} PROVE FALSE
  <2>0. T \subseteq Nat
    BY <1>1
  <2>. HIDE DEF T
  <2>1. PICK i \in T : \A j \in T : i <= j
    BY <1>6, <2>0, LeastNat
  <2>. USE DEF T
  <2>2. i # 1
    BY <1>4, <2>1
  <2>3. i - 1 \in 1..Len(s) /\ i - 1 \in 1..(Len(s) + 1) /\ ~(i <= i - 1) /\ (i - 1) + 1 = i
    BY <1>1, <2>1, <2>2
  <2>4. StartOf(s, i - 1) \in Nat
    BY <2>1, <2>3
  <2>5. StartOf(s, (i - 1) + 1) = StartOf(s, i - 1) + s[i - 1].size
    BY <1>5, <2>3
  <2>. QED  BY <1>1, <2>1, <2>3, <2>4, <2>5
<1>. QED  BY <1>4, <1>5, <1>6

\* No packet stands where another does.
LEMMA StartGrows ==
    ASSUME NEW s, Packets(s), NEW i \in 1..(Len(s) + 1), NEW j \in 1..(Len(s) + 1), i < j
    PROVE  /\ StartOf(s, i) \in Nat /\ StartOf(s, j) \in Nat
           /\ StartOf(s, i) < StartOf(s, j)
<1>1. Len(s) \in Nat /\ \A k \in 1..Len(s) : s[k].size \in Nat /\ s[k].size >= 7
  BY DEF Packets
<1>2. /\ \A k \in 1..(Len(s) + 1) : StartOf(s, k) \in Nat
      /\ \A k \in 1..Len(s) : StartOf(s, k + 1) = StartOf(s, k) + s[k].size
  BY StartFacts
<1>. DEFINE T == {k \in (i + 1)..(Len(s) + 1) : ~(StartOf(s, i) < StartOf(s, k))}
<1>3. ASSUME T # {} PROVE FALSE
  <2>0. T \subseteq Nat
    BY <1>1
  <2>. HIDE DEF T
  <2>1. PICK k \in T : \A m \in T : k <= m
    BY <1>3, <2>0, LeastNat
  <2>. USE DEF T
  <2>2. k - 1 \in 1..Len(s) /\ (k - 1) + 1 = k /\ ~(k <= k - 1) /\ k - 1 \in 1..(Len(s) + 1)
        /\ k \in 1..(Len(s) + 1)
    BY <1>1, <2>1
  <2>3. StartOf(s, (k - 1) + 1) = StartOf(s, k - 1) + s[k - 1].size
    BY <1>2, <2>2
  <2>4. k - 1 = i \/ StartOf(s, i) < StartOf(s, k - 1)
    BY <1>1, <2>1, <2>2
  <2>5. PICK a, b, e, z : a = StartOf(s, i) /\ b = StartOf(s, k - 1) /\ e = StartOf(s, k) /\ z = s[k - 1].size
    OBVIOUS
  <2>6. a \in Nat /\ b \in Nat /\ e = b + z /\ z \in Nat /\ z >= 7 /\ (b = a \/ a < b)
    BY <1>1, <1>2, <2>2, <2>3, <2>4, <2>5
  <2>7. a < e
    BY <2>6
  <2>. QED  BY <2>1, <2>5, <2>7
<1>4. j \in (i + 1)..(Len(s) + 1)
  BY <1>1
<1>. QED  BY <1>2, <1>3, <1>4

\* Stream u is s and packet q behind it.
Extends(s, q, u) == Packets(s) /\ q.size \in Nat /\ q.size >= 7 /\ u = Append(s, q)

\* One packet more.
LEMMA StartAppend ==
    ASSUME NEW s, NEW q, NEW u, Extends(s, q, u)
    PROVE  /\ Packets(u) /\ Len(u) = Len(s) + 1 /\ u[Len(s) + 1] = q
           /\ \A i \in 1..Len(s) : u[i] = s[i]
           /\ \A i \in 1..(Len(s) + 1) : StartOf(u, i) = StartOf(s, i)
           /\ StartOf(u, Len(u) + 1) = StartOf(s, Len(s) + 1) + q.size
<1>. Packets(s) /\ q.size \in Nat /\ q.size >= 7 /\ u = Append(s, q)
  BY DEF Extends
<1>1. PICK S : s \in Seq(S)
  BY DEF Packets
<1>. DEFINE R == S \cup {q}
<1>2. s \in Seq(R) /\ q \in R
  BY <1>1
<1>. HIDE DEF R
<1>3. /\ u \in Seq(R) /\ Len(s) \in Nat /\ Len(u) = Len(s) + 1 /\ DOMAIN u = 1..(Len(s) + 1)
      /\ u[Len(s) + 1] = q /\ \A i \in 1..Len(s) : u[i] = s[i]
  BY <1>2, AppendOf
<1>4. Packets(u)
  <2>1. \A i \in 1..(Len(s) + 1) : i \in 1..Len(s) \/ i = Len(s) + 1
    BY <1>3
  <2>2. \A i \in 1..Len(s) : s[i].size \in Nat /\ s[i].size >= 7
    BY DEF Packets
  <2>3. \A i \in 1..(Len(s) + 1) : u[i].size \in Nat /\ u[i].size >= 7
    BY <1>3, <2>1, <2>2
  <2>. QED  BY <1>3, <2>3 DEF Packets
<1>5. /\ StartOf(s, 1) = 0 /\ StartOf(u, 1) = 0
      /\ \A i \in 1..Len(s) : StartOf(s, i + 1) = StartOf(s, i) + s[i].size
      /\ \A i \in 1..(Len(s) + 1) : StartOf(u, i + 1) = StartOf(u, i) + u[i].size
  BY <1>3, <1>4, StartFacts
<1>. DEFINE T == {i \in 1..(Len(s) + 1) : StartOf(u, i) # StartOf(s, i)}
<1>6. ASSUME T # {} PROVE FALSE
  <2>0. T \subseteq Nat
    BY <1>3
  <2>. HIDE DEF T
  <2>1. PICK i \in T : \A j \in T : i <= j
    BY <1>6, <2>0, LeastNat
  <2>. USE DEF T
  <2>2. i # 1
    BY <1>5, <2>1
  <2>3. i - 1 \in 1..Len(s) /\ i - 1 \in 1..(Len(s) + 1) /\ ~(i <= i - 1) /\ (i - 1) + 1 = i
    BY <1>3, <2>1, <2>2
  <2>4. StartOf(u, i - 1) = StartOf(s, i - 1)
    BY <2>1, <2>3
  <2>5. StartOf(s, (i - 1) + 1) = StartOf(s, i - 1) + s[i - 1].size
        /\ StartOf(u, (i - 1) + 1) = StartOf(u, i - 1) + u[i - 1].size
    BY <1>5, <2>3
  <2>. QED  BY <1>3, <2>1, <2>3, <2>4, <2>5
<1>7. StartOf(u, Len(u) + 1) = StartOf(s, Len(s) + 1) + q.size
  <2>1. Len(s) + 1 \in 1..(Len(s) + 1)
    BY <1>3
  <2>2. StartOf(u, (Len(s) + 1) + 1) = StartOf(u, Len(s) + 1) + u[Len(s) + 1].size
    BY <1>5, <2>1
  <2>3. StartOf(u, Len(s) + 1) = StartOf(s, Len(s) + 1)
    BY <1>6, <2>1
  <2>. QED  BY <1>3, <2>2, <2>3
<1>. QED  BY <1>3, <1>4, <1>6, <1>7

----------------------------------------------------------------------------
(* The inductive invariant *)

\* Packets are sent, as many as may be.
SentInv ==
    /\ dotu \in BOOLEAN /\ msize \in MSizes
    /\ Packets(sent) /\ Len(sent) <= MaxSent
    /\ \A i \in 1..Len(sent) : Sound(sent[i], dotu)

\* What the receiver has read, and how far it is in the stream.
SeenInv ==
    /\ \E S : seen \in Seq(S)
    /\ Len(seen) \in Nat /\ DOMAIN seen = 1..Len(seen) /\ Len(seen) <= Len(sent)
    /\ \A i \in 1..Len(seen) :
         seen[i].ok /\ \E junk \in Nat : seen[i] = np_deserialize(sent[i], dotu, junk)
PlaceInv ==
    /\ off \in Nat /\ base \in Nat
    /\ base = StartOf(sent, Len(seen) + 1) /\ off <= StartOf(sent, Len(sent) + 1)
    /\ base <= off /\ off - base <= msize

\* Where the reading loop is.
LoopInv ==
    /\ pc \in {"read", "again", "refused", "end", "dir"}
    /\ pc = "read" /\ Len(seen) < Len(sent) => off - base < sent[Len(seen) + 1].size
    /\ pc = "refused" =>
         /\ Len(seen) < Len(sent)
         /\ \/ sent[Len(seen) + 1].cut > 0
            \/ sent[Len(seen) + 1].t = "Tlerror" \/ NotAlike(sent[Len(seen) + 1], dotu)

\* The read of a directory; what the record packed last is, is DirWhole.
DirInv ==
    /\ dir = [k |-> dir.k, count |-> dir.count, n |-> dir.n, rec |-> dir.rec]
    /\ dir.count \in Nat /\ dir.n \in Nat /\ dir.n <= dir.count

Inv == SentInv /\ SeenInv /\ PlaceInv /\ LoopInv /\ AllMade /\ DirInv /\ DirWhole

LEMMA StartIs == \A i : Start(i) = StartOf(sent, i)
BY DEF Start, StartOf

LEMMA Constants ==
    /\ MSizes \subseteq Nat /\ Lengths \subseteq Nat /\ Elements \subseteq Nat
    /\ Counts \subseteq Nat /\ Cuts \subseteq Nat /\ Junk \subseteq Nat /\ MaxSent \in Nat
BY NpWireAssumption

LEMMA InitInv == Init => Inv
<1>. SUFFICES ASSUME Init PROVE Inv
  OBVIOUS
<1>1. Len(sent) = 0 /\ Len(seen) = 0 /\ sent = <<>> /\ seen = <<>> /\ off = 0 /\ base = 0
      /\ DOMAIN sent = {} /\ DOMAIN seen = {} /\ <<>> \in Seq({})
  BY DEF Init
<1>2. Packets(sent)
  BY <1>1 DEF Packets
<1>3. SentInv
  BY <1>1, <1>2, Constants DEF Init, SentInv
<1>4. SeenInv
  BY <1>1 DEF SeenInv
<1>5. PlaceInv
  <2>1. StartOf(sent, 1) = 0
    BY <1>2, StartFacts
  <2>. QED  BY <1>1, <2>1, Constants DEF Init, PlaceInv
<1>6. LoopInv /\ AllMade
  BY <1>1 DEF Init, LoopInv, AllMade
<1>7. DirInv /\ DirWhole
  BY <1>1, Constants DEF Init, DirInv, DirWhole
<1>. QED  BY <1>3, <1>4, <1>5, <1>6, <1>7 DEF Inv

\* A message is sent.
LEMMA SendInv ==
    ASSUME Inv, NEW m, Good(m, dotu), NEW count \in Nat, NEW cut \in Nat, Send(m, count, cut)
    PROVE  Inv'
<1>. DEFINE q == Packet(m, count, cut)
<1>1. GoodPacket(m, q, dotu)
  BY DEF Good
<1>2. UNCHANGED <<dotu, msize, off, base, seen, pc, dir>> /\ Len(sent) < MaxSent
  BY DEF Send
<1>3. DirInv' /\ DirWhole'
  BY <1>2 DEF Inv, DirInv, DirWhole
<1>4. CASE q.t = "none"
  <2>1. sent' = sent /\ unmade' = unmade \cup {m.t}
    BY <1>4 DEF Send
  <2>2. AllMade'
    BY <1>1, <1>4, <2>1 DEF Inv, AllMade, GoodPacket
  <2>3. SentInv' /\ SeenInv' /\ PlaceInv' /\ LoopInv'
    BY <1>2, <2>1 DEF Inv, SentInv, SeenInv, PlaceInv, LoopInv
  <2>. QED  BY <1>3, <2>2, <2>3 DEF Inv
<1>5. CASE q.t # "none"
  <2>1. q.size >= 7 /\ sent' = Append(sent, q) /\ unmade' = unmade
    BY <1>5 DEF Send
  <2>2. Sound(q, dotu)
    BY <1>1, <1>5, <2>1 DEF GoodPacket
  <2>. HIDE DEF q
  <2>3. q.size \in Nat /\ q.size >= 7
    BY <2>2 DEF Sound
  <2>4. PICK s, u : s = sent /\ u = sent'
    OBVIOUS
  <2>5. Packets(s) /\ u = Append(s, q)
    BY <2>1, <2>4 DEF Inv, SentInv
  <2>6. /\ Packets(u) /\ Len(u) = Len(s) + 1 /\ u[Len(s) + 1] = q
        /\ \A i \in 1..Len(s) : u[i] = s[i]
        /\ \A i \in 1..(Len(s) + 1) : StartOf(u, i) = StartOf(s, i)
        /\ StartOf(u, Len(u) + 1) = StartOf(s, Len(s) + 1) + q.size
    <3>1. Extends(s, q, u)
      BY <2>3, <2>5 DEF Extends
    <3>. QED  BY <3>1, StartAppend
  <2>7. Len(s) \in Nat /\ Len(seen) \in Nat /\ Len(seen) <= Len(s)
    BY <2>4, <2>5 DEF Packets, Inv, SeenInv
  <2>8. SentInv'
    <3>1. \A i \in 1..Len(u) : i \in 1..Len(s) \/ i = Len(s) + 1
      BY <2>6, <2>7
    <3>2. \A i \in 1..Len(u) : Sound(u[i], dotu)
      BY <2>2, <2>4, <2>6, <3>1 DEF Inv, SentInv
    <3>3. Len(u) <= MaxSent
      BY <1>2, <2>4, <2>6, <2>7, Constants
    <3>. QED  BY <1>2, <2>4, <2>6, <3>2, <3>3 DEF Inv, SentInv
  <2>9. SeenInv'
    <3>1. \A i \in 1..Len(seen) : u[i] = s[i]
      BY <2>6, <2>7
    <3>2. Len(seen) <= Len(u)
      BY <2>6, <2>7
    <3>3. \A i \in 1..Len(seen) :
             seen[i].ok /\ \E junk \in Nat : seen[i] = np_deserialize(u[i], dotu, junk)
      BY <2>4, <3>1 DEF Inv, SeenInv
    <3>. QED  BY <1>2, <2>4, <3>2, <3>3 DEF Inv, SeenInv
  <2>10. PlaceInv'
    <3>1. Len(seen) + 1 \in 1..(Len(s) + 1) /\ Len(s) + 1 \in 1..(Len(s) + 1)
      BY <2>7
    <3>2. StartOf(u, Len(seen) + 1) = StartOf(s, Len(seen) + 1)
      BY <2>6, <3>1
    <3>3. StartOf(s, Len(s) + 1) \in Nat
      BY <2>5, <3>1, StartFacts
    <3>4. off <= StartOf(u, Len(u) + 1)
      <4>1. off \in Nat /\ off <= StartOf(s, Len(s) + 1)
        BY <2>4 DEF Inv, PlaceInv
      <4>2. PICK z : z = StartOf(s, Len(s) + 1)
        OBVIOUS
      <4>3. off <= z + q.size
        BY <2>3, <3>3, <4>1, <4>2
      <4>. QED  BY <2>6, <4>2, <4>3
    <3>. QED  BY <1>2, <2>4, <3>2, <3>4 DEF Inv, PlaceInv
  <2>11. LoopInv'
    <3>1. CASE Len(seen) < Len(s)
      <4>1. Len(seen) + 1 \in 1..Len(s)
        BY <2>7, <3>1
      <4>2. u[Len(seen) + 1] = s[Len(seen) + 1]
        BY <2>6, <4>1
      <4>3. sent'[Len(seen') + 1] = sent[Len(seen) + 1] /\ Len(seen') < Len(sent')
        BY <1>2, <2>4, <2>6, <2>7, <3>1, <4>2
      <4>4. Len(seen) < Len(sent)
        BY <2>4, <3>1
      <4>5. PICK q1 : q1 = sent[Len(seen) + 1]
        OBVIOUS
      <4>6. /\ pc \in {"read", "again", "refused", "end", "dir"}
            /\ pc = "read" => off - base < q1.size
            /\ pc = "refused" => q1.cut > 0 \/ q1.t = "Tlerror" \/ NotAlike(q1, dotu)
        BY <4>4, <4>5 DEF Inv, LoopInv
      <4>. QED  BY <1>2, <4>3, <4>5, <4>6 DEF LoopInv
    <3>2. CASE ~(Len(seen) < Len(s))
      <4>1. Len(seen) = Len(s)
        BY <2>7, <3>2
      <4>2. off \in Nat /\ base \in Nat /\ base = StartOf(s, Len(s) + 1)
            /\ off <= StartOf(s, Len(s) + 1) /\ base <= off
        BY <2>4, <4>1 DEF Inv, PlaceInv
      <4>3. off - base < q.size
        BY <2>3, <4>2
      <4>4. u[Len(seen) + 1] = q
        BY <2>6, <4>1
      <4>5. pc # "refused"
        BY <2>4, <3>2 DEF Inv, LoopInv
      <4>. QED  BY <1>2, <2>4, <4>3, <4>4, <4>5 DEF Inv, LoopInv
    <3>. QED  BY <3>1, <3>2
  <2>12. AllMade'
    BY <2>1 DEF Inv, AllMade
  <2>. QED  BY <1>3, <2>8, <2>9, <2>10, <2>11, <2>12 DEF Inv
<1>. QED  BY <1>4, <1>5

\* The messages that are sent are good.
LEMMA SendsInv ==
    ASSUME Inv, SendAny \/ SendNext
    PROVE  Inv'
<1>0. dotu \in BOOLEAN
  BY DEF Inv, SentInv
<1>1. CASE SendAny
  <2>1. PICK m \in Made[dotu], cut \in Cuts :
          \E count \in {k \in Counts : \A c \in DataIn(m) : k <= c} : Send(m, count, cut)
    BY <1>1 DEF SendAny
  <2>2. PICK count \in Counts : Send(m, count, cut)
    BY <2>1
  <2>3. PICK x \in Args(dotu) : m \in Made2000(x) \cup MadeL(x)
    <3>1. Made[dotu] = UNION {Made2000(x) \cup (IF dotu THEN MadeL(x) ELSE {}) : x \in Args(dotu)}
      BY <1>0 DEF Made
    <3>2. PICK x \in Args(dotu) : m \in Made2000(x) \cup (IF dotu THEN MadeL(x) ELSE {})
      BY <2>1, <3>1
    <3>. QED  BY <3>2
  <2>4. ArgsIn(x, dotu)
    <3>1. x \in [dotu : {dotu}, a : Lengths, b : Lengths, n : Elements, c : Counts]
      BY DEF Args
    <3>2. x.dotu = dotu /\ x.a \in Lengths /\ x.b \in Lengths /\ x.n \in Elements /\ x.c \in Counts
      BY <3>1
    <3>. QED  BY <1>0, <3>2, Constants DEF ArgsIn
  <2>5. Good(m, dotu)
    BY <2>3, <2>4, GoodMade
  <2>6. count \in Nat /\ cut \in Nat
    BY Constants
  <2>. QED  BY <2>2, <2>5, <2>6, SendInv
<1>2. CASE SendNext
  <2>. DEFINE x == [dotu |-> dotu, a |-> 0, b |-> 0, n |-> 0, c |-> 0]
              y == CHOOSE z \in Args(dotu) : TRUE
  <2>1. ArgsIn(x, dotu)
    BY <1>0 DEF ArgsIn
  <2>2. Good(np_create_tclunk(x), dotu)
    <3>. HIDE DEF x
    <3>. QED  BY <2>1, GoodFid
  <2>3. np_create_tclunk(y) = np_create_tclunk(x)
    BY DEF np_create_tclunk
  <2>4. Send(np_create_tclunk(y), 0, 0)
    BY <1>2 DEF SendNext
  <2>. HIDE DEF x, y
  <2>5. PICK m : m = np_create_tclunk(y)
    OBVIOUS
  <2>6. Good(m, dotu) /\ Send(m, 0, 0)
    BY <2>2, <2>3, <2>4, <2>5
  <2>. QED  BY <2>6, SendInv
<1>. QED  BY <1>1, <1>2

\* Bytes are received.
LEMMA RecvInv ==
    ASSUME Inv, Recv \/ RecvNone
    PROVE  Inv'
<1>1. CASE Recv
  <2>1. PICK s \in Stops : off < s /\ s - off <= msize - (off - base) /\ s <= Start(Len(sent) + 1)
                           /\ off' = s
    BY <1>1 DEF Recv, ReadInto
  <2>2. pc' = "again" /\ UNCHANGED <<dotu, msize, sent, unmade, base, seen, dir>>
    BY <1>1 DEF Recv, ReadInto
  <2>3. Packets(sent) /\ Len(sent) \in Nat /\ DOMAIN sent = 1..Len(sent)
    BY DEF Inv, SentInv, Packets
  <2>4. s \in Int
    <3>1. CASE AnyStop
      BY <2>1, <3>1 DEF Stops
    <3>2. CASE ~AnyStop
      <4>1. PICK i \in DOMAIN sent :
              s \in {Start(i) + 3, Start(i) + 4, Start(i) + sent[i].size - 1, Start(i) + sent[i].size}
        BY <2>1, <3>2 DEF Stops, EndStops
      <4>2. i \in 1..Len(sent) /\ i \in 1..(Len(sent) + 1)
        BY <2>3, <4>1
      <4>3. StartOf(sent, i) \in Nat
        BY <2>3, <4>2, StartFacts
      <4>4. sent[i].size \in Nat
        BY <2>3, <4>2 DEF Packets
      <4>5. PICK a, z : a = Start(i) /\ z = sent[i].size
        OBVIOUS
      <4>6. a \in Nat /\ z \in Nat
        BY <4>3, <4>4, <4>5, StartIs
      <4>7. s \in {a + 3, a + 4, a + z - 1, a + z}
        BY <4>1, <4>5
      <4>. QED  BY <4>6, <4>7
    <3>. QED  BY <3>1, <3>2, Constants
  <2>5. msize \in Nat /\ off \in Nat /\ base \in Nat /\ base <= off
    BY Constants DEF Inv, SentInv, PlaceInv
  <2>6. s \in Nat /\ base <= s /\ s - base <= msize
    BY <2>1, <2>4, <2>5
  <2>7. s <= StartOf(sent, Len(sent) + 1)
    BY <2>1, StartIs
  <2>8. PlaceInv'
    BY <2>1, <2>2, <2>6, <2>7 DEF Inv, PlaceInv
  <2>9. LoopInv'
    BY <2>2 DEF LoopInv
  <2>10. SentInv' /\ SeenInv' /\ AllMade' /\ DirInv' /\ DirWhole'
    BY <2>2 DEF Inv, SentInv, SeenInv, AllMade, DirInv, DirWhole
  <2>. QED  BY <2>8, <2>9, <2>10 DEF Inv
<1>2. CASE RecvNone
  <2>1. pc' = "end" /\ UNCHANGED <<dotu, msize, sent, unmade, off, base, seen, dir>>
    BY <1>2 DEF RecvNone, stream
  <2>2. LoopInv'
    BY <2>1 DEF LoopInv
  <2>3. SentInv' /\ SeenInv' /\ PlaceInv' /\ AllMade' /\ DirInv' /\ DirWhole'
    BY <2>1 DEF Inv, SentInv, SeenInv, PlaceInv, AllMade, DirInv, DirWhole
  <2>. QED  BY <2>2, <2>3 DEF Inv
<1>. QED  BY <1>1, <1>2

\* The message at the front of the buffer is the next one.
LEMMA NextOne ==
    ASSUME Inv, NEW i \in DOMAIN sent, Start(i) = base
    PROVE  i = Len(seen) + 1 /\ Len(seen) < Len(sent) /\ i \in 1..Len(sent)
<1>1. Packets(sent) /\ Len(sent) \in Nat /\ DOMAIN sent = 1..Len(sent)
  BY DEF Inv, SentInv, Packets
<1>2. PICK k : k = Len(seen) + 1
  OBVIOUS
<1>3. k \in 1..(Len(sent) + 1) /\ StartOf(sent, k) = base /\ Len(seen) \in Nat
  BY <1>1, <1>2 DEF Inv, SeenInv, PlaceInv
<1>4. i \in 1..Len(sent) /\ i \in 1..(Len(sent) + 1) /\ StartOf(sent, i) = base
  BY <1>1, StartIs
<1>5. ~(i < k)
  <2>1. SUFFICES ASSUME i < k PROVE FALSE
    OBVIOUS
  <2>2. StartOf(sent, i) \in Nat /\ StartOf(sent, k) \in Nat /\ StartOf(sent, i) < StartOf(sent, k)
    BY <1>1, <1>3, <1>4, <2>1, StartGrows
  <2>. QED  BY <1>3, <1>4, <2>2
<1>6. ~(k < i)
  <2>1. SUFFICES ASSUME k < i PROVE FALSE
    OBVIOUS
  <2>2. StartOf(sent, k) \in Nat /\ StartOf(sent, i) \in Nat /\ StartOf(sent, k) < StartOf(sent, i)
    BY <1>1, <1>3, <1>4, <2>1, StartGrows
  <2>. QED  BY <1>3, <1>4, <2>2
<1>7. i = k
  BY <1>1, <1>3, <1>4, <1>5, <1>6
<1>. QED  BY <1>1, <1>2, <1>3, <1>4, <1>7

\* The reading loop looks at the front of the buffer.
LEMMA AgainInv ==
    ASSUME Inv, NEW i \in DOMAIN sent, NEW junk \in Nat, Again(i, junk)
    PROVE  Inv'
<1>. DEFINE k == Len(seen)
<1>1. /\ pc = "again" /\ Start(i) = base
      /\ UNCHANGED <<dotu, msize, sent, unmade, off, dir>>
  BY DEF Again, Take
<1>2. i = k + 1 /\ k < Len(sent) /\ i \in 1..Len(sent)
  BY <1>1, NextOne
<1>3. PICK d : d = np_deserialize(sent[i], dotu, junk)
  OBVIOUS
<1>4. PICK z : z = sent[i].size
  OBVIOUS
<1>5. TRUE /\
      CASE off - base < 4 \/ off - base < z -> pc' = "read" /\ UNCHANGED <<base, seen>>
        [] off - base >= z /\ ~d.ok -> pc' = "refused" /\ UNCHANGED <<base, seen>>
        [] OTHER -> /\ seen' = Append(seen, d)
                    /\ base' = base + z
                    /\ pc' = IF off > base' THEN "again" ELSE "read"
  <2>1. \E c \in {d} :
         CASE off - base < 4 \/ off - base < z -> pc' = "read" /\ UNCHANGED <<base, seen>>
           [] off - base >= z /\ ~c.ok -> pc' = "refused" /\ UNCHANGED <<base, seen>>
           [] OTHER -> /\ seen' = Append(seen, c)
                       /\ base' = base + z
                       /\ pc' = IF off > base' THEN "again" ELSE "read"
    BY <1>3, <1>4 DEF Again, Take
  <2>. QED  BY <2>1
<1>6. z \in Nat /\ z >= 7 /\ off \in Nat /\ base \in Nat /\ base <= off /\ k \in Nat /\ Len(sent) \in Nat
  BY <1>2, <1>4 DEF Inv, SentInv, Packets, SeenInv, PlaceInv
<1>7. Sound(sent[i], dotu)
  BY <1>2 DEF Inv, SentInv
<1>8. Fate(sent[i], dotu, d)
  BY <1>3, <1>7 DEF Sound
<1>9. SentInv' /\ AllMade' /\ DirInv' /\ DirWhole'
  BY <1>1 DEF Inv, SentInv, AllMade, DirInv, DirWhole
<1>10. CASE off - base < z
  <2>0. off - base < z /\ ~(off - base >= z)
    BY <1>6, <1>10
  <2>1. pc' = "read" /\ UNCHANGED <<base, seen>>
    BY <1>5, <2>0
  <2>2. SeenInv' /\ PlaceInv'
    BY <1>1, <2>1 DEF Inv, SeenInv, PlaceInv
  <2>3. off - base < sent[Len(seen) + 1].size
    BY <1>2, <1>4, <1>10
  <2>4. LoopInv'
    BY <1>1, <2>1, <2>3 DEF LoopInv
  <2>. QED  BY <1>9, <2>2, <2>4 DEF Inv
<1>11. CASE ~(off - base < z) /\ ~d.ok
  <2>0. ~(off - base < 4) /\ off - base >= z
    BY <1>6, <1>11
  <2>1. pc' = "refused" /\ UNCHANGED <<base, seen>>
    BY <1>5, <1>11, <2>0
  <2>2. SeenInv' /\ PlaceInv'
    BY <1>1, <2>1 DEF Inv, SeenInv, PlaceInv
  <2>3. sent[i].cut > 0 \/ sent[i].t = "Tlerror" \/ NotAlike(sent[i], dotu)
    BY <1>8, <1>11 DEF Fate
  <2>4. LoopInv'
    BY <1>1, <1>2, <2>1, <2>3 DEF LoopInv
  <2>. QED  BY <1>9, <2>2, <2>4 DEF Inv
<1>12. CASE ~(off - base < z) /\ d.ok
  <2>0. ~(off - base < 4) /\ off - base >= z
    BY <1>6, <1>12
  <2>1. seen' = Append(seen, d) /\ base' = base + z /\ pc' = IF off > base' THEN "again" ELSE "read"
    BY <1>5, <1>12, <2>0
  <2>2. PICK S : seen \in Seq(S)
    BY DEF Inv, SeenInv
  <2>3. PICK R : seen \in Seq(R) /\ d \in R
    <3>1. seen \in Seq(S \cup {d}) /\ d \in S \cup {d}
      BY <2>2
    <3>. QED  BY <3>1
  <2>4. /\ seen' \in Seq(R) /\ Len(seen') = k + 1 /\ DOMAIN seen' = 1..(k + 1)
        /\ seen'[k + 1] = d /\ \A j \in 1..k : seen'[j] = seen[j]
    BY <2>1, <2>3, AppendOf
  <2>5. SeenInv'
    <3>1. \A j \in 1..(k + 1) : j \in 1..k \/ j = k + 1
      BY <1>6
    <3>2. \A j \in 1..k : seen[j].ok /\ \E n \in Nat : seen[j] = np_deserialize(sent[j], dotu, n)
      BY DEF Inv, SeenInv
    <3>3. d.ok /\ \E n \in Nat : d = np_deserialize(sent[k + 1], dotu, n)
      BY <1>2, <1>3, <1>12
    <3>. HIDE DEF k
    <3>4. ASSUME NEW j \in 1..(k + 1)
          PROVE  seen'[j].ok /\ \E n \in Nat : seen'[j] = np_deserialize(sent[j], dotu, n)
      <4>1. CASE j \in 1..k
        BY <2>4, <3>2, <4>1
      <4>2. CASE j = k + 1
        BY <2>4, <3>3, <4>2
      <4>. QED  BY <3>1, <4>1, <4>2
    <3>5. Len(seen') \in Nat /\ Len(seen') <= Len(sent)
      BY <1>2, <1>6, <2>4
    <3>6. \A j \in 1..Len(seen') :
            seen'[j].ok /\ \E n \in Nat : seen'[j] = np_deserialize(sent'[j], dotu', n)
      BY <1>1, <2>4, <3>4
    <3>7. DOMAIN seen' = 1..Len(seen') /\ Len(seen') <= Len(sent') /\ \E Q : seen' \in Seq(Q)
      BY <1>1, <2>4, <3>5
    <3>. QED  BY <3>5, <3>6, <3>7 DEF SeenInv
  <2>6. base' \in Nat /\ base' <= off /\ off - base' <= off - base
    BY <1>6, <1>12, <2>1
  <2>7. base' = StartOf(sent, Len(seen') + 1)
    <3>1. base = StartOf(sent, i)
      BY <1>1, StartIs
    <3>2. Packets(sent)
      BY DEF Inv, SentInv
    <3>3. StartOf(sent, i + 1) = StartOf(sent, i) + sent[i].size
      BY <1>2, <3>2, StartFacts
    <3>4. Len(seen') = i
      BY <1>2, <2>4
    <3>. QED  BY <1>4, <2>1, <3>1, <3>3, <3>4
  <2>8. PlaceInv'
    <3>1. off - base <= msize /\ msize \in Nat
      BY Constants DEF Inv, PlaceInv, SentInv
    <3>2. off - base' <= msize
      <4>1. \A n, m, o \in Int : n <= m /\ m <= o => n <= o
        OBVIOUS
      <4>2. off - base' \in Int /\ off - base \in Int /\ msize \in Int
        BY <1>6, <2>6, <3>1
      <4>. QED  BY <2>6, <3>1, <4>1, <4>2
    <3>3. off <= StartOf(sent, Len(sent) + 1)
      BY DEF Inv, PlaceInv
    <3>. QED  BY <1>1, <1>6, <2>6, <2>7, <3>2, <3>3 DEF PlaceInv
  <2>9. LoopInv'
    <3>1. CASE off > base'
      <4>1. pc' = "again"
        BY <2>1, <3>1
      <4>. QED  BY <4>1 DEF LoopInv
    <3>2. CASE ~(off > base')
      <4>1. pc' = "read" /\ off - base' = 0
        BY <1>6, <2>1, <2>6, <3>2
      <4>2. ASSUME Len(seen') < Len(sent') PROVE off' - base' < sent'[Len(seen') + 1].size
        <5>1. Len(seen') + 1 \in 1..Len(sent)
          BY <1>1, <1>6, <2>4, <4>2
        <5>2. sent[Len(seen') + 1].size \in Nat /\ sent[Len(seen') + 1].size >= 7
          BY <5>1 DEF Inv, SentInv, Packets
        <5>. QED  BY <1>1, <4>1, <5>2
      <4>. QED  BY <4>1, <4>2 DEF LoopInv
    <3>. QED  BY <3>1, <3>2
  <2>. QED  BY <1>9, <2>5, <2>8, <2>9 DEF Inv
<1>. QED  BY <1>10, <1>11, <1>12

----------------------------------------------------------------------------
(* The records of a directory *)

\* All the fields fit but the last one.
LEMMA PutLast ==
    ASSUME NEW s, NEW pl, Laid(s, pl), Len(s) > 0, NEW ep \in Nat,
           pl[Len(s) - 1] <= ep, ~(pl[Len(s)] <= ep)
    PROVE  \E o : buf_put_all(Buf(0, ep, {}), s) =
                    Buf(IF pl[Len(s) - 1] < ep THEN ep + 1 ELSE pl[Len(s) - 1], ep, o)
<1>1. /\ Len(s) \in Nat /\ pl[0] = 0 /\ \A k \in 0..Len(s) : pl[k] \in Nat
      /\ \A k \in 1..Len(s) : s[k].w \in Nat /\ pl[k] = pl[k - 1] + s[k].w
  BY LaidFacts
<1>2. PICK m, b0 : m = Len(s) - 1 /\ b0 = Buf(0, ep, {})
  OBVIOUS
<1>3. m \in Nat /\ Len(s) = m + 1 /\ m \in 0..Len(s) /\ Len(s) \in 1..Len(s) /\ Len(s) - 1 = m
  BY <1>1, <1>2
<1>4. PICK c : PutRun(b0, s, c) /\ buf_put_all(b0, s) = c[Len(s)]
  BY <1>1, PutRuns
<1>. DEFINE T == {k \in 0..m : ~\E o : c[k] = Buf(pl[k], ep, o)}
<1>5. ASSUME T # {} PROVE FALSE
  <2>0. T \subseteq Nat
    OBVIOUS
  <2>. HIDE DEF T
  <2>1. PICK k \in T : \A j \in T : k <= j
    BY <1>5, <2>0, LeastNat
  <2>. USE DEF T
  <2>2. k # 0
    <3>1. c[0] = Buf(pl[0], ep, {})
      BY <1>1, <1>2, <1>4 DEF PutRun
    <3>. QED  BY <2>1, <3>1
  <2>3. k - 1 \in 0..m /\ k \in 1..Len(s) /\ k \in 0..m /\ ~(k <= k - 1) /\ k \in 0..Len(s)
        /\ k - 1 \in 0..Len(s)
    BY <1>3, <2>1, <2>2
  <2>4. PICK o : c[k - 1] = Buf(pl[k - 1], ep, o)
    BY <2>1, <2>3
  <2>5. c[k] = buf_put(c[k - 1], s[k])
    BY <1>4, <2>3 DEF PutRun
  <2>6. PICK p, q, it : p = pl[k - 1] /\ q = pl[k] /\ it = s[k]
    OBVIOUS
  <2>7. p \in Nat /\ q \in Nat /\ it.w \in Nat /\ q = p + it.w
    BY <1>1, <2>3, <2>6
  <2>8. q <= ep
    <3>1. m \in k..Len(s)
      BY <1>3, <2>3
    <3>2. pl[m] \in Nat /\ pl[k] <= pl[m]
      BY <2>3, <3>1, PlacesGrow
    <3>3. pl[m] <= ep
      BY <1>2
    <3>. QED  BY <2>6, <2>7, <3>2, <3>3
  <2>9. buf_put(Buf(p, ep, o), it) = Buf(p + it.w, ep, With(o, it, p))
    BY <2>7, <2>8, PutFits
  <2>10. c[k] = Buf(pl[k], ep, With(o, it, p))
    BY <2>4, <2>5, <2>6, <2>7, <2>9
  <2>. QED  BY <2>1, <2>10
<1>6. PICK o : c[m] = Buf(pl[m], ep, o)
  <2>1. m \in 0..m
    BY <1>3
  <2>. QED  BY <1>5, <2>1
<1>7. PICK p, it : p = pl[m] /\ it = s[Len(s)]
  OBVIOUS
<1>8. p \in Nat /\ it.w \in Nat /\ ~(p + it.w <= ep)
  BY <1>1, <1>2, <1>3, <1>7
<1>9. buf_put(Buf(p, ep, o), it) = Buf(IF p < ep THEN ep + 1 ELSE p, ep, o)
  BY <1>8, PutPast
<1>10. c[Len(s)] = buf_put(c[m], it)
  BY <1>3, <1>4, <1>7 DEF PutRun
<1>11. buf_put_all(b0, s) = Buf(IF p < ep THEN ep + 1 ELSE p, ep, o)
  BY <1>4, <1>6, <1>7, <1>9, <1>10
<1>. QED  BY <1>2, <1>7, <1>11

\* The last field of a stat.
LEMMA StatLast ==
    ASSUME NEW x, NEW d, StatArgs(x, d)
    PROVE  /\ Len(buf_put_wstat(x)) > 0
           /\ buf_put_wstat(x)[Len(buf_put_wstat(x))].w = IF d THEN 4 ELSE 2 + x.b
<1>1. x.a \in Nat /\ x.b \in Nat /\ d \in BOOLEAN /\ x.dotu = d /\ size_wstat(x) \in Nat
  BY MatchedWstat DEF StatArgs
<1>. DEFINE e == Item("str", "stat.muid", 0, 2 + x.b, x.b)
            o == Item("int", "stat.n_muid", 0, 4, 0)
<1>2. PICK z : z = size_wstat(x)
  OBVIOUS
<1>. DEFINE u == C16("stat.size", z) \o I16("stat.type") \o I32("stat.dev") \o Qid("stat.qid")
                 \o I32("stat.mode") \o I32("stat.atime") \o I32("stat.mtime") \o I64("stat.length")
                 \o Str("stat.name", x.a) \o Str("stat.uid", x.b) \o Str("stat.gid", x.b)
            v == Str("stat.extension", x.b) \o I32("stat.n_uid") \o I32("stat.n_gid")
<1>3. {"stat.size", "stat.type", "stat.dev", "stat.qid", "stat.mode", "stat.atime", "stat.mtime",
       "stat.length", "stat.name", "stat.uid", "stat.gid", "stat.muid", "stat.extension",
       "stat.n_uid", "stat.n_gid", "stat.n_muid"} \subseteq Member
  BY DEF Member
<1>4. /\ C16("stat.size", z) \in Seq(ItemT) /\ I16("stat.type") \in Seq(ItemT)
      /\ I32("stat.dev") \in Seq(ItemT) /\ Qid("stat.qid") \in Seq(ItemT)
      /\ I32("stat.mode") \in Seq(ItemT) /\ I32("stat.atime") \in Seq(ItemT)
      /\ I32("stat.mtime") \in Seq(ItemT) /\ I64("stat.length") \in Seq(ItemT)
  <2>1. z \in Nat
    BY <1>1, <1>2
  <2>. QED  BY <1>3, <2>1, MatchedField DEF Matched
<1>5. /\ Str("stat.name", x.a) \in Seq(ItemT) /\ Str("stat.uid", x.b) \in Seq(ItemT)
      /\ Str("stat.gid", x.b) \in Seq(ItemT) /\ Str("stat.extension", x.b) \in Seq(ItemT)
      /\ I32("stat.n_uid") \in Seq(ItemT) /\ I32("stat.n_gid") \in Seq(ItemT)
  BY <1>1, <1>3, MatchedField DEF Matched
<1>6. u \in Seq(ItemT) /\ v \in Seq(ItemT)
  BY <1>4, <1>5
<1>7. e \in ItemT /\ o \in ItemT /\ e.w = 2 + x.b /\ o.w = 4
  BY <1>1, <1>3 DEF ItemT, Item
<1>8. Str("stat.muid", x.b) = <<e>> /\ I32("stat.n_muid") = <<o>>
  BY DEF Str, StrN, I32
<1>9. buf_put_wstat(x) = (u \o <<e>>) \o (IF d THEN v \o <<o>> ELSE <<>>)
  BY <1>1, <1>2, <1>8 DEF buf_put_wstat, Dotu
<1>. HIDE DEF u, v, e, o
<1>10. PICK a, b : a = <<e>> /\ b = <<o>>
  OBVIOUS
<1>11. a \in Seq(ItemT) /\ b \in Seq(ItemT) /\ u \o a \in Seq(ItemT)
  <2>1. <<e>> \in Seq(ItemT) /\ <<o>> \in Seq(ItemT)
    BY <1>7, OneOf
  <2>2. a \in Seq(ItemT) /\ b \in Seq(ItemT)
    BY <1>10, <2>1
  <2>. QED  BY <1>6, <2>2
<1>12. CASE d
  <2>1. PICK w : w = u \o a
    OBVIOUS
  <2>2. w \in Seq(ItemT) /\ v \in Seq(ItemT) /\ b \in Seq(ItemT)
    BY <1>6, <1>11, <2>1
  <2>3. (w \o v) \o b = w \o (v \o b)
    BY <2>2, ConcatAssociative, SMTT(30)
  <2>4. w \o v \in Seq(ItemT)
    BY <2>2
  <2>5. buf_put_wstat(x) = w \o (v \o b)
    BY <1>9, <1>10, <1>12, <2>1
  <2>6. buf_put_wstat(x) = (w \o v) \o <<o>>
    BY <1>10, <2>3, <2>5
  <2>7. PICK y : y = w \o v
    OBVIOUS
  <2>8. y \in Seq(ItemT) /\ buf_put_wstat(x) = y \o <<o>>
    BY <2>4, <2>6, <2>7
  <2>9. Len(y \o <<o>>) > 0 /\ (y \o <<o>>)[Len(y \o <<o>>)] = o
    BY <1>7, <2>8, LastOf
  <2>. QED  BY <1>7, <1>12, <2>8, <2>9
<1>13. CASE ~d
  <2>1. buf_put_wstat(x) = u \o <<e>>
    BY <1>9, <1>10, <1>11, <1>13
  <2>2. Len(u \o <<e>>) > 0 /\ (u \o <<e>>)[Len(u \o <<e>>)] = e
    BY <1>6, <1>7, LastOf
  <2>. QED  BY <1>7, <1>13, <2>1, <2>2
<1>. QED  BY <1>12, <1>13

\* The record r of x is read as it was put, or lacks its empty muid.
StatIs(x, d, r) ==
    LET D == np_deserialize_stat(r.fields, r.size, d, 0)
        items == buf_put_wstat(x) IN
    \/ D.size = r.size /\ \A j \in DOMAIN items : <<items[j].f, items[j].f>> \in D.got
    \/ ~d /\ x.b = 0 /\ r.size = size_wstat(x)

\* A record that was packed.
LEMMA Serialized ==
    ASSUME NEW size \in Nat, NEW s, NEW L \in Nat, NEW r, r = Serialize(size, s, L), r.size # 0,
           NEW b, b = buf_put_all(Buf(0, L, {}), s)
    PROVE  size <= L /\ ~(b.p > b.ep) /\ r = [size |-> b.p, fields |-> b.out]
<1>1. Buf(0, L, {}) = [p |-> 0, ep |-> L, out |-> {}]
  BY DEF Buf
<1>2. r = IF size > L \/ b.p > b.ep THEN [size |-> 0, fields |-> {}]
          ELSE [size |-> b.p, fields |-> b.out]
  BY <1>1 DEF Serialize, buf_check_overflow
<1>3. ~(size > L \/ b.p > b.ep)
  BY <1>2
<1>. QED  BY <1>2, <1>3

\* All of a stat was packed.
LEMMA StatRead ==
    ASSUME NEW s, NEW n, NEW d, Matched(s, buf_get_stat(d), n), NEW pl, Laid(s, pl), pl[Len(s)] = n,
           NEW D, D = np_deserialize_stat(FieldsOf(s, pl, 0), n, d, 0)
    PROVE  D.size = n /\ \A j \in DOMAIN s : <<s[j].f, s[j].f>> \in D.got
<1>1. /\ s \in Seq(ItemT) /\ n \in Nat /\ DOMAIN s = 1..Len(s)
  BY DEF Matched
<1>. DEFINE F == FieldsOf(s, pl, 0)
            g == buf_get_stat(d)
            r0 == [p |-> 0, ep |-> n, last |-> 0, got |-> {}, junk |-> 0, fields |-> F]
<1>2. Reading(r0, F, n) /\ r0.p = 0
  BY <1>1 DEF Reading
<1>3. Held(F, s, pl, 0)
  BY DEF Held
<1>4. D = [size |-> IF buf_get_all(r0, g).p > buf_get_all(r0, g).ep THEN 0 ELSE buf_get_all(r0, g).p,
           got |-> buf_get_all(r0, g).got]
  BY DEF np_deserialize_stat, buf_check_overflow
<1>. HIDE DEF F, g, r0
<1>5. PICK r1, g1, F1, r : r1 = r0 /\ g1 = g /\ F1 = F /\ r = buf_get_all(r0, g)
  OBVIOUS
<1>6. Matched(s, g1, n) /\ Held(F1, s, pl, 0) /\ Reading(r1, F1, n) /\ r1.p = 0 /\ 0 <= n /\ 0 \in Nat
      /\ r = buf_get_all(r1, g1)
  BY <1>1, <1>2, <1>3, <1>5 DEF g
<1>7. 0 + n <= n =>
         /\ Reading(buf_get_all(r1, g1), F1, n) /\ buf_get_all(r1, g1).err = r1.err
         /\ GotTo(buf_get_all(r1, g1), s, pl, 0, Len(s), n)
  BY <1>6, GetAll
<1>8. Reading(r, F1, n) /\ GotTo(r, s, pl, 0, Len(s), n)
  BY <1>1, <1>6, <1>7
<1>9. r.ep = n /\ r.p = 0 + pl[Len(s)] /\ \A i \in 1..Len(s) : <<s[i].f, s[i].f>> \in r.got
  BY <1>8 DEF Reading, GotTo
<1>10. r.p = n /\ ~(r.p > r.ep)
  BY <1>1, <1>9
<1>11. D = [size |-> n, got |-> r.got]
  BY <1>4, <1>5, <1>10
<1>. QED  BY <1>1, <1>9, <1>11

\* What np_serialize_stat packs.
LEMMA StatWhole ==
    ASSUME NEW x, NEW d, StatArgs(x, d), NEW L \in Nat, NEW r, r = np_serialize_stat(x, L), r.size # 0
    PROVE  r.size \in Nat /\ r.size <= L /\ StatIs(x, d, r)
<1>1. PICK s, w, n : s = buf_put_wstat(x) /\ w = size_wstat(x) /\ n = 2 + w
  OBVIOUS
<1>2. Matched(s, buf_get_stat(d), n) /\ w \in Nat /\ n \in Nat
  BY <1>1, MatchedWstat
<1>3. PICK pl : Laid(s, pl) /\ pl[Len(s)] = n
  BY <1>2 DEF Matched
<1>4. Len(s) > 0 /\ s[Len(s)].w = IF d THEN 4 ELSE 2 + x.b
  BY <1>1, StatLast
<1>5. PICK b : b = buf_put_all(Buf(0, L, {}), s)
  OBVIOUS
<1>6. r = Serialize(w, s, L)
  BY <1>1 DEF np_serialize_stat
<1>7. w <= L /\ ~(b.p > b.ep) /\ r = [size |-> b.p, fields |-> b.out]
  BY <1>2, <1>5, <1>6, Serialized
<1>8. x.b \in Nat /\ d \in BOOLEAN
  BY DEF StatArgs
<1>9. CASE n <= L
  <2>1. n = 0 + pl[Len(s)] /\ 0 \in Nat
    BY <1>2, <1>3
  <2>2. b = Buf(n, L, WithAll({}, s, pl, 0))
    BY <1>3, <1>5, <1>9, <2>1, PutAll
  <2>3. b.p = n /\ b.out = FieldsOf(s, pl, 0)
    BY <2>2 DEF Buf, WithAll
  <2>4. r.size = n /\ r.fields = FieldsOf(s, pl, 0)
    BY <1>7, <2>3
  <2>5. PICK D : D = np_deserialize_stat(FieldsOf(s, pl, 0), n, d, 0)
    OBVIOUS
  <2>6. D.size = n /\ \A j \in DOMAIN s : <<s[j].f, s[j].f>> \in D.got
    BY <1>2, <1>3, <2>5, StatRead
  <2>7. StatIs(x, d, r)
    BY <1>1, <2>4, <2>5, <2>6 DEF StatIs
  <2>. QED  BY <1>2, <1>9, <2>4, <2>7
<1>10. CASE ~(n <= L)
  <2>1. PICK p : p = pl[Len(s) - 1]
    OBVIOUS
  <2>2. Len(s) \in 1..Len(s) /\ Len(s) - 1 \in 0..Len(s) /\ Len(s) \in Nat
    BY <1>3, <1>4, LaidFacts
  <2>3. p \in Nat /\ n = p + s[Len(s)].w
    BY <1>3, <2>1, <2>2, LaidFacts
  <2>4. p + 2 <= n /\ p <= L /\ (p = L => ~d /\ x.b = 0 /\ L = w)
    BY <1>1, <1>2, <1>4, <1>7, <1>8, <1>10, <2>3, SMTT(30)
  <2>5. PICK o : b = Buf(IF p < L THEN L + 1 ELSE p, L, o)
    <3>1. pl[Len(s) - 1] <= L /\ ~(pl[Len(s)] <= L)
      BY <1>3, <1>10, <2>1, <2>4
    <3>2. \E o : b = Buf(IF pl[Len(s) - 1] < L THEN L + 1 ELSE pl[Len(s) - 1], L, o)
      BY <1>3, <1>4, <1>5, <3>1, PutLast
    <3>. QED  BY <2>1, <3>2
  <2>6. b.p = (IF p < L THEN L + 1 ELSE p) /\ b.ep = L
    BY <2>5 DEF Buf
  <2>7. p = L /\ b.p = L
    BY <1>7, <2>3, <2>4, <2>6
  <2>8. r.size = L
    BY <1>7, <2>7
  <2>. QED  BY <1>1, <2>4, <2>7, <2>8 DEF StatIs
<1>. QED  BY <1>9, <1>10

\* Fields that are not empty are as many as were put.
LEMMA FieldsCount ==
    ASSUME NEW s, NEW g, NEW n, Matched(s, g, n), NEW pl, Laid(s, pl),
           \A k \in 1..Len(s) : s[k].k # "data"
    PROVE  Cardinality(FieldsOf(s, pl, 0)) = Len(s)
<1>1. Len(s) \in Nat /\ \A k \in 0..Len(s) : pl[k] \in Nat
  BY LaidFacts
<1>. DEFINE F == FieldsOf(s, pl, 0)
            f == [k \in 1..Len(s) |-> Field(s[k], 0 + pl[k - 1])]
<1>2. ASSUME NEW i \in 1..Len(s), NEW j \in 1..Len(s), i < j PROVE f[i] # f[j]
  <2>1. pl[i - 1] \in Nat /\ pl[i] \in Nat /\ pl[i - 1] < pl[i]
    BY FieldWide
  <2>2. i \in 0..Len(s) /\ j - 1 \in i..Len(s)
    BY <1>1, <1>2
  <2>3. pl[j - 1] \in Nat /\ pl[i] <= pl[j - 1]
    BY <2>2, PlacesGrow
  <2>4. PICK a, b, c : a = pl[i - 1] /\ b = pl[i] /\ c = pl[j - 1]
    OBVIOUS
  <2>5. a \in Nat /\ b \in Nat /\ c \in Nat /\ a < b /\ b <= c
    BY <2>1, <2>3, <2>4
  <2>6. 0 + a # 0 + c
    BY <2>5
  <2>7. f[i].at = 0 + a /\ f[j].at = 0 + c
    BY <2>4 DEF Field
  <2>. QED  BY <2>6, <2>7
<1>3. f \in [1..Len(s) -> F]
  BY DEF FieldsOf
<1>4. \A t \in F : \E k \in 1..Len(s) : f[k] = t
  BY DEF FieldsOf
<1>. HIDE DEF f, F
<1>5. \A i, j \in 1..Len(s) : f[i] = f[j] => i = j
  <2>1. ASSUME NEW i \in 1..Len(s), NEW j \in 1..Len(s), f[i] = f[j] PROVE i = j
    <3>1. i < j \/ j < i \/ i = j
      BY <1>1
    <3>. QED  BY <1>2, <2>1, <3>1
  <2>. QED  BY <2>1
<1>6. f \in Bijection(1..Len(s), F)
  BY <1>3, <1>4, <1>5 DEF Bijection, Injection, Surjection, IsInjective
<1>7. ExistsBijection(1..Len(s), F)
  BY <1>6 DEF ExistsBijection
<1>8. Cardinality(F) = Len(s)
  BY <1>1, <1>7, FS_CountingElements
<1>. QED  BY <1>8 DEF F

\* What np_serialize_dirent packs.
LEMMA DirentWhole ==
    ASSUME NEW x, x.a \in Nat, NEW L \in Nat, NEW r, r = np_serialize_dirent(x, L), r.size # 0
    PROVE  /\ r.size \in Nat /\ r.size <= L
           /\ Cardinality(r.fields) = Len(buf_put_dirent(x))
<1>1. PICK s, n : s = buf_put_dirent(x) /\ n = 13 + 8 + 1 + 2 + x.a
  OBVIOUS
<1>. DEFINE g == Qid("qid") \o I64("offset") \o I8("type") \o Str("name", 0)
            U == [k : {"int", "str"}, f : Member \X Nat, w : Nat, v : Nat]
<1>0. {"qid", "offset", "type", "name"} \subseteq Member
  BY DEF Member
<1>2. Matched(s, g, n) /\ n \in Nat
  <2>1. /\ Matched(Qid("qid"), Qid("qid"), 13) /\ Matched(I64("offset"), I64("offset"), 8)
        /\ Matched(I8("type"), I8("type"), 1) /\ Matched(Str("name", x.a), Str("name", 0), 2 + x.a)
    BY <1>0, MatchedField
  <2>2. 13 + 8 + 1 + (2 + x.a) = n /\ n \in Nat
    BY <1>1
  <2>3. Matched(buf_put_dirent(x), g, 13 + 8 + 1 + (2 + x.a))
    BY <2>1, MatchedCat DEF buf_put_dirent
  <2>. QED  BY <1>1, <2>2, <2>3
<1>3. s \in Seq(U)
  <2>1. <<"qid", 1>> \in Member \X Nat /\ <<"qid", 2>> \in Member \X Nat /\ <<"qid", 3>> \in Member \X Nat
        /\ <<"offset", 0>> \in Member \X Nat /\ <<"type", 0>> \in Member \X Nat
        /\ <<"name", 0>> \in Member \X Nat
    BY <1>0
  <2>2. Qid("qid") \in Seq(U)
    BY <2>1 DEF Qid, QidN, Item
  <2>3. I64("offset") \in Seq(U) /\ I8("type") \in Seq(U)
    BY <2>1 DEF I64, I8, Item
  <2>4. Str("name", x.a) \in Seq(U)
    BY <2>1 DEF Str, StrN, Item
  <2>. HIDE DEF U
  <2>. QED  BY <1>1, <2>2, <2>3, <2>4 DEF buf_put_dirent
<1>4. \A k \in 1..Len(s) : s[k].k # "data"
  <2>1. \A e \in U : e.k # "data"
    OBVIOUS
  <2>. HIDE DEF U
  <2>. QED  BY <1>3, <2>1
<1>. HIDE DEF g, U
<1>5. PICK pl : Laid(s, pl) /\ pl[Len(s)] = n
  BY <1>2 DEF Matched
<1>6. PICK b : b = buf_put_all(Buf(0, L, {}), s)
  OBVIOUS
<1>7. r = Serialize(n, s, L)
  BY <1>1 DEF np_serialize_dirent
<1>8. n <= L /\ r = [size |-> b.p, fields |-> b.out]
  BY <1>2, <1>6, <1>7, Serialized
<1>9. n = 0 + pl[Len(s)] /\ 0 \in Nat
  BY <1>2, <1>5
<1>10. b = Buf(n, L, WithAll({}, s, pl, 0))
  BY <1>5, <1>6, <1>8, <1>9, PutAll
<1>11. b.p = n /\ b.out = FieldsOf(s, pl, 0)
  BY <1>10 DEF Buf, WithAll
<1>12. Cardinality(FieldsOf(s, pl, 0)) = Len(s)
  BY <1>2, <1>4, <1>5, FieldsCount
<1>. QED  BY <1>1, <1>2, <1>8, <1>11, <1>12

\* An entry becomes a record of the reply, or does not fit.
LEMMA EntryInv ==
    ASSUME Inv, NEW x \in [dotu : {dotu}, a : Lengths, b : Lengths],
           npfs_read_dir(x) \/ npfs_readdir(x)
    PROVE  Inv'
<1>1. StatArgs(x, dotu) /\ x.a \in Nat
  <2>1. x.dotu = dotu /\ x.a \in Lengths /\ x.b \in Lengths
    OBVIOUS
  <2>2. dotu \in BOOLEAN
    BY DEF Inv, SentInv
  <2>. QED  BY <2>1, <2>2, Constants DEF StatArgs
<1>2. PICK L : L = dir.count - dir.n - 1
  OBVIOUS
<1>3. /\ dir = [k |-> dir.k, count |-> dir.count, n |-> dir.n, rec |-> dir.rec]
      /\ dir.count \in Nat /\ dir.n \in Nat /\ dir.n < dir.count /\ pc = "dir"
      /\ UNCHANGED <<dotu, msize, sent, unmade, off, base, seen>>
  BY DEF Inv, DirInv, npfs_read_dir, npfs_readdir, Entry, stream
<1>4. L \in Nat /\ dir.n + L <= dir.count
  BY <1>2, <1>3
<1>5. PICK r : /\ Entry(x, r)
               /\ \/ dir.k = "stat" /\ r = np_serialize_stat(x, L)
                  \/ dir.k = "dirent" /\ r = np_serialize_dirent(x, L)
  BY <1>2 DEF npfs_read_dir, npfs_readdir
<1>6. pc' \in {"dir", "end"}
  BY <1>3, <1>5 DEF Entry
<1>7. SentInv' /\ SeenInv' /\ PlaceInv' /\ LoopInv' /\ AllMade'
  BY <1>3, <1>6 DEF Inv, SentInv, SeenInv, PlaceInv, LoopInv, AllMade
<1>8. CASE r.size = 0
  <2>1. dir' = dir
    BY <1>5, <1>8 DEF Entry
  <2>. QED  BY <1>3, <1>7, <2>1 DEF Inv, DirInv, DirWhole
<1>9. CASE r.size # 0
  <2>1. PICK rec : rec = [x |-> x, size |-> r.size, fields |-> r.fields]
    OBVIOUS
  <2>2. dir' = [dir EXCEPT !.n = @ + r.size, !.rec = <<rec>>]
    BY <1>5, <1>9, <2>1 DEF Entry
  <2>3. /\ r.size \in Nat /\ r.size <= L
        /\ \/ dir.k = "stat" /\ StatIs(x, dotu, r)
           \/ dir.k = "dirent" /\ Cardinality(r.fields) = Len(buf_put_dirent(x))
    <3>1. CASE dir.k = "stat" /\ r = np_serialize_stat(x, L)
      BY <1>1, <1>4, <1>9, <3>1, StatWhole
    <3>2. CASE dir.k = "dirent" /\ r = np_serialize_dirent(x, L)
      BY <1>1, <1>4, <1>9, <3>2, DirentWhole
    <3>. QED  BY <1>5, <3>1, <3>2
  <2>4. dir' = [k |-> dir.k, count |-> dir.count, n |-> dir.n + r.size, rec |-> <<rec>>]
    BY <1>3, <2>2
  <2>5. DirInv'
    BY <1>3, <1>4, <2>3, <2>4 DEF DirInv
  <2>6. /\ rec.x = x /\ rec.size = r.size /\ rec.fields = r.fields
        /\ dir'.k = dir.k /\ dir'.rec = <<rec>> /\ dotu' = dotu
    BY <1>3, <2>1, <2>4
  <2>7. ASSUME NEW i \in DOMAIN dir'.rec
        PROVE  LET D == np_deserialize_stat(dir'.rec[i].fields, dir'.rec[i].size, dotu', 0)
                   items == buf_put_wstat(dir'.rec[i].x) IN
               \/ dir'.k = "dirent" /\ Cardinality(dir'.rec[i].fields) = Len(buf_put_dirent(dir'.rec[i].x))
               \/ /\ D.size = dir'.rec[i].size
                  /\ \A j \in DOMAIN items : <<items[j].f, items[j].f>> \in D.got
               \/ ~dotu' /\ dir'.rec[i].x.b = 0 /\ dir'.rec[i].size = size_wstat(dir'.rec[i].x)
    <3>1. dir'.rec[i] = rec
      BY <2>6
    <3>. QED  BY <2>3, <2>6, <3>1 DEF StatIs
  <2>8. DirWhole'
    BY <2>7 DEF DirWhole
  <2>. QED  BY <1>7, <2>5, <2>8 DEF Inv
<1>. QED  BY <1>8, <1>9

(***************************************************************************)
(* The packets stand in the stream one after the other, the buffer starts  *)
(* where one does, and what np_deserialize makes of each follows from how  *)
(* np_create_* laid it out (Sound): this holds throughout.                 *)
(***************************************************************************)
THEOREM WireInvariant == Spec => []Inv
<1>1. ASSUME Inv, [Next]_vars PROVE Inv'
  <2>1. CASE SendAny \/ SendNext
    BY <1>1, <2>1, SendsInv
  <2>2. CASE Recv \/ RecvNone
    BY <1>1, <2>2, RecvInv
  <2>3. CASE \E i \in DOMAIN sent, junk \in Junk : Again(i, junk)
    <3>1. PICK i \in DOMAIN sent, junk \in Junk : Again(i, junk)
      BY <2>3
    <3>2. junk \in Nat
      BY Constants
    <3>. QED  BY <1>1, <3>1, <3>2, AgainInv
  <2>4. CASE \E x \in [dotu : {dotu}, a : Lengths, b : Lengths] : npfs_read_dir(x) \/ npfs_readdir(x)
    BY <1>1, <2>4, EntryInv
  <2>5. CASE UNCHANGED vars
    BY <1>1, <2>5 DEF Inv, SentInv, SeenInv, PlaceInv, LoopInv, AllMade, DirInv, DirWhole, vars, stream
  <2>. QED  BY <1>1, <2>1, <2>2, <2>3, <2>4, <2>5 DEF Next
<1>. QED  BY InitInv, <1>1, PTL DEF Spec

(***************************************************************************)
(* The buffer holds what was received and not yet read, never more than    *)
(* its size: np_conn_read_proc and npc_read_proc never write beyond it.    *)
(***************************************************************************)
THEOREM WireTyped == Spec => []TypeOK
<1>1. Inv => TypeOK
  <2>1. SUFFICES ASSUME Inv PROVE TypeOK
    OBVIOUS
  <2>2. msize \in Nat /\ off \in Nat /\ base \in Nat /\ base <= off /\ off - base <= msize
    BY <2>1, Constants DEF Inv, SentInv, PlaceInv
  <2>3. 0 <= off - base
    BY <2>2
  <2>. QED  BY <2>1, <2>2, <2>3 DEF Inv, SentInv, SeenInv, LoopInv, DirInv, TypeOK
<1>. QED  BY <1>1, WireInvariant, PTL

(***************************************************************************)
(* Messages are taken out of the stream whole, once and in order.          *)
(***************************************************************************)
THEOREM WireFramed == Spec => []Framed
<1>1. Inv => Framed
  BY StartIs DEF Inv, PlaceInv, LoopInv, Framed
<1>. QED  BY <1>1, WireInvariant, PTL

(***************************************************************************)
(* Every message but Tsetattr can be made; a walk that is too long cannot. *)
(***************************************************************************)
THEOREM WireAllMade == Spec => []AllMade
<1>1. Inv => AllMade
  BY DEF Inv
<1>. QED  BY <1>1, WireInvariant, PTL

(***************************************************************************)
(* A packet is filled to its last byte: the size np_create_* allocates is  *)
(* that of the fields it puts.                                             *)
(***************************************************************************)
THEOREM WireFilled == Spec => []Filled
<1>1. Inv => Filled
  <2>1. SUFFICES ASSUME Inv PROVE Filled
    OBVIOUS
  <2>2. DOMAIN sent = 1..Len(sent) /\ \A i \in 1..Len(sent) : FilledUp(sent[i])
    BY <2>1 DEF Inv, SentInv, Packets, Sound
  <2>. QED  BY <2>2 DEF Filled, FilledUp
<1>. QED  BY <1>1, WireInvariant, PTL

\* The fate of a message that has been read.
LEMMA SeenFate ==
    ASSUME Inv, NEW i \in DOMAIN seen
    PROVE  Fate(sent[i], dotu, seen[i]) /\ seen[i].ok
<1>1. i \in 1..Len(seen) /\ Len(seen) <= Len(sent) /\ Len(seen) \in Nat
  BY DEF Inv, SeenInv
<1>2. PICK junk \in Nat : seen[i].ok /\ seen[i] = np_deserialize(sent[i], dotu, junk)
  BY <1>1 DEF Inv, SeenInv
<1>3. i \in 1..Len(sent)
  BY <1>1 DEF Inv, SentInv, Packets
<1>4. Sound(sent[i], dotu)
  BY <1>3 DEF Inv, SentInv
<1>. QED  BY <1>2, <1>4 DEF Sound

(***************************************************************************)
(* Every argument of np_create_* arrives in its member of Npfcall, however *)
(* the bytes were cut into pieces and whatever the lengths are.            *)
(***************************************************************************)
THEOREM WireRoundTrip == Spec => []RoundTrip
<1>1. Inv => RoundTrip
  <2>1. SUFFICES ASSUME Inv, NEW i \in DOMAIN seen, Read(i), ~Unlike(sent[i]),
                        NEW f \in sent[i].want \ {<<"size", 0>>}
                 PROVE  <<f, f>> \in seen[i].got
    BY DEF RoundTrip
  <2>2. Fate(sent[i], dotu, seen[i]) /\ seen[i].ok
    BY <2>1, SeenFate
  <2>. QED  BY <2>1, <2>2 DEF Fate, Read, Unlike, NotAlike
<1>. QED  BY <1>1, WireInvariant, PTL

(***************************************************************************)
(* The receiver gives up only on a message that came short, one it does    *)
(* not know, or one of those the two sides lay out differently.            *)
(***************************************************************************)
THEOREM WireRefused == Spec => []RefusedRightly
<1>1. Inv => RefusedRightly
  <2>1. SUFFICES ASSUME Inv, pc = "refused" PROVE RefusedRightly
    BY DEF RefusedRightly
  <2>2. PICK i : i = Len(seen) + 1
    OBVIOUS
  <2>3. /\ Len(seen) < Len(sent) /\ Start(i) = base
        /\ sent[i].cut > 0 \/ sent[i].t = "Tlerror" \/ NotAlike(sent[i], dotu)
    BY <2>1, <2>2, StartIs DEF Inv, PlaceInv, LoopInv
  <2>4. Len(seen) \in Nat /\ Len(sent) \in Nat /\ DOMAIN sent = 1..Len(sent)
    BY <2>1 DEF Inv, SentInv, SeenInv, Packets
  <2>5. i \in DOMAIN sent
    BY <2>2, <2>3, <2>4
  <2>6. sent[i].cut > 0 \/ sent[i].t = "Tlerror" \/ Unlike(sent[i])
    BY <2>3 DEF NotAlike, Unlike
  <2>. QED  BY <2>3, <2>5, <2>6 DEF RefusedRightly
<1>. QED  BY <1>1, WireInvariant, PTL

(***************************************************************************)
(* A message that lacks its end is read only if it ends where a field      *)
(* does: buf_check_size sees every other one.                              *)
(***************************************************************************)
THEOREM WireCutSeen == Spec => []CutSeen
<1>1. Inv => CutSeen
  <2>1. SUFFICES ASSUME Inv, NEW i \in DOMAIN seen, sent[i].cut > 0
                 PROVE  \/ EndsField(sent[i]) \/ NoLength(sent[i])
                        \/ sent[i].t \in {"Rstatfs", "Rgetlock"}
    BY DEF CutSeen, EndsField
  <2>2. Fate(sent[i], dotu, seen[i]) /\ seen[i].ok
    BY <2>1, SeenFate
  <2>. QED  BY <2>1, <2>2 DEF Fate
<1>. QED  BY <1>1, WireInvariant, PTL

(***************************************************************************)
(* The records np_serialize_stat and np_serialize_dirent pack into a reply *)
(* are whole, and np_deserialize_stat finds every stat where it was put;   *)
(* but an empty muid that does not fit is lost.                            *)
(***************************************************************************)
THEOREM WireDirWhole == Spec => []DirWhole
<1>1. Inv => DirWhole
  BY DEF Inv
<1>. QED  BY <1>1, WireInvariant, PTL
=============================================================================
