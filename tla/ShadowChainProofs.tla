-------------------------- MODULE ShadowChainProofs --------------------------
(***************************************************************************)
(* What the operators of ShadowRead that walk a chain compute: Chain, Size *)
(* and Contents, in buffers linked only forward.                           *)
(***************************************************************************)
EXTENDS ShadowRead, SequenceTheorems, WellFoundedInduction, TLAPS

Mbuf == [off : Nat, len : Nat, next : Pointers, pkt : Nat]
Byte == Bufs \X Nat

\* A buffer is linked to the one filled after it, or to none.
Links(m) == m \in [Bufs -> Mbuf] /\ \A b \in Bufs : m[b].next \in {NULL, b + 1}

-----------------------------------------------------------------------------
(* Induction.                                                              *)

\* Every non-empty set of natural numbers has a least element.
LEMMA Least ==
  ASSUME NEW T, T \subseteq Nat, T # {}
  PROVE  \E x \in T : \A y \in T : x <= y
<1> DEFINE R == OpToRel(<, Nat)
<1>1. IsWellFoundedOn(R, Nat)
  BY NatLessThanWellFounded
<1>2. \A x, y \in Nat : x < y => <<x, y>> \in R
  BY DEF OpToRel
<1> HIDE DEF R
<1>3. PICK x \in T : \A y \in T : ~(<<y, x>> \in R)
  BY <1>1, WFMin
<1>4. ASSUME NEW y \in T PROVE x <= y
  <2>1. x \in Nat /\ y \in Nat /\ ~(y < x)
    BY <1>2, <1>3
  <2> QED BY <2>1
<1> QED BY <1>4

\* Induction from the end of an interval to its beginning, as a statement on sets.
LEMMA Down ==
  ASSUME NEW a \in Nat, NEW e \in Nat, NEW S, e \in S,
         \A b \in a .. e - 1 : b + 1 \in S => b \in S
  PROVE  a .. e \subseteq S
<1> SUFFICES ASSUME NEW x \in a .. e, x \notin S PROVE FALSE
  OBVIOUS
<1> DEFINE T == {d \in Nat : d <= e - a /\ e - d \notin S}
<1>1. e - x \in Nat /\ e - x <= e - a /\ e - (e - x) = x
  OBVIOUS
<1>2. T \subseteq Nat /\ e - x \in T
  BY <1>1
<1>3. PICK d \in T : \A y \in T : d <= y
  <2> HIDE DEF T
  <2> QED BY <1>2, Least
<1>4. d \in Nat /\ d <= e - a /\ e - d \notin S
  BY <1>3
<1>5. d # 0
  BY <1>4
<1>6. d - 1 \in Nat /\ d - 1 \notin T
  BY <1>3, <1>4, <1>5
<1>7. e - (d - 1) \in S
  BY <1>4, <1>6
<1>8. e - (d - 1) = (e - d) + 1 /\ e - d \in a .. e - 1
  BY <1>4, <1>5
<1> QED BY <1>4, <1>7, <1>8

-----------------------------------------------------------------------------
(* A function of the pointers that is given at NULL and, at a buffer, by   *)
(* what it is at the next one.                                             *)

Follows(f, z, next, g) == f[NULL] = z /\ \A b \in Bufs : f[b] = g[<<b, f[next[b]]>>]

LEMMA FollowsExists ==
  ASSUME NEW V, NEW z \in V, NEW g \in [Bufs \X V -> V], NEW next,
         \A b \in Bufs : next[b] \in Pointers /\ next[b] \in {NULL, b + 1}
  PROVE  \E f \in [Pointers -> V] : Follows(f, z, next, g)
<1> USE ShadowReadAssumption DEF NULL, Bufs, Pointers
<1> DEFINE P(f, b) == /\ f[NULL] = z
                      /\ \A i \in b .. MaxBufs : f[i] = g[<<i, f[next[i]]>>]
           S == {b \in 1 .. MaxBufs + 1 : \E f \in [Pointers -> V] : P(f, b)}
<1>0. MaxBufs \in Nat /\ MaxBufs >= 1
  OBVIOUS
<1>1. MaxBufs + 1 \in S
  <2> DEFINE f == [i \in Pointers |-> z]
  <2>1. f \in [Pointers -> V] /\ P(f, MaxBufs + 1)
    BY <1>0
  <2> QED BY <1>0, <2>1
<1>2. ASSUME NEW b \in 1 .. MaxBufs, b + 1 \in S PROVE b \in S
  <2>1. PICK f \in [Pointers -> V] : P(f, b + 1)
    BY <1>2
  <2> DEFINE h == [f EXCEPT ![b] = g[<<b, f[next[b]]>>]]
  <2>2. next[b] \in Pointers /\ next[b] # b /\ <<b, f[next[b]]>> \in Bufs \X V
    BY <1>0
  <2>3. h \in [Pointers -> V] /\ h[b] = g[<<b, f[next[b]]>>]
    BY <1>0, <2>2
  <2>4. \A i \in Pointers : i # b => h[i] = f[i]
    BY <1>0
  <2>5. h[next[b]] = f[next[b]]
    BY <2>2, <2>4
  <2> HIDE DEF h
  <2>6. ASSUME NEW i \in b .. MaxBufs PROVE h[i] = g[<<i, h[next[i]]>>]
    <3>1. CASE i = b
      BY <3>1, <2>3, <2>5
    <3>2. CASE i # b
      <4>1. i \in b + 1 .. MaxBufs /\ i \in Bufs
        BY <1>0, <3>2
      <4>2. next[i] \in Pointers /\ next[i] # b
        BY <1>0, <4>1
      <4>3. h[i] = f[i] /\ h[next[i]] = f[next[i]]
        BY <1>0, <3>2, <4>1, <4>2, <2>4
      <4> QED BY <4>1, <4>3, <2>1
    <3> QED BY <3>1, <3>2
  <2>7. h[NULL] = z
    BY <1>0, <2>1, <2>4
  <2>8. b \in 1 .. MaxBufs + 1
    BY <1>0
  <2> QED BY <2>3, <2>6, <2>7, <2>8
<1> HIDE DEF S
<1>3. 1 .. MaxBufs + 1 \subseteq S
  <2>1. PICK e \in Nat : e = MaxBufs + 1
    BY <1>0
  <2>2. e \in S /\ \A b \in 1 .. e - 1 : b + 1 \in S => b \in S
    BY <1>0, <1>1, <1>2, <2>1
  <2>3. 1 .. e \subseteq S
    BY <2>2, Down
  <2> QED BY <2>1, <2>3
<1>4. 1 \in S
  BY <1>0, <1>3
<1> QED BY <1>4 DEF S, Follows

\* What such a function yields stays in the set its steps stay in.
LEMMA FollowsTyped ==
  ASSUME NEW V, NEW f, f[NULL] \in V, NEW next,
         \A b \in Bufs : next[b] \in Pointers /\ next[b] \in {NULL, b + 1},
         \A b \in Bufs : f[next[b]] \in V => f[b] \in V
  PROVE  \A p \in Pointers : f[p] \in V
<1> USE ShadowReadAssumption DEF NULL, Bufs, Pointers
<1>0. MaxBufs \in Nat /\ MaxBufs >= 1
  OBVIOUS
<1> DEFINE S == {b \in 1 .. MaxBufs : f[b] \in V}
<1>1. MaxBufs \in S
  <2>1. MaxBufs \in Bufs /\ MaxBufs + 1 \notin Pointers
    BY <1>0
  <2>2. next[MaxBufs] = NULL
    BY <2>1
  <2> QED BY <1>0, <2>1, <2>2
<1>2. \A b \in 1 .. MaxBufs - 1 : b + 1 \in S => b \in S
  <2> SUFFICES ASSUME NEW b \in 1 .. MaxBufs - 1, b + 1 \in S PROVE b \in S
    OBVIOUS
  <2>1. b \in Bufs
    BY <1>0
  <2>2. f[next[b]] \in V
    BY <2>1
  <2> QED BY <1>0, <2>1, <2>2
<1> HIDE DEF S
<1>3. 1 .. MaxBufs \subseteq S
  BY <1>0, <1>1, <1>2, Down
<1> QED BY <1>0, <1>3 DEF S

-----------------------------------------------------------------------------
(* The three walks.                                                        *)

LEMMA NextOf ==
  ASSUME NEW m, Links(m)
  PROVE  \A b \in Bufs : /\ m[b].next \in Pointers /\ m[b].next \in {NULL, b + 1}
                         /\ m[b].len \in Nat /\ m[b].off \in Nat /\ m[b].pkt \in Nat
  BY DEF Links, Mbuf

SizeFcn(m) ==
  CHOOSE n : n = [i \in Pointers |-> IF i = NULL THEN 0 ELSE m[i].len + n[m[i].next]]

LEMMA SizeUnfolds ==
  ASSUME NEW m, Links(m)
  PROVE  /\ Size(m, NULL) = 0
         /\ \A b \in Bufs : Size(m, b) = m[b].len + Size(m, m[b].next)
         /\ \A p \in Pointers : Size(m, p) \in Nat
<1> USE ShadowReadAssumption
<1> DEFINE next == [b \in Bufs |-> m[b].next]
           g == [x \in Bufs \X Nat |-> m[x[1]].len + x[2]]
           E(n) == [i \in Pointers |-> IF i = NULL THEN 0 ELSE m[i].len + n[m[i].next]]
<1>1. /\ \A b \in Bufs : next[b] \in Pointers /\ next[b] \in {NULL, b + 1}
      /\ \A b \in Bufs : next[b] = m[b].next /\ m[b].len \in Nat
  BY NextOf
<1>2. g \in [Bufs \X Nat -> Nat] /\ \A b \in Bufs, v \in Nat : g[<<b, v>>] = m[b].len + v
  BY <1>1
<1> HIDE DEF next, g
<1>3. PICK f \in [Pointers -> Nat] : Follows(f, 0, next, g)
  BY <1>1, <1>2, FollowsExists
<1>4. f = E(f)
  <2>1. ASSUME NEW i \in Pointers
        PROVE  f[i] = IF i = NULL THEN 0 ELSE m[i].len + f[m[i].next]
    <3>1. CASE i = NULL
      BY <3>1, <1>3 DEF Follows
    <3>2. CASE i # NULL
      <4>1. i \in Bufs
        BY <3>2 DEF Bufs, Pointers, NULL
      <4>2. f[next[i]] \in Nat
        BY <1>1, <4>1
      <4>3. f[i] = g[<<i, f[next[i]]>>]
        BY <1>3, <4>1 DEF Follows
      <4> QED BY <1>1, <1>2, <3>2, <4>1, <4>2, <4>3
    <3> QED BY <3>1, <3>2
  <2> QED BY <2>1
<1>5. SizeFcn(m) = E(SizeFcn(m))
  BY <1>4 DEF SizeFcn
<1>6. \A p : Size(m, p) = SizeFcn(m)[p]
  BY Zenon DEF Size, SizeFcn
<1> DEFINE n == SizeFcn(m)
<1>7. n[NULL] = 0 /\ \A b \in Bufs : n[b] = m[b].len + n[m[b].next]
  <2>1. \A i \in Pointers : n[i] = IF i = NULL THEN 0 ELSE m[i].len + n[m[i].next]
    BY <1>5
  <2>2. NULL \in Pointers /\ \A b \in Bufs : b \in Pointers /\ b # NULL
    BY DEF Pointers, Bufs, NULL
  <2> QED BY <2>1, <2>2
<1>8. \A p \in Pointers : n[p] \in Nat
  <2>1. \A b \in Bufs : n[next[b]] \in Nat => n[b] \in Nat
    BY <1>1, <1>7
  <2>2. n[NULL] \in Nat
    BY <1>7
  <2> HIDE DEF n
  <2> QED BY <1>1, <2>1, <2>2, FollowsTyped
<1> QED BY <1>6, <1>7, <1>8

Cat(s, t) == s \o t

ChainFcn(m) ==
  CHOOSE c : c = [i \in Pointers |-> IF i = NULL THEN <<>> ELSE <<i>> \o c[m[i].next]]

LEMMA ChainUnfolds ==
  ASSUME NEW m, Links(m)
  PROVE  /\ Chain(m, NULL) = <<>>
         /\ \A b \in Bufs : Chain(m, b) = <<b>> \o Chain(m, m[b].next)
         /\ \A p \in Pointers : Chain(m, p) \in Seq(Bufs)
<1> USE ShadowReadAssumption
<1> DEFINE next == [b \in Bufs |-> m[b].next]
           V == Seq(Bufs)
           g == [x \in Bufs \X V |-> Cat(<<x[1]>>, x[2])]
           E(n) == [i \in Pointers |-> IF i = NULL THEN <<>> ELSE Cat(<<i>>, n[m[i].next])]
<1>1. /\ \A b \in Bufs : next[b] \in Pointers /\ next[b] \in {NULL, b + 1}
      /\ \A b \in Bufs : next[b] = m[b].next
  BY NextOf
<1>2. \A b \in Bufs, v \in V : Cat(<<b>>, v) \in V
  BY DEF Cat
<1>3. <<>> \in V
  OBVIOUS
<1> HIDE DEF V
<1>4. g \in [Bufs \X V -> V] /\ \A b \in Bufs, v \in V : g[<<b, v>>] = Cat(<<b>>, v)
  BY <1>2
<1> HIDE DEF next, g
<1>5. PICK f \in [Pointers -> V] : Follows(f, <<>>, next, g)
  BY <1>1, <1>3, <1>4, FollowsExists
<1>6. f = E(f)
  <2>1. ASSUME NEW i \in Pointers
        PROVE  f[i] = IF i = NULL THEN <<>> ELSE Cat(<<i>>, f[m[i].next])
    <3>1. CASE i = NULL
      BY <3>1, <1>5 DEF Follows
    <3>2. CASE i # NULL
      <4>1. i \in Bufs
        BY <3>2 DEF Bufs, Pointers, NULL
      <4>2. f[next[i]] \in V
        BY <1>1, <4>1
      <4>3. f[i] = g[<<i, f[next[i]]>>]
        BY <1>5, <4>1 DEF Follows
      <4> QED BY <1>1, <1>4, <3>2, <4>1, <4>2, <4>3
    <3> QED BY <3>1, <3>2
  <2> QED BY <2>1
<1>7. ChainFcn(m) = E(ChainFcn(m))
  BY <1>6, Zenon DEF ChainFcn, Cat
<1>8. \A p : Chain(m, p) = ChainFcn(m)[p]
  BY Zenon DEF Chain, ChainFcn
<1> DEFINE n == ChainFcn(m)
<1>9. n[NULL] = <<>> /\ \A b \in Bufs : n[b] = Cat(<<b>>, n[m[b].next])
  <2>1. \A i \in Pointers : n[i] = IF i = NULL THEN <<>> ELSE Cat(<<i>>, n[m[i].next])
    BY <1>7
  <2>2. NULL \in Pointers /\ \A b \in Bufs : b \in Pointers /\ b # NULL
    BY DEF Pointers, Bufs, NULL
  <2> QED BY <2>1, <2>2
<1>10. \A p \in Pointers : n[p] \in V
  <2> HIDE DEF n
  <2>1. ASSUME NEW b \in Bufs, n[next[b]] \in V PROVE n[b] \in V
    <3>1. n[b] = Cat(<<b>>, n[next[b]])
      BY <1>1, <1>9
    <3> QED BY <1>2, <2>1, <3>1
  <2>2. n[NULL] \in V
    BY <1>3, <1>9
  <2> QED BY <1>1, <2>1, <2>2, FollowsTyped
<1> QED BY <1>8, <1>9, <1>10 DEF Cat, V

ContentsFcn(m) ==
  CHOOSE c : c = [i \in Pointers |-> IF i = NULL THEN <<>> ELSE Bytes(m, i) \o c[m[i].next]]

LEMMA BytesTyped ==
  ASSUME NEW m, Links(m), NEW b \in Bufs
  PROVE  Bytes(m, b) \in Seq(Byte) /\ Len(Bytes(m, b)) = m[b].len
<1>1. m[b].len \in Nat /\ m[b].off \in Nat
  BY NextOf
<1>2. \A j \in 1 .. m[b].len : <<b, m[b].off + j>> \in Byte
  BY <1>1 DEF Byte
<1> QED BY <1>1, <1>2 DEF Bytes

LEMMA ContentsUnfolds ==
  ASSUME NEW m, Links(m)
  PROVE  /\ Contents(m, NULL) = <<>>
         /\ \A b \in Bufs : Contents(m, b) = Bytes(m, b) \o Contents(m, m[b].next)
         /\ \A p \in Pointers : Contents(m, p) \in Seq(Byte)
<1> USE ShadowReadAssumption
<1> DEFINE next == [b \in Bufs |-> m[b].next]
           V == Seq(Byte)
           g == [x \in Bufs \X V |-> Cat(Bytes(m, x[1]), x[2])]
           E(n) == [i \in Pointers |-> IF i = NULL THEN <<>> ELSE Cat(Bytes(m, i), n[m[i].next])]
<1>1. /\ \A b \in Bufs : next[b] \in Pointers /\ next[b] \in {NULL, b + 1}
      /\ \A b \in Bufs : next[b] = m[b].next
  BY NextOf
<1>2. \A b \in Bufs, v \in V : Cat(Bytes(m, b), v) \in V
  BY BytesTyped, ConcatProperties DEF Cat
<1>3. <<>> \in V
  OBVIOUS
<1> HIDE DEF V
<1>4. g \in [Bufs \X V -> V] /\ \A b \in Bufs, v \in V : g[<<b, v>>] = Cat(Bytes(m, b), v)
  BY <1>2
<1> HIDE DEF next, g
<1>5. PICK f \in [Pointers -> V] : Follows(f, <<>>, next, g)
  BY <1>1, <1>3, <1>4, FollowsExists
<1>6. f = E(f)
  <2>1. ASSUME NEW i \in Pointers
        PROVE  f[i] = IF i = NULL THEN <<>> ELSE Cat(Bytes(m, i), f[m[i].next])
    <3>1. CASE i = NULL
      BY <3>1, <1>5 DEF Follows
    <3>2. CASE i # NULL
      <4>1. i \in Bufs
        BY <3>2 DEF Bufs, Pointers, NULL
      <4>2. f[next[i]] \in V
        BY <1>1, <4>1
      <4>3. f[i] = g[<<i, f[next[i]]>>]
        BY <1>5, <4>1 DEF Follows
      <4> QED BY <1>1, <1>4, <3>2, <4>1, <4>2, <4>3
    <3> QED BY <3>1, <3>2
  <2> QED BY <2>1
<1>7. ContentsFcn(m) = E(ContentsFcn(m))
  BY <1>6, Zenon DEF ContentsFcn, Cat
<1>8. \A p : Contents(m, p) = ContentsFcn(m)[p]
  BY Zenon DEF Contents, ContentsFcn
<1> DEFINE n == ContentsFcn(m)
<1>9. n[NULL] = <<>> /\ \A b \in Bufs : n[b] = Cat(Bytes(m, b), n[m[b].next])
  <2>1. \A i \in Pointers : n[i] = IF i = NULL THEN <<>> ELSE Cat(Bytes(m, i), n[m[i].next])
    BY <1>7
  <2>2. NULL \in Pointers /\ \A b \in Bufs : b \in Pointers /\ b # NULL
    BY DEF Pointers, Bufs, NULL
  <2> QED BY <2>1, <2>2
<1>10. \A p \in Pointers : n[p] \in V
  <2> HIDE DEF n
  <2>1. ASSUME NEW b \in Bufs, n[next[b]] \in V PROVE n[b] \in V
    <3>1. n[b] = Cat(Bytes(m, b), n[next[b]])
      BY <1>1, <1>9
    <3> QED BY <1>2, <2>1, <3>1
  <2>2. n[NULL] \in V
    BY <1>3, <1>9
  <2> QED BY <1>1, <2>1, <2>2, FollowsTyped
<1> QED BY <1>8, <1>9, <1>10 DEF Cat, V

-----------------------------------------------------------------------------
(* Chains are intervals of buffers.                                        *)

\* The chain from a ends with e.
Row(m, a, e) == /\ a \in Bufs /\ e \in Bufs /\ a <= e
                /\ m[e].next = NULL /\ \A b \in a .. e - 1 : m[b].next = b + 1

Ints(a, e) == [i \in 1 .. e - a + 1 |-> a + i - 1]

LEMMA BufsAre == /\ MaxBufs \in Nat /\ MaxBufs >= 1 /\ Bufs \subseteq Nat \ {0}
                 /\ \A b : b \in Bufs <=> b \in Nat /\ 1 <= b /\ b <= MaxBufs
                 /\ \A b : b \in Pointers <=> b = NULL \/ b \in Bufs
                 /\ NULL \notin Bufs /\ NULL = 0
  BY ShadowReadAssumption DEF Bufs, Pointers, NULL

LEMMA RowBounds ==
  ASSUME NEW m, NEW a, NEW e, Row(m, a, e)
  PROVE  a \in Nat /\ e \in Nat /\ 1 <= a /\ a <= e /\ e <= MaxBufs /\ a .. e \subseteq Bufs
<1>1. a \in Nat /\ e \in Nat /\ 1 <= a /\ a <= e /\ e <= MaxBufs
  BY BufsAre DEF Row
<1>2. \A b \in a .. e : b \in Bufs
  BY <1>1, BufsAre
<1> QED BY <1>1, <1>2

LEMMA RowExists ==
  ASSUME NEW m, Links(m), NEW p \in Bufs
  PROVE  \E e \in Bufs : Row(m, p, e)
<1> DEFINE T == {b \in Bufs : p <= b /\ m[b].next = NULL}
<1>1. m[MaxBufs].next = NULL
  <2>1. MaxBufs \in Bufs /\ MaxBufs + 1 \notin Pointers
    BY BufsAre
  <2> QED BY <2>1, NextOf
<1>2. T \subseteq Nat /\ MaxBufs \in T
  BY <1>1, BufsAre
<1>3. PICK e \in T : \A y \in T : e <= y
  <2> HIDE DEF T
  <2> QED BY <1>2, Least
<1>4. ASSUME NEW b \in p .. e - 1 PROVE m[b].next = b + 1
  <2>1. b \in Bufs /\ b \notin T
    BY <1>3, BufsAre
  <2> QED BY <2>1, NextOf
<1> QED BY <1>3, <1>4 DEF Row

LEMMA RowTail ==
  ASSUME NEW m, NEW a, NEW e, Row(m, a, e), NEW b \in a .. e
  PROVE  Row(m, b, e)
  BY BufsAre DEF Row

LEMMA RowUnique ==
  ASSUME NEW m, NEW a, NEW e, NEW d, Row(m, a, e), Row(m, a, d)
  PROVE  e = d
<1>1. a \in Nat /\ e \in Nat /\ d \in Nat /\ a <= e /\ a <= d /\ NULL = 0
  BY BufsAre DEF Row
<1>2. CASE e < d
  <2>1. e \in a .. d - 1 /\ m[e].next = 0 /\ m[e].next = e + 1
    BY <1>1, <1>2 DEF Row
  <2> QED BY <1>1, <2>1
<1>3. CASE d < e
  <2>1. d \in a .. e - 1 /\ m[d].next = 0 /\ m[d].next = d + 1
    BY <1>1, <1>3 DEF Row
  <2> QED BY <1>1, <2>1
<1> QED BY <1>1, <1>2, <1>3

\* A chain is known by its links only.
LEMMA RowKept ==
  ASSUME NEW m, NEW h, NEW a, NEW e, Row(m, a, e), \A b \in a .. e : h[b].next = m[b].next
  PROVE  Row(h, a, e)
<1>1. a \in Nat /\ e \in Nat /\ a <= e
  BY BufsAre DEF Row
<1> QED BY <1>1 DEF Row

\* Two sequences are equal when their elements are.
LEMMA SameSeq ==
  ASSUME NEW S, NEW s \in Seq(S), NEW t \in Seq(S), NEW l \in Nat, Len(s) = l, Len(t) = l,
         \A i \in 1 .. l : s[i] = t[i]
  PROVE  s = t
<1>1. s \in [1 .. l -> S] /\ t \in [1 .. l -> S]
  BY LenProperties
<1> QED BY <1>1

LEMMA IntsGrow ==
  ASSUME NEW b \in Nat, NEW e \in Nat, b < e
  PROVE  Cat(<<b>>, Ints(b + 1, e)) = Ints(b, e)
<1>1. PICK l \in Nat : l = e - b
  OBVIOUS
<1> DEFINE s == Ints(b + 1, e)
           t == Ints(b, e)
<1>2. s = [i \in 1 .. l |-> b + i] /\ t = [i \in 1 .. l + 1 |-> b + i - 1]
  <2>1. e - (b + 1) + 1 = l /\ e - b + 1 = l + 1
    BY <1>1
  <2>2. \A i \in 1 .. l : (b + 1) + i - 1 = b + i
    OBVIOUS
  <2> QED BY <2>1, <2>2 DEF Ints
<1> HIDE DEF s, t
<1>3. s \in Seq(Nat) /\ Len(s) = l /\ t \in Seq(Nat) /\ Len(t) = l + 1
  BY <1>2
<1>4. <<b>> \in Seq(Nat) /\ Len(<<b>>) = 1 /\ <<b>>[1] = b
  OBVIOUS
<1>5. /\ <<b>> \o s \in Seq(Nat) /\ Len(<<b>> \o s) = 1 + l
      /\ \A i \in 1 .. 1 + l : (<<b>> \o s)[i] = IF i <= 1 THEN <<b>>[i] ELSE s[i - 1]
  BY <1>3, <1>4, ConcatProperties
<1>6. ASSUME NEW i \in 1 .. l + 1 PROVE (<<b>> \o s)[i] = t[i]
  <2>1. CASE i = 1
    BY <1>2, <1>4, <1>5, <2>1
  <2>2. CASE i # 1
    <3>1. i - 1 \in 1 .. l /\ ~(i <= 1)
      BY <2>2
    <3>2. (<<b>> \o s)[i] = s[i - 1]
      BY <1>5, <3>1
    <3> QED BY <1>2, <3>1, <3>2
  <2> QED BY <2>1, <2>2
<1> DEFINE u == Cat(<<b>>, s)
<1>7. /\ u \in Seq(Nat) /\ Len(u) = l + 1
      /\ \A i \in 1 .. l + 1 : u[i] = t[i]
  BY <1>5, <1>6 DEF Cat
<1> HIDE DEF u
<1>8. l + 1 \in Nat
  OBVIOUS
<1>9. u = t
  BY <1>3, <1>7, <1>8, SameSeq
<1> QED BY <1>9 DEF u, s, t

LEMMA RowChain ==
  ASSUME NEW m, Links(m), NEW a, NEW e, Row(m, a, e)
  PROVE  Chain(m, a) = Ints(a, e)
<1>0. a \in Nat /\ e \in Nat /\ a <= e /\ e \in Bufs /\ a .. e \subseteq Bufs
  BY BufsAre DEF Row
<1> DEFINE S == {b \in a .. e : Chain(m, b) = Ints(b, e)}
<1>1. e \in S
  <2>1. Chain(m, e) = <<e>> \o <<>>
    BY <1>0, ChainUnfolds DEF Row
  <2>2. <<e>> \o <<>> = <<e>>
    OBVIOUS
  <2>3. Ints(e, e) = [i \in 1 .. 1 |-> e]
    BY <1>0 DEF Ints
  <2>4. [i \in 1 .. 1 |-> e] = <<e>>
    OBVIOUS
  <2> QED BY <1>0, <2>1, <2>2, <2>3, <2>4
<1>2. ASSUME NEW b \in a .. e - 1, b + 1 \in S PROVE b \in S
  <2>1. Chain(m, b) = Cat(<<b>>, Chain(m, b + 1))
    BY <1>0, ChainUnfolds DEF Row, Cat
  <2>2. Chain(m, b) = Cat(<<b>>, Ints(b + 1, e))
    BY <1>2, <2>1
  <2>3. b \in Nat /\ b < e
    BY <1>0
  <2>4. Chain(m, b) = Ints(b, e)
    BY <1>0, <2>2, <2>3, IntsGrow
  <2> QED BY <1>0, <2>4
<1> HIDE DEF S
<1>3. a .. e \subseteq S
  BY <1>0, <1>1, <1>2, Down
<1> QED BY <1>0, <1>3 DEF S

LEMMA RowLinked ==
  ASSUME NEW m, Links(m), NEW a, NEW e, Row(m, a, e)
  PROVE  Linked(m, a) = a .. e /\ Last(Chain(m, a)) = e
<1>0. a \in Nat /\ e \in Nat /\ a <= e
  BY BufsAre DEF Row
<1>1. PICK l \in Nat : l = e - a + 1 /\ l >= 1
  BY <1>0
<1>2. PICK s : s = [i \in 1 .. l |-> a + i - 1]
  OBVIOUS
<1>3. Chain(m, a) = s
  BY <1>1, <1>2, RowChain DEF Ints
<1>4. s \in Seq(Nat) /\ Len(s) = l /\ DOMAIN s = 1 .. l
  BY <1>0, <1>1, <1>2
<1>5. Linked(m, a) = {s[i] : i \in DOMAIN s}
  BY <1>3 DEF Linked, ToSet
<1>6. \A b \in a .. e : b - a + 1 \in 1 .. l /\ s[b - a + 1] = b
  BY <1>0, <1>1, <1>2
<1>7. \A i \in 1 .. l : s[i] \in a .. e
  BY <1>0, <1>1, <1>2
<1>8. Linked(m, a) = a .. e
  BY <1>4, <1>5, <1>6, <1>7
<1>9. Last(Chain(m, a)) = s[l]
  BY <1>3, <1>4 DEF Last
<1> QED BY <1>0, <1>1, <1>2, <1>8, <1>9

LEMMA NoneLinked == ASSUME NEW m, Links(m) PROVE Linked(m, NULL) = {}
<1>1. Chain(m, NULL) = <<>>
  BY ChainUnfolds
<1> QED BY <1>1 DEF Linked, ToSet

\* Without naming its end: a chain stays above its first buffer and in the buffers.
LEMMA LinkedAre ==
  ASSUME NEW m, Links(m), NEW p \in Pointers
  PROVE  Linked(m, p) \subseteq Bufs
<1>1. CASE p = NULL
  BY <1>1, NoneLinked
<1>2. CASE p # NULL
  <2>1. p \in Bufs
    BY <1>2, BufsAre
  <2>2. PICK e \in Bufs : Row(m, p, e)
    BY <2>1, RowExists
  <2>3. Linked(m, p) = p .. e
    BY <2>2, RowLinked
  <2> QED BY <2>1, <2>3, BufsAre
<1> QED BY <1>1, <1>2

LEMMA RowSize ==
  ASSUME NEW m, Links(m), NEW a, NEW e, Row(m, a, e)
  PROVE  /\ \A b \in a .. e - 1 : Size(m, b) = m[b].len + Size(m, b + 1)
         /\ Size(m, e) = m[e].len
         /\ \A b \in a .. e : Size(m, b) \in Nat /\ Size(m, m[b].next) \in Nat /\ m[b].len \in Nat
<1>0. a \in Nat /\ e \in Nat /\ a <= e /\ e \in Bufs /\ a .. e \subseteq Bufs
  BY BufsAre DEF Row
<1>1. Size(m, NULL) = 0 /\ \A b \in Bufs : Size(m, b) = m[b].len + Size(m, m[b].next)
  BY SizeUnfolds
<1>2. \A b \in Bufs : Size(m, b) \in Nat /\ Size(m, m[b].next) \in Nat /\ m[b].len \in Nat
  BY SizeUnfolds, NextOf, BufsAre
<1>3. \A b \in a .. e - 1 : Size(m, b) = m[b].len + Size(m, b + 1)
  <2> TAKE b \in a .. e - 1
  <2>1. b \in Bufs /\ m[b].next = b + 1
    BY <1>0 DEF Row
  <2> QED BY <1>1, <2>1
<1>4. Size(m, e) = m[e].len
  <2>1. m[e].next = NULL
    BY DEF Row
  <2> QED BY <1>0, <1>1, <1>2, <2>1
<1> QED BY <1>0, <1>2, <1>3, <1>4

-----------------------------------------------------------------------------
(* The bytes of the buffers a .. e, however they are linked.               *)

Relink(m, e) == [b \in Bufs |-> [m[b] EXCEPT !.next = IF b < e THEN b + 1 ELSE NULL]]
Span(m, a, e) == IF a > e THEN <<>> ELSE Contents(Relink(m, e), a)

LEMMA CatTyped ==
  ASSUME NEW S, NEW s \in Seq(S), NEW t \in Seq(S)
  PROVE  Cat(s, t) \in Seq(S) /\ Cat(<<>>, t) = t /\ Cat(s, <<>>) = s
<1>1. s \o t \in Seq(S)
  OBVIOUS
<1>2. <<>> \o t = t /\ s \o <<>> = s
  BY ConcatEmptySeq
<1> QED BY <1>1, <1>2 DEF Cat

LEMMA CatAssociates ==
  ASSUME NEW S, NEW s \in Seq(S), NEW t \in Seq(S), NEW u \in Seq(S)
  PROVE  Cat(Cat(s, t), u) = Cat(s, Cat(t, u))
  BY ConcatAssociative DEF Cat

LEMMA Relinked ==
  ASSUME NEW m, Links(m), NEW e \in Bufs
  PROVE  /\ Links(Relink(m, e))
         /\ \A b \in Bufs : /\ Bytes(Relink(m, e), b) = Bytes(m, b)
                            /\ Relink(m, e)[b].next = IF b < e THEN b + 1 ELSE NULL
<1> DEFINE r == Relink(m, e)
<1>1. ASSUME NEW b \in Bufs
      PROVE  /\ r[b] \in Mbuf /\ r[b].next = IF b < e THEN b + 1 ELSE NULL
             /\ r[b].len = m[b].len /\ r[b].off = m[b].off
  <2>1. m[b] \in Mbuf
    BY DEF Links
  <2>2. (IF b < e THEN b + 1 ELSE NULL) \in Pointers
    BY BufsAre
  <2>3. r[b] = [m[b] EXCEPT !.next = IF b < e THEN b + 1 ELSE NULL]
    BY DEF Relink
  <2> QED BY <2>1, <2>2, <2>3 DEF Mbuf
<1>2. r = [b \in Bufs |-> r[b]]
  BY DEF Relink
<1> HIDE DEF r
<1>3. Links(r)
  BY <1>1, <1>2 DEF Links
<1>4. \A b \in Bufs : Bytes(r, b) = Bytes(m, b)
  BY <1>1 DEF Bytes
<1> QED BY <1>1, <1>3, <1>4 DEF r

LEMMA SpanUnfolds ==
  ASSUME NEW m, Links(m), NEW e \in Pointers, NEW a \in Nat, a >= 1
  PROVE  /\ Span(m, a, e) \in Seq(Byte)
         /\ a > e => Span(m, a, e) = <<>>
         /\ a <= e => Span(m, a, e) = Cat(Bytes(m, a), Span(m, a + 1, e))
<1>0. e \in Nat
  BY BufsAre
<1>1. CASE a > e
  BY <1>0, <1>1 DEF Span
<1>2. CASE a <= e
  <2>0. e \in Bufs /\ a \in Bufs /\ a \in Pointers
    BY <1>0, <1>2, BufsAre
  <2> DEFINE r == Relink(m, e)
  <2>1. Links(r) /\ Bytes(r, a) = Bytes(m, a) /\ r[a].next = IF a < e THEN a + 1 ELSE NULL
    BY <2>0, Relinked
  <2>2. Span(m, a, e) = Contents(r, a)
    BY <1>0, <1>2 DEF Span
  <2> HIDE DEF r
  <2>3. /\ Contents(r, a) = Cat(Bytes(m, a), Contents(r, r[a].next))
        /\ Contents(r, a) \in Seq(Byte) /\ Contents(r, NULL) = <<>>
    BY <2>0, <2>1, ContentsUnfolds DEF Cat
  <2>4. Contents(r, r[a].next) = Span(m, a + 1, e)
    <3>1. CASE a < e
      <4>1. ~(a + 1 > e) /\ r[a].next = a + 1
        BY <1>0, <2>1, <3>1
      <4> QED BY <4>1 DEF Span, r
    <3>2. CASE ~(a < e)
      <4>1. a + 1 > e /\ r[a].next = NULL
        BY <1>0, <1>2, <2>1, <3>2
      <4> QED BY <4>1, <2>3 DEF Span
    <3> QED BY <3>1, <3>2
  <2> QED BY <1>0, <1>2, <2>2, <2>3, <2>4
<1> QED BY <1>0, <1>1, <1>2

LEMMA SpanSame ==
  ASSUME NEW m, Links(m), NEW h, Links(h), NEW e \in Pointers, NEW a \in Nat, a >= 1,
         \A b \in a .. e : Bytes(h, b) = Bytes(m, b)
  PROVE  Span(h, a, e) = Span(m, a, e)
<1>0. e \in Nat
  BY BufsAre
<1>1. CASE a > e
  BY <1>1, SpanUnfolds
<1>2. CASE a <= e
  <2> DEFINE S == {b \in a .. e : Span(h, b, e) = Span(m, b, e)}
  <2>1. e \in S
    <3>1. e + 1 > e /\ e <= e /\ e >= 1 /\ e + 1 \in Nat /\ e + 1 >= 1 /\ e \in a .. e
      BY <1>0, <1>2
    <3>2. Span(h, e, e) = Cat(Bytes(h, e), Span(h, e + 1, e)) /\ Span(h, e + 1, e) = <<>>
      BY <1>0, <3>1, SpanUnfolds
    <3>3. Span(m, e, e) = Cat(Bytes(m, e), Span(m, e + 1, e)) /\ Span(m, e + 1, e) = <<>>
      BY <1>0, <3>1, SpanUnfolds
    <3> QED BY <3>1, <3>2, <3>3
  <2>2. ASSUME NEW b \in a .. e - 1, b + 1 \in S PROVE b \in S
    <3>1. b \in Nat /\ b >= 1 /\ b <= e /\ b \in a .. e
      BY <1>0
    <3>2. Span(h, b, e) = Cat(Bytes(h, b), Span(h, b + 1, e))
      BY <3>1, SpanUnfolds
    <3>3. Span(m, b, e) = Cat(Bytes(m, b), Span(m, b + 1, e))
      BY <3>1, SpanUnfolds
    <3> QED BY <2>2, <3>1, <3>2, <3>3
  <2> HIDE DEF S
  <2>3. a .. e \subseteq S
    BY <1>0, <2>1, <2>2, Down
  <2>4. a \in S
    BY <1>0, <1>2, <2>3
  <2> QED BY <2>4 DEF S
<1> QED BY <1>0, <1>1, <1>2

LEMMA SpanSplits ==
  ASSUME NEW m, Links(m), NEW e \in Pointers, NEW d \in Nat, NEW a \in Nat, a >= 1,
         a <= d, d - 1 <= e
  PROVE  Span(m, a, e) = Cat(Span(m, a, d - 1), Span(m, d, e))
<1>0. e \in Nat /\ d - 1 \in Nat /\ d - 1 \in Pointers /\ d >= 1
  BY BufsAre
<1>1. PICK c \in Pointers : c = d - 1 /\ c \in Nat /\ d = c + 1 /\ c <= e
  BY <1>0
<1> DEFINE S == {b \in a .. d : Span(m, b, e) = Cat(Span(m, b, c), Span(m, d, e))}
<1>2. d \in S
  <2>1. Span(m, d, c) = <<>> /\ Span(m, d, e) \in Seq(Byte)
    BY <1>0, <1>1, SpanUnfolds
  <2>2. Cat(<<>>, Span(m, d, e)) = Span(m, d, e)
    BY <2>1, CatTyped
  <2>3. d \in a .. d
    OBVIOUS
  <2> QED BY <2>1, <2>2, <2>3
<1>3. ASSUME NEW b \in a .. d - 1, b + 1 \in S PROVE b \in S
  <2>1. b \in Nat /\ b >= 1 /\ b <= e /\ b <= c /\ b \in Bufs /\ b \in a .. d
    BY <1>0, <1>1, BufsAre
  <2>2. Span(m, b, e) = Cat(Bytes(m, b), Span(m, b + 1, e))
    BY <2>1, SpanUnfolds
  <2>3. Span(m, b, c) = Cat(Bytes(m, b), Span(m, b + 1, c))
    BY <1>1, <2>1, SpanUnfolds
  <2>4. PICK x \in Seq(Byte) : x = Bytes(m, b)
    BY <2>1, BytesTyped
  <2>5. PICK y \in Seq(Byte) : y = Span(m, b + 1, c)
    <3>1. b + 1 \in Nat /\ b + 1 >= 1
      BY <2>1
    <3> QED BY <1>1, <3>1, SpanUnfolds
  <2>6. PICK z \in Seq(Byte) : z = Span(m, d, e)
    BY <1>0, SpanUnfolds
  <2>7. Span(m, b + 1, e) = Cat(y, z)
    BY <1>3, <2>5, <2>6
  <2>8. Span(m, b, e) = Cat(x, Cat(y, z)) /\ Cat(Span(m, b, c), Span(m, d, e)) = Cat(Cat(x, y), z)
    BY <2>2, <2>3, <2>4, <2>5, <2>6, <2>7
  <2>9. Cat(Cat(x, y), z) = Cat(x, Cat(y, z))
    BY CatAssociates
  <2> QED BY <2>1, <2>8, <2>9
<1> HIDE DEF S
<1>4. a .. d \subseteq S
  BY <1>2, <1>3, Down
<1>5. a \in S
  BY <1>4
<1> QED BY <1>1, <1>5 DEF S

LEMMA RowContents ==
  ASSUME NEW m, Links(m), NEW a, NEW e, Row(m, a, e)
  PROVE  Contents(m, a) = Span(m, a, e)
<1>0. a \in Nat /\ e \in Nat /\ a <= e /\ e \in Pointers /\ a .. e \subseteq Bufs /\ a >= 1
  BY BufsAre DEF Row
<1> DEFINE S == {b \in a .. e : Contents(m, b) = Span(m, b, e)}
<1>1. e \in S
  <2>1. e + 1 > e /\ e <= e /\ e >= 1 /\ e + 1 \in Nat /\ e + 1 >= 1 /\ e \in a .. e /\ e \in Bufs
    BY <1>0
  <2>2. Span(m, e, e) = Cat(Bytes(m, e), Span(m, e + 1, e)) /\ Span(m, e + 1, e) = <<>>
    BY <1>0, <2>1, SpanUnfolds
  <2>3. m[e].next = NULL
    BY DEF Row
  <2>4. Contents(m, e) = Cat(Bytes(m, e), Contents(m, m[e].next)) /\ Contents(m, NULL) = <<>>
    BY <2>1, ContentsUnfolds DEF Cat
  <2> QED BY <2>1, <2>2, <2>3, <2>4
<1>2. ASSUME NEW b \in a .. e - 1, b + 1 \in S PROVE b \in S
  <2>1. b \in Nat /\ b >= 1 /\ b <= e /\ b \in Bufs /\ b \in a .. e
    BY <1>0
  <2>2. Span(m, b, e) = Cat(Bytes(m, b), Span(m, b + 1, e))
    BY <1>0, <2>1, SpanUnfolds
  <2>3. m[b].next = b + 1
    BY DEF Row
  <2>4. Contents(m, b) = Cat(Bytes(m, b), Contents(m, m[b].next))
    BY <2>1, ContentsUnfolds DEF Cat
  <2> QED BY <1>2, <2>1, <2>2, <2>3, <2>4
<1> HIDE DEF S
<1>3. a .. e \subseteq S
  BY <1>0, <1>1, <1>2, Down
<1>4. a \in S
  BY <1>0, <1>3
<1> QED BY <1>4 DEF S

-----------------------------------------------------------------------------
(* A read that ends in buffer t, left bytes before its end.                *)

Piece(b, o, l) == [j \in 1 .. l |-> <<b, o + j>>]

LEMMA PieceTyped ==
  ASSUME NEW b \in Bufs, NEW o \in Nat, NEW l \in Nat
  PROVE  Piece(b, o, l) \in Seq(Byte) /\ Len(Piece(b, o, l)) = l
<1>1. \A j \in 1 .. l : <<b, o + j>> \in Byte
  BY DEF Byte
<1> QED BY <1>1 DEF Piece

LEMMA PieceJoins ==
  ASSUME NEW b \in Bufs, NEW o \in Nat, NEW l \in Nat, NEW k \in Nat
  PROVE  Cat(Piece(b, o, l), Piece(b, o + l, k)) = Piece(b, o, l + k)
<1>1. PICK s \in Seq(Byte) : s = Piece(b, o, l) /\ Len(s) = l
  BY PieceTyped
<1>2. PICK t \in Seq(Byte) : t = Piece(b, o + l, k) /\ Len(t) = k
  <2>1. o + l \in Nat
    OBVIOUS
  <2> QED BY <2>1, PieceTyped
<1>3. PICK n \in Nat : n = l + k
  OBVIOUS
<1>4. PICK u \in Seq(Byte) : u = Piece(b, o, n) /\ Len(u) = n
  BY PieceTyped
<1>c. /\ s \o t \in Seq(Byte) /\ Len(s \o t) = Len(s) + Len(t)
      /\ \A i \in 1 .. Len(s) + Len(t) :
           (s \o t)[i] = IF i <= Len(s) THEN s[i] ELSE t[i - Len(s)]
  BY ConcatProperties
<1>5. PICK v \in Seq(Byte) : /\ v = Cat(s, t) /\ Len(v) = n
                             /\ \A i \in 1 .. n : v[i] = IF i <= l THEN s[i] ELSE t[i - l]
  <2>1. \A i \in 1 .. n : (s \o t)[i] = IF i <= l THEN s[i] ELSE t[i - l]
    BY <1>1, <1>2, <1>3, <1>c, Zenon
  <2>2. Len(s \o t) = n
    BY <1>1, <1>2, <1>3, <1>c
  <2> QED BY <1>c, <2>1, <2>2, Zenon DEF Cat
<1>6. ASSUME NEW i \in 1 .. n PROVE v[i] = u[i]
  <2>1. u[i] = <<b, o + i>>
    BY <1>4 DEF Piece
  <2>2. CASE i <= l
    <3>0. i \in 1 .. l
      BY <2>2
    <3>1. v[i] = s[i] /\ i \in 1 .. l
      BY <1>5, <2>2, <3>0, Zenon
    <3>2. s[i] = <<b, o + i>>
      BY <1>1, <3>1 DEF Piece
    <3> QED BY <2>1, <3>1, <3>2
  <2>3. CASE ~(i <= l)
    <3>1. i - l \in 1 .. k /\ (o + l) + (i - l) = o + i
      BY <1>3, <2>3
    <3>2. t[i - l] = <<b, (o + l) + (i - l)>>
      BY <1>2, <3>1 DEF Piece
    <3> QED BY <1>5, <2>1, <2>3, <3>1, <3>2
  <2> QED BY <2>2, <2>3
<1>7. v = u
  BY <1>4, <1>5, <1>6, SameSeq
<1> QED BY <1>1, <1>2, <1>3, <1>4, <1>5, <1>7

\* The chain from a ends with t instead, left bytes before the end of t.
Cut(m, t, left) == [m EXCEPT ![t].len = @ - left, ![t].next = NULL]

LEMMA CutIs ==
  ASSUME NEW m, Links(m), NEW t \in Bufs, NEW left \in Nat, left <= m[t].len
  PROVE  /\ Links(Cut(m, t, left))
         /\ \A b \in Bufs \ {t} : Cut(m, t, left)[b] = m[b]
         /\ LET c == Cut(m, t, left)[t]
            IN c.next = NULL /\ c.len = m[t].len - left /\ c.off = m[t].off
<1> DEFINE h == Cut(m, t, left)
<1>1. m \in [Bufs -> Mbuf] /\ m[t] \in Mbuf /\ m[t].len - left \in Nat /\ NULL \in Pointers
  BY NextOf, BufsAre DEF Links
<1>2. h \in [Bufs -> Mbuf]
  BY <1>1 DEF Cut, Mbuf
<1>4. h[t] \in Mbuf /\ h[t].next = NULL /\ h[t].len = m[t].len - left /\ h[t].off = m[t].off
  BY <1>1 DEF Cut, Mbuf
<1>5. \A b \in Bufs \ {t} : h[b] = m[b]
  BY <1>1 DEF Cut
<1> HIDE DEF h
<1>7. Links(h)
  BY <1>2, <1>4, <1>5 DEF Links
<1> QED BY <1>4, <1>5, <1>7 DEF h

LEMMA CutRow ==
  ASSUME NEW m, Links(m), NEW a, NEW e, Row(m, a, e), NEW t \in a .. e,
         NEW left \in Nat, left <= m[t].len
  PROVE  /\ Row(Cut(m, t, left), a, t)
         /\ Size(Cut(m, t, left), a) = Size(m, a) - Size(m, m[t].next) - left
<1>0. a \in Nat /\ e \in Nat /\ t \in Nat /\ a <= t /\ t \in Bufs /\ a .. t \subseteq Bufs
      /\ t <= e
  BY BufsAre DEF Row
<1>1. PICK h : h = Cut(m, t, left)
  OBVIOUS
<1>2. /\ Links(h) /\ \A b \in Bufs \ {t} : h[b] = m[b]
      /\ h[t].next = NULL /\ h[t].len = m[t].len - left
  BY <1>0, <1>1, CutIs
<1>3. Row(h, a, t)
  BY <1>0, <1>2 DEF Row
<1>4. /\ \A b \in a .. t - 1 : Size(h, b) = h[b].len + Size(h, b + 1)
      /\ Size(h, t) = h[t].len
  BY <1>2, <1>3, RowSize
<1>5. /\ \A b \in a .. e - 1 : Size(m, b) = m[b].len + Size(m, b + 1)
      /\ \A b \in a .. e : Size(m, b) \in Nat /\ Size(m, m[b].next) \in Nat /\ m[b].len \in Nat
  BY RowSize
<1>6. Size(m, t) = m[t].len + Size(m, m[t].next)
  BY <1>0, SizeUnfolds
<1>7. PICK x \in Nat : x = Size(m, m[t].next)
  BY <1>0, <1>5
<1>8. \A b \in a .. t - 1 : h[b].len = m[b].len
  BY <1>0, <1>2
<1> DEFINE S == {b \in a .. t : Size(h, b) = Size(m, b) - x - left}
<1>9. t \in S
  <2>1. Size(m, t) \in Nat /\ m[t].len \in Nat /\ t \in a .. t
    BY <1>0, <1>5
  <2>2. Size(h, t) = Size(m, t) - x - left
    BY <1>2, <1>4, <1>6, <1>7, <2>1
  <2> QED BY <2>1, <2>2
<1>10. ASSUME NEW b \in a .. t - 1, b + 1 \in S PROVE b \in S
  <2>1. b \in a .. e - 1 /\ b \in a .. t /\ b \in a .. e /\ b + 1 \in a .. e
    BY <1>0
  <2>2. Size(h, b) = m[b].len + Size(h, b + 1) /\ Size(m, b) = m[b].len + Size(m, b + 1)
    BY <1>4, <1>5, <1>8, <2>1
  <2>3. Size(h, b + 1) = Size(m, b + 1) - x - left
    BY <1>10
  <2>4. m[b].len \in Nat /\ Size(m, b + 1) \in Nat
    BY <1>5, <2>1
  <2> QED BY <2>1, <2>2, <2>3, <2>4
<1> HIDE DEF S
<1>11. a .. t \subseteq S
  BY <1>0, <1>9, <1>10, Down
<1>12. a \in S
  BY <1>0, <1>11
<1> QED BY <1>1, <1>3, <1>7, <1>12 DEF S

\* What was read and what is left of the chain are the chain.
LEMMA CutSpan ==
  ASSUME NEW m, Links(m), NEW a, NEW e, Row(m, a, e), NEW t \in a .. e,
         NEW left \in Nat, left <= m[t].len, NEW d \in Pointers, t <= d
  PROVE  Span(m, a, d) =
           Cat(Contents(Cut(m, t, left), a),
               Cat(Piece(t, m[t].off + (m[t].len - left), left), Span(m, t + 1, d)))
<1>0. /\ a \in Nat /\ t \in Nat /\ a >= 1 /\ a <= t /\ t \in Bufs /\ t \in Pointers
      /\ a .. t \subseteq Bufs /\ d \in Nat /\ t - 1 \in Pointers /\ t - 1 <= d /\ t >= 1
  BY BufsAre DEF Row
<1>1. PICK h : h = Cut(m, t, left)
  OBVIOUS
<1>2. /\ Links(h) /\ \A b \in Bufs \ {t} : h[b] = m[b]
      /\ h[t].next = NULL /\ h[t].len = m[t].len - left /\ h[t].off = m[t].off
  BY <1>0, <1>1, CutIs
<1>3. Row(h, a, t)
  BY <1>1, CutRow
<1>4. m[t].len \in Nat /\ m[t].off \in Nat /\ m[t].len - left \in Nat
  BY <1>0, NextOf
<1>5. PICK x \in Seq(Byte) : x = Span(m, a, t - 1)
  BY <1>0, SpanUnfolds
<1>6. PICK y \in Seq(Byte) : y = Piece(t, m[t].off, m[t].len - left)
  BY <1>0, <1>4, PieceTyped
<1>7. PICK z \in Seq(Byte) : z = Piece(t, m[t].off + (m[t].len - left), left)
  <2>1. PICK o \in Nat, l \in Nat : o = m[t].off /\ l = m[t].len - left
    BY <1>4, Zenon
  <2>2. o + l \in Nat
    OBVIOUS
  <2>3. m[t].off + (m[t].len - left) \in Nat
    BY <2>1, <2>2, Zenon
  <2> QED BY <1>0, <2>3, PieceTyped
<1>8. PICK w \in Seq(Byte) : w = Span(m, t + 1, d)
  <2>1. t + 1 \in Nat /\ t + 1 >= 1
    BY <1>0
  <2> QED BY <2>1, SpanUnfolds
<1>9. Contents(h, a) = Cat(x, y)
  <2>1. Contents(h, a) = Span(h, a, t)
    BY <1>2, <1>3, RowContents
  <2>2. Span(h, a, t) = Cat(Span(h, a, t - 1), Span(h, t, t))
    <3>1. t - 1 <= t /\ a <= t
      BY <1>0
    <3> QED BY <1>0, <1>2, <3>1, SpanSplits
  <2>3. Span(h, a, t - 1) = x
    <3>1. \A b \in a .. t - 1 : h[b] = m[b]
      BY <1>0, <1>2
    <3>2. \A b \in a .. t - 1 : Bytes(h, b) = Bytes(m, b)
      BY <3>1 DEF Bytes
    <3> QED BY <1>0, <1>2, <1>5, <3>2, SpanSame
  <2>4. Span(h, t, t) = y
    <3>1. t <= t /\ t + 1 > t /\ t + 1 \in Nat /\ t + 1 >= 1
      BY <1>0
    <3>2. Span(h, t, t) = Cat(Bytes(h, t), Span(h, t + 1, t)) /\ Span(h, t + 1, t) = <<>>
      BY <1>0, <1>2, <3>1, SpanUnfolds
    <3>3. Bytes(h, t) = y
      BY <1>2, <1>6 DEF Bytes, Piece
    <3> QED BY <3>2, <3>3, CatTyped
  <2> QED BY <2>1, <2>2, <2>3, <2>4
<1>10. Bytes(m, t) = Cat(y, z)
  <2>1. PICK l \in Nat : l = m[t].len - left
    BY <1>4
  <2>2. PICK o \in Nat : o = m[t].off
    BY <1>4
  <2>3. y = Piece(t, o, l) /\ z = Piece(t, o + l, left)
    BY <1>6, <1>7, <2>1, <2>2
  <2>4. Cat(y, z) = Piece(t, o, l + left)
    <3>1. t \in Bufs
      BY <1>0
    <3>2. Cat(Piece(t, o, l), Piece(t, o + l, left)) = Piece(t, o, l + left)
      BY <3>1, PieceJoins, Zenon
    <3> QED BY <2>3, <3>2, Zenon
  <2>5. l + left = m[t].len
    BY <1>4, <2>1
  <2> QED BY <2>2, <2>4, <2>5 DEF Bytes, Piece
<1>11. Span(m, t, d) = Cat(Cat(y, z), w)
  <2>1. Span(m, t, d) = Cat(Bytes(m, t), Span(m, t + 1, d))
    BY <1>0, SpanUnfolds
  <2> QED BY <1>8, <1>10, <2>1
<1>12. Span(m, a, d) = Cat(x, Span(m, t, d))
  BY <1>0, <1>5, SpanSplits
<1>13. Cat(Cat(y, z), w) = Cat(y, Cat(z, w)) /\ Cat(z, w) \in Seq(Byte)
  BY CatAssociates, CatTyped
<1>14. Cat(x, Cat(y, Cat(z, w))) = Cat(Cat(x, y), Cat(z, w))
  BY <1>13, CatAssociates
<1> QED BY <1>1, <1>7, <1>8, <1>9, <1>11, <1>12, <1>13, <1>14

-----------------------------------------------------------------------------
(* ipaugenblick_try_read_exact_amount.                                     *)

LEMMA AtIs ==
  ASSUME NEW m, Links(m), NEW a, NEW e, Row(m, a, e), NEW n \in Nat, n >= 1, n <= Size(m, a)
  PROVE  LET t == At(m, a, n)
         IN /\ t \in a .. e /\ Size(m, a) - Size(m, t) < n
            /\ n <= Size(m, a) - Size(m, m[t].next)
<1>0. a \in Nat /\ e \in Nat /\ a <= e /\ a .. e \subseteq Bufs /\ a .. e \subseteq Nat
  BY BufsAre DEF Row
<1>1. /\ \A b \in a .. e : Size(m, b) \in Nat /\ Size(m, m[b].next) \in Nat
      /\ m[e].next = NULL /\ \A b \in a .. e - 1 : m[b].next = b + 1
  BY RowSize DEF Row
<1>2. PICK x \in Nat : x = Size(m, a)
  BY <1>0, <1>1
<1> DEFINE T == {b \in a .. e : n <= x - Size(m, m[b].next)}
<1>3. e \in T
  <2>1. Size(m, m[e].next) = 0
    BY <1>1, SizeUnfolds
  <2> QED BY <1>0, <1>2, <2>1
<1>4. PICK t \in T : \A y \in T : t <= y
  <2>1. T \subseteq Nat
    BY <1>0
  <2> HIDE DEF T
  <2> QED BY <1>3, <2>1, Least
<1>5. t \in a .. e /\ n <= x - Size(m, m[t].next)
  BY <1>4
<1>6. x - Size(m, t) < n
  <2>1. CASE t = a
    BY <1>2, <2>1
  <2>2. CASE t # a
    <3>1. t - 1 \in a .. e - 1 /\ t - 1 \in a .. e /\ t - 1 < t /\ (t - 1) + 1 = t
      BY <1>0, <1>5, <2>2
    <3>2. t - 1 \notin T
      BY <1>4, <3>1
    <3>3. m[t - 1].next = t
      BY <1>1, <3>1
    <3>4. ~(n <= x - Size(m, t))
      BY <3>1, <3>2, <3>3
    <3>5. Size(m, t) \in Nat
      BY <1>1, <1>5
    <3> QED BY <3>4, <3>5
  <2> QED BY <2>1, <2>2
<1>7. Linked(m, a) = a .. e
  BY RowLinked
<1> DEFINE P(b) == Size(m, a) - Size(m, b) < n /\ n <= Size(m, a) - Size(m, m[b].next)
<1>8. \E b \in Linked(m, a) : P(b)
  BY <1>2, <1>5, <1>6, <1>7
<1>9. At(m, a, n) = CHOOSE b \in Linked(m, a) : P(b)
  BY Zenon DEF At
<1> HIDE DEF P
<1>10. At(m, a, n) \in Linked(m, a) /\ P(At(m, a, n))
  BY <1>8, <1>9
<1> QED BY <1>7, <1>10 DEF P

\* The result of a read of n bytes that ends in t, left bytes before its end.
Ended(m, k, p, n, t, left) ==
  [m |-> Cut(m, t, left),
   k |-> IF left > 0 THEN EndInside(m, t, left) ELSE EndAt(m, k, m[t].next),
   total |-> n,
   first |-> IF left > 0 THEN m[t].len - left ELSE m[p].len,
   cut |-> left > 0 /\ t # p, at |-> left = 0 /\ m[t].next # NULL]

LEMMA ExactIs ==
  ASSUME NEW m, Links(m), NEW a, NEW e, Row(m, a, e), NEW n \in Nat, n >= 1, NEW k
  PROVE  \/ Size(m, a) < n /\ TryReadExactAmount(m, k, a, n) = ReadShort(m, k, a, n)
         \/ /\ ~(Size(m, a) < n)
            /\ \E t \in a .. e, left \in Nat :
                 /\ left < m[t].len /\ n = Size(m, a) - Size(m, m[t].next) - left
                 /\ TryReadExactAmount(m, k, a, n) = Ended(m, k, a, n, t, left)
<1>1. CASE Size(m, a) < n
  BY <1>1 DEF TryReadExactAmount
<1>2. CASE ~(Size(m, a) < n)
  <2>0. a \in Nat /\ e \in Nat /\ a <= e /\ a .. e \subseteq Bufs
    BY BufsAre DEF Row
  <2>1. PICK x \in Nat : x = Size(m, a)
    BY <2>0, RowSize
  <2>2. n <= x
    BY <1>2, <2>1
  <2>3. PICK t \in a .. e : /\ t = At(m, a, n) /\ x - Size(m, t) < n
                            /\ n <= x - Size(m, m[t].next)
    BY <2>1, <2>2, AtIs
  <2>4. PICK y \in Nat : y = Size(m, m[t].next)
    BY RowSize
  <2>5. PICK l \in Nat : l = m[t].len
    BY RowSize
  <2>6. Size(m, t) = l + y
    BY <2>0, <2>4, <2>5, SizeUnfolds
  <2>7. PICK left \in Nat : left = x - y - n
    BY <2>3, <2>4
  <2>8. left < l
    BY <2>3, <2>6, <2>7
  <2>9. n = x - y - left
    BY <2>7
  <2>10. TryReadExactAmount(m, k, a, n) = Ended(m, k, a, n, t, left)
    BY <1>2, <2>1, <2>3, <2>4, <2>7, Zenon DEF TryReadExactAmount, Ended, Cut
  <2> QED BY <1>2, <2>1, <2>4, <2>5, <2>8, <2>9, <2>10
<1> QED BY <1>1, <1>2

-----------------------------------------------------------------------------
(* What the three ways of reading have in common: of the chain s .. f,     *)
(* all is returned or what lies before the last left bytes of t.           *)

Socks == [shadow : Pointers, next : Pointers, remainder : Nat, delivered : Nat]
NoShadow(k) == k \in Socks /\ k.shadow = NULL /\ k.next = NULL

\* In j the buffers s .. f are one chain, and all else is as in m.
Joined(m, j, s, f) ==
  /\ Links(j) /\ Row(j, s, f)
  /\ \A b \in Bufs : j[b].off = m[b].off /\ j[b].len = m[b].len
  /\ \A b \in Bufs : b < s \/ f < b => j[b] = m[b]

ReturnsAll(m, s, f, k, n, r) ==
  /\ Joined(m, r.m, s, f) /\ r.k = k
  /\ r.total \in Nat /\ r.first \in Nat /\ r.cut = FALSE /\ r.at = FALSE
  /\ n > 0 => /\ r.total = Size(r.m, s) \/ Size(r.m, s) = 0
              /\ r.total <= n /\ r.first = r.m[s].len

ReturnsPart(m, s, f, k, n, r, j, t, left) ==
  /\ Joined(m, j, s, f) /\ r.m = Cut(j, t, left)
  /\ r.k = IF left > 0 THEN EndInside(j, t, left) ELSE EndAt(j, k, j[t].next)
  /\ r.total = n /\ Size(r.m, s) = n
  /\ r.first \in Nat /\ r.cut \in BOOLEAN /\ (~r.cut => r.first = r.m[s].len)
  /\ r.at = (left = 0 /\ j[t].next # NULL)

Returns(m, s, f, k, n, r) ==
  \/ ReturnsAll(m, s, f, k, n, r)
  \/ n > 0 /\ \E j : \E t \in s .. f, left \in Nat :
       left < j[t].len /\ ReturnsPart(m, s, f, k, n, r, j, t, left)

LEMMA JoinedSelf ==
  ASSUME NEW m, Links(m), NEW s, NEW f, Row(m, s, f)
  PROVE  Joined(m, m, s, f)
  BY DEF Joined

\* A read that ends in t, of the chain a .. f or of its second part q .. f.
LEMMA EndedReturns ==
  ASSUME NEW m, Links(m), NEW s, NEW f, Row(m, s, f), NEW n \in Nat, n >= 1, NEW k,
         NEW t \in s .. f, NEW left \in Nat, left < m[t].len,
         n = Size(m, s) - Size(m, m[t].next) - left
  PROVE  ReturnsPart(m, s, f, k, n, Ended(m, k, s, n, t, left), m, t, left)
<1>0. s \in Nat /\ f \in Nat /\ s \in Bufs /\ t \in Bufs
  BY BufsAre DEF Row
<1>1. PICK r : r = Ended(m, k, s, n, t, left)
  OBVIOUS
<1>2. /\ r.m = Cut(m, t, left) /\ r.total = n
      /\ r.k = IF left > 0 THEN EndInside(m, t, left) ELSE EndAt(m, k, m[t].next)
      /\ r.first = IF left > 0 THEN m[t].len - left ELSE m[s].len
      /\ r.cut = (left > 0 /\ t # s) /\ r.at = (left = 0 /\ m[t].next # NULL)
  BY <1>1 DEF Ended
<1>3. m[t].len \in Nat /\ m[s].len \in Nat /\ left <= m[t].len
  BY <1>0, NextOf
<1>4. Size(r.m, s) = n
  BY <1>2, <1>3, CutRow
<1>5. r.first \in Nat
  BY <1>2, <1>3
<1>6. ~r.cut => r.first = r.m[s].len
  <2>1. /\ \A b \in Bufs \ {t} : r.m[b] = m[b]
        /\ r.m[t].len = m[t].len - left
    BY <1>0, <1>2, <1>3, CutIs
  <2>2. CASE t = s
    BY <1>0, <1>2, <1>3, <2>1, <2>2
  <2>3. CASE t # s
    <3>1. r.m[s] = m[s]
      BY <1>0, <2>1, <2>3
    <3> QED BY <1>0, <1>2, <1>3, <2>3, <3>1
  <2> QED BY <2>2, <2>3
<1>7. r.cut \in BOOLEAN
  BY <1>2
<1> QED BY <1>1, <1>2, <1>4, <1>5, <1>6, <1>7, JoinedSelf DEF ReturnsPart

LEMMA ShortReturns ==
  ASSUME NEW m, Links(m), NEW s, NEW f, Row(m, s, f), NEW n \in Nat, NEW k, Size(m, s) < n
  PROVE  ReturnsAll(m, s, f, k, n, ReadShort(m, k, s, n))
<1>0. s \in Nat /\ f \in Nat /\ s \in s .. f /\ s \in Bufs
  BY BufsAre DEF Row
<1>1. PICK r : r = ReadShort(m, k, s, n)
  OBVIOUS
<1>2. /\ r.m = m /\ r.k = k /\ r.total = Size(m, s) /\ r.first = m[s].len
      /\ r.cut = FALSE /\ r.at = FALSE
  BY <1>1 DEF ReadShort
<1>3. Size(m, s) \in Nat /\ m[s].len \in Nat
  BY <1>0, RowSize
<1> QED BY <1>1, <1>2, <1>3, JoinedSelf DEF ReturnsAll

LEMMA ExactReturns ==
  ASSUME NEW m, Links(m), NEW s, NEW f, Row(m, s, f), NEW n \in Nat, n >= 1, NEW k
  PROVE  Returns(m, s, f, k, n, TryReadExactAmount(m, k, s, n))
<1>1. CASE Size(m, s) < n /\ TryReadExactAmount(m, k, s, n) = ReadShort(m, k, s, n)
  BY <1>1, ShortReturns DEF Returns
<1>2. CASE \E t \in s .. f, left \in Nat :
             /\ left < m[t].len /\ n = Size(m, s) - Size(m, m[t].next) - left
             /\ TryReadExactAmount(m, k, s, n) = Ended(m, k, s, n, t, left)
  <2>1. PICK t \in s .. f, left \in Nat :
             /\ left < m[t].len /\ n = Size(m, s) - Size(m, m[t].next) - left
             /\ TryReadExactAmount(m, k, s, n) = Ended(m, k, s, n, t, left)
    BY <1>2
  <2>2. ReturnsPart(m, s, f, k, n, TryReadExactAmount(m, k, s, n), m, t, left)
    BY <2>1, EndedReturns
  <2>3. n > 0
    OBVIOUS
  <2> QED BY <2>1, <2>2, <2>3, Zenon DEF Returns
<1> QED BY <1>1, <1>2, ExactIs

LEMMA RingReturns ==
  ASSUME NEW m, Links(m), NEW s, NEW f, Row(m, s, f), NEW n \in Nat, NEW k
  PROVE  Returns(m, s, f, k, n, ReadRing(m, k, s, n))
<1>1. CASE n > 0
  <2>1. ReadRing(m, k, s, n) = TryReadExactAmount(m, k, s, n)
    BY <1>1 DEF ReadRing
  <2> QED BY <1>1, <2>1, ExactReturns
<1>2. CASE ~(n > 0)
  <2>0. s \in Bufs
    BY DEF Row
  <2>1. PICK r : r = ReadRing(m, k, s, n)
    OBVIOUS
  <2>2. /\ r.m = m /\ r.k = k /\ r.total = m[s].pkt /\ r.first = m[s].len
        /\ r.cut = FALSE /\ r.at = FALSE
    BY <1>2, <2>1 DEF ReadRing
  <2>3. m[s].pkt \in Nat /\ m[s].len \in Nat
    BY <2>0, NextOf
  <2>4. ReturnsAll(m, s, f, k, n, r)
    BY <1>2, <2>2, <2>3, JoinedSelf DEF ReturnsAll
  <2> QED BY <2>1, <2>4 DEF Returns
<1> QED BY <1>1, <1>2

-----------------------------------------------------------------------------
(* A chain behind the shadow.                                              *)

LEMMA SizeSame ==
  ASSUME NEW m, Links(m), NEW h, Links(h), NEW a, NEW e, Row(m, a, e),
         \A b \in a .. e : h[b].len = m[b].len /\ h[b].next = m[b].next
  PROVE  \A b \in a .. e : Size(h, b) = Size(m, b)
<1>0. a \in Nat /\ e \in Nat /\ a <= e
  BY BufsAre DEF Row
<1>1. Row(h, a, e)
  BY RowKept
<1>2. /\ \A b \in a .. e - 1 : Size(m, b) = m[b].len + Size(m, b + 1)
      /\ Size(m, e) = m[e].len
  BY RowSize
<1>3. /\ \A b \in a .. e - 1 : Size(h, b) = h[b].len + Size(h, b + 1)
      /\ Size(h, e) = h[e].len
  BY <1>1, RowSize
<1> DEFINE S == {b \in a .. e : Size(h, b) = Size(m, b)}
<1>4. e \in S
  BY <1>0, <1>2, <1>3
<1>5. ASSUME NEW b \in a .. e - 1, b + 1 \in S PROVE b \in S
  BY <1>0, <1>2, <1>3, <1>5
<1> HIDE DEF S
<1>6. a .. e \subseteq S
  BY <1>0, <1>4, <1>5, Down
<1> QED BY <1>6 DEF S

LEMMA LinkIs ==
  ASSUME NEW m, Links(m), NEW p, NEW x, Row(m, p, x), NEW q \in {NULL, x + 1}, q \in Pointers
  PROVE  /\ Links(Link(m, p, q))
         /\ \A b \in Bufs : /\ Link(m, p, q)[b].off = m[b].off
                            /\ Link(m, p, q)[b].len = m[b].len
                            /\ Link(m, p, q)[b].pkt = m[b].pkt
         /\ \A b \in Bufs \ {x} : Link(m, p, q)[b] = m[b]
         /\ Link(m, p, q)[x].next = q
<1>1. Link(m, p, q) = [m EXCEPT ![x].next = q]
  BY RowLinked DEF Link
<1>2. m \in [Bufs -> Mbuf] /\ x \in Bufs /\ m[x] \in Mbuf
  BY DEF Links, Row
<1> DEFINE j == [m EXCEPT ![x].next = q]
<1>3. j \in [Bufs -> Mbuf] /\ j[x].next = q /\ \A b \in Bufs \ {x} : j[b] = m[b]
  BY <1>2 DEF Mbuf
<1>4. j[x].off = m[x].off /\ j[x].len = m[x].len /\ j[x].pkt = m[x].pkt
  BY <1>2 DEF Mbuf
<1> HIDE DEF j
<1>5. Links(j)
  BY <1>3 DEF Links
<1>6. \A b \in Bufs : j[b].off = m[b].off /\ j[b].len = m[b].len /\ j[b].pkt = m[b].pkt
  BY <1>3, <1>4
<1> QED BY <1>1, <1>3, <1>5, <1>6 DEF j

LEMMA LinkJoins ==
  ASSUME NEW m, Links(m), NEW p, NEW x, Row(m, p, x), NEW q, NEW f, q = x + 1, Row(m, q, f)
  PROVE  /\ Joined(m, Link(m, p, q), p, f)
         /\ Size(Link(m, p, q), p) = Size(m, p) + Size(m, q)
         /\ \A b \in q .. f : Size(Link(m, p, q), b) = Size(m, b)
<1>0. /\ p \in Nat /\ x \in Nat /\ f \in Nat /\ q \in Nat /\ p <= x /\ x < q /\ q <= f
      /\ p .. f \subseteq Bufs /\ q \in Pointers /\ q # NULL
  BY BufsAre DEF Row
<1>1. PICK j : j = Link(m, p, q)
  OBVIOUS
<1>2. /\ Links(j) /\ \A b \in Bufs : j[b].off = m[b].off /\ j[b].len = m[b].len
      /\ \A b \in Bufs \ {x} : j[b] = m[b]
      /\ j[x].next = q
  BY <1>0, <1>1, LinkIs
<1>3. Row(j, p, f)
  <2>1. \A b \in p .. f - 1 : j[b].next = b + 1
    <3> TAKE b \in p .. f - 1
    <3>1. CASE b = x
      BY <1>2, <3>1
    <3>2. CASE b < x
      BY <1>0, <1>2, <3>2 DEF Row
    <3>3. CASE b > x
      <4>1. b \in q .. f - 1 /\ b \in Bufs \ {x}
        BY <1>0, <3>3
      <4> QED BY <1>2, <4>1 DEF Row
    <3> QED BY <1>0, <3>1, <3>2, <3>3
  <2>2. j[f].next = NULL
    BY <1>0, <1>2 DEF Row
  <2>3. p \in Bufs /\ f \in Bufs /\ p <= f
    BY <1>0
  <2> QED BY <2>1, <2>2, <2>3 DEF Row
<1>4. \A b \in Bufs : b < p \/ f < b => j[b] = m[b]
  <2> TAKE b \in Bufs
  <2>1. b \in Nat
    BY BufsAre
  <2>2. b < p \/ f < b => b # x
    BY <1>0, <2>1
  <2> QED BY <1>2, <2>2
<1>5. \A b \in q .. f : Size(j, b) = Size(m, b)
  <2>1. \A b \in q .. f : j[b] = m[b]
    BY <1>0, <1>2
  <2>2. \A b \in q .. f : j[b].len = m[b].len /\ j[b].next = m[b].next
    BY <2>1
  <2> QED BY <1>2, <2>2, SizeSame
<1>6. PICK z \in Nat : z = Size(m, q) /\ Size(j, q) = z
  <2>1. q \in q .. f
    BY <1>0
  <2> QED BY <1>5, <2>1, RowSize
<1>7. /\ \A b \in p .. x - 1 : Size(m, b) = m[b].len + Size(m, b + 1)
      /\ Size(m, x) = m[x].len
      /\ \A b \in p .. x : Size(m, b) \in Nat /\ m[b].len \in Nat
  BY RowSize
<1>8. \A b \in p .. f - 1 : Size(j, b) = j[b].len + Size(j, b + 1)
  BY <1>2, <1>3, RowSize
<1> DEFINE S == {b \in p .. x : Size(j, b) = Size(m, b) + z}
<1>9. x \in S
  <2>1. x \in p .. f - 1 /\ x \in p .. x /\ x \in Bufs
    BY <1>0
  <2>2. Size(j, x) = m[x].len + z
    BY <1>2, <1>6, <1>8, <2>1
  <2> QED BY <1>7, <2>1, <2>2
<1>10. ASSUME NEW b \in p .. x - 1, b + 1 \in S PROVE b \in S
  <2>1. b \in p .. f - 1 /\ b \in p .. x /\ b \in Bufs /\ b + 1 \in p .. x
    BY <1>0
  <2>2. Size(j, b) = m[b].len + Size(j, b + 1)
    BY <1>2, <1>8, <2>1
  <2>3. Size(j, b + 1) = Size(m, b + 1) + z
    BY <1>10
  <2>4. Size(m, b) = m[b].len + Size(m, b + 1) /\ m[b].len \in Nat /\ Size(m, b + 1) \in Nat
    BY <1>7, <2>1
  <2> QED BY <2>1, <2>2, <2>3, <2>4
<1> HIDE DEF S
<1>11. p .. x \subseteq S
  BY <1>0, <1>9, <1>10, Down
<1>12. p \in S
  BY <1>0, <1>11
<1>13. Size(j, p) = Size(m, p) + Size(m, q)
  BY <1>6, <1>12 DEF S
<1> QED BY <1>1, <1>2, <1>3, <1>4, <1>5, <1>13 DEF Joined

\* Cutting the second chain and linking it are independent.
LEMMA LinkCut ==
  ASSUME NEW m, Links(m), NEW p, NEW x, Row(m, p, x), NEW q, NEW f, q = x + 1, Row(m, q, f),
         NEW t \in q .. f, NEW left \in Nat, left <= m[t].len
  PROVE  Link(Cut(m, t, left), p, q) = Cut(Link(m, p, q), t, left)
<1>0. /\ p \in Nat /\ x \in Nat /\ f \in Nat /\ q \in Nat /\ p <= x /\ x < q
      /\ t \in Nat /\ t # x /\ t \in Bufs /\ x \in Bufs /\ p .. x \subseteq Bufs
      /\ m \in [Bufs -> Mbuf] /\ t \notin p .. x
  BY BufsAre DEF Row, Links
<1>1. /\ Links(Cut(m, t, left)) /\ \A b \in Bufs \ {t} : Cut(m, t, left)[b] = m[b]
  BY <1>0, CutIs
<1>2. Row(Cut(m, t, left), p, x)
  <2>1. \A b \in p .. x : Cut(m, t, left)[b] = m[b]
    BY <1>0, <1>1
  <2>2. \A b \in p .. x : Cut(m, t, left)[b].next = m[b].next
    BY <2>1
  <2> QED BY <2>2, RowKept
<1>3. Link(Cut(m, t, left), p, q) = [Cut(m, t, left) EXCEPT ![x].next = q]
  BY <1>1, <1>2, RowLinked DEF Link
<1>4. Link(m, p, q) = [m EXCEPT ![x].next = q]
  BY RowLinked DEF Link
<1>5. [Cut(m, t, left) EXCEPT ![x].next = q] = Cut([m EXCEPT ![x].next = q], t, left)
  BY <1>0 DEF Cut, Mbuf
<1> QED BY <1>3, <1>4, <1>5

LEMMA ShadowReturns ==
  ASSUME NEW m, Links(m), NEW p, NEW x, Row(m, p, x), NEW n \in Nat, n >= 1, NEW k
  PROVE  Returns(m, p, x, k, n, ReadShadow(m, k, p, n, NULL))
<1>1. PICK t : t = TryReadExactAmount(m, k, p, n)
  OBVIOUS
<1>2. CASE t.total # 0
  <2>1. ReadShadow(m, k, p, n, NULL) = t
    BY <1>1, <1>2, Zenon DEF ReadShadow
  <2> QED BY <1>1, <2>1, ExactReturns
<1>3. CASE t.total = 0
  <2>1. PICK r : r = ReadNothing(t, n)
    OBVIOUS
  <2>2. ReadShadow(m, k, p, n, NULL) = r
    BY <1>1, <1>3, <2>1, Zenon DEF ReadShadow
  <2>3. Size(m, p) < n /\ t = ReadShort(m, k, p, n)
    <3>1. ASSUME NEW e \in p .. x, NEW left, t = Ended(m, k, p, n, e, left) PROVE FALSE
      BY <1>3, <3>1 DEF Ended
    <3> QED BY <1>1, <3>1, ExactIs
  <2>4. /\ r.m = m /\ r.k = k /\ r.total = n /\ r.first = m[p].len
        /\ r.cut = FALSE /\ r.at = FALSE /\ Size(m, p) = 0
    BY <1>3, <2>1, <2>3 DEF ReadShort, ReadNothing
  <2>5. p \in Bufs /\ m[p].len \in Nat
    BY NextOf DEF Row
  <2>6. ReturnsAll(m, p, x, k, n, r)
    BY <2>4, <2>5, JoinedSelf DEF ReturnsAll
  <2> QED BY <2>2, <2>6 DEF Returns
<1> QED BY <1>2, <1>3

LEMMA ShadowAndRingReturn ==
  ASSUME NEW m, Links(m), NEW p, NEW x, Row(m, p, x), NEW n \in Nat, NEW k,
         NEW q, NEW f, q = x + 1, Row(m, q, f), Size(m, p) \in 1 .. n - 1
  PROVE  Returns(m, p, f, k, n, ReadShadow(m, k, p, n, q))
<1>0. /\ p \in Nat /\ x \in Nat /\ f \in Nat /\ q \in Nat /\ p <= x /\ x < q /\ q <= f
      /\ p .. f \subseteq Bufs /\ q # NULL /\ q \in q .. f /\ p \in Bufs
  BY BufsAre DEF Row
<1>1. PICK z \in Nat : z = Size(m, p) /\ 1 <= z /\ z < n
  OBVIOUS
<1>2. PICK y \in Nat : y = n - z /\ y >= 1 /\ n = z + y
  BY <1>1
<1>3. TryReadExactAmount(m, k, p, n) = ReadShort(m, k, p, n)
  BY <1>1 DEF TryReadExactAmount
<1>4. PICK r1 : r1 = ReadShort(m, k, p, n)
  OBVIOUS
<1>5. r1.m = m /\ r1.k = k /\ r1.total = z /\ r1.first = m[p].len
  BY <1>1, <1>4 DEF ReadShort
<1>6. PICK r2 : r2 = TryReadExactAmount(m, k, q, y)
  OBVIOUS
<1>7. PICK r : r = ReadShadow(m, k, p, n, q)
  OBVIOUS
<1>8. r = [m |-> Link(r2.m, p, q), k |-> r2.k, total |-> z + r2.total,
           first |-> m[p].len, cut |-> FALSE, at |-> r2.at]
  <2>1. z # 0 /\ z # n
    BY <1>1
  <2> QED BY <1>0, <1>2, <1>3, <1>4, <1>5, <1>6, <1>7, <2>1, Zenon DEF ReadShadow
<1>9. /\ r.m = Link(r2.m, p, q) /\ r.k = r2.k /\ r.total = z + r2.total
      /\ r.first = m[p].len /\ r.cut = FALSE /\ r.at = r2.at
  BY <1>8
<1>10. PICK j : j = Link(m, p, q)
  OBVIOUS
<1>11. /\ Joined(m, j, p, f) /\ Size(j, p) = z + Size(m, q)
       /\ \A b \in q .. f : Size(j, b) = Size(m, b)
  BY <1>1, <1>10, LinkJoins
<1>12. PICK w \in Nat : w = Size(m, q)
  BY <1>0, RowSize
<1>13. m[p].len \in Nat /\ j[p].len = m[p].len
  BY <1>0, <1>11, NextOf DEF Joined
<1>14. CASE w < y /\ r2 = ReadShort(m, k, q, y)
  <2>1. r2.m = m /\ r2.k = k /\ r2.total = w /\ r2.at = FALSE
    BY <1>12, <1>14 DEF ReadShort
  <2>2. /\ r.m = j /\ r.k = k /\ r.total = z + w /\ r.first = m[p].len
        /\ r.cut = FALSE /\ r.at = FALSE
    BY <1>9, <1>10, <2>1
  <2>3. z + w \in Nat /\ z + w <= n
    BY <1>2, <1>14
  <2>4. ReturnsAll(m, p, f, k, n, r)
    BY <1>11, <1>12, <1>13, <2>2, <2>3 DEF ReturnsAll
  <2> QED BY <1>7, <2>4 DEF Returns
<1>15. CASE \E t \in q .. f, left \in Nat :
              /\ left < m[t].len /\ y = w - Size(m, m[t].next) - left
              /\ r2 = Ended(m, k, q, y, t, left)
  <2>1. PICK t \in q .. f, left \in Nat :
              /\ left < m[t].len /\ y = w - Size(m, m[t].next) - left
              /\ r2 = Ended(m, k, q, y, t, left)
    BY <1>15
  <2>2. /\ t \in Nat /\ t \in Bufs /\ t \in p .. f /\ x < t /\ p # t
    BY <1>0
  <2>3. m[t].len \in Nat /\ left <= m[t].len /\ m[t].next \in {NULL, t + 1}
    BY <2>1, <2>2, NextOf
  <2>4. /\ Links(j) /\ Row(j, p, f)
        /\ \A b \in Bufs \ {x} : j[b] = m[b]
    <3>1. q \in {NULL, x + 1} /\ q \in Pointers
      BY <1>0, BufsAre
    <3> QED BY <1>10, <1>11, <3>1, LinkIs DEF Joined
  <2>5. /\ r2.m = Cut(m, t, left) /\ r2.total = y
        /\ r2.k = IF left > 0 THEN EndInside(m, t, left) ELSE EndAt(m, k, m[t].next)
        /\ r2.at = (left = 0 /\ m[t].next # NULL)
    BY <2>1 DEF Ended
  <2>6. r.m = Cut(j, t, left)
    BY <1>9, <1>10, <2>3, <2>5, LinkCut
  <2>7. j[t] = m[t]
    BY <2>2, <2>4
  <2>8. EndInside(m, t, left) = EndInside(j, t, left)
    BY <2>7 DEF EndInside
  <2>9. EndAt(m, k, m[t].next) = EndAt(j, k, j[t].next)
    <3>1. PICK s : s = m[t].next /\ s = j[t].next
      BY <2>7
    <3>2. CASE s = NULL
      BY <3>1, <3>2 DEF EndAt
    <3>3. CASE s # NULL
      <4>0. s \in Pointers
        BY <2>2, <3>1, NextOf
      <4>1. s = t + 1 /\ s \in Bufs /\ s # x
        BY <1>0, <2>2, <2>3, <3>1, <3>3, <4>0, BufsAre
      <4>2. j[s] = m[s] /\ m[s].next \in {NULL, s + 1} /\ m[s].next \in Pointers
        BY <2>4, <4>1, NextOf
      <4>3. m[s].next # NULL => m[s].next \in Bufs \ {x}
        BY <1>0, <2>2, <4>1, <4>2, BufsAre
      <4>4. m[s].next # NULL => j[m[s].next] = m[m[s].next]
        BY <2>4, <4>3
      <4> QED BY <3>1, <3>3, <4>2, <4>4 DEF EndAt
    <3> QED BY <3>2, <3>3
  <2>10. /\ r.k = IF left > 0 THEN EndInside(j, t, left) ELSE EndAt(j, k, j[t].next)
         /\ r.at = (left = 0 /\ j[t].next # NULL) /\ r.total = n
    BY <1>2, <1>9, <2>5, <2>7, <2>8, <2>9
  <2>11. Size(j, j[t].next) = Size(m, m[t].next)
    <3>1. CASE m[t].next = NULL
      <4>1. Size(j, NULL) = 0 /\ Size(m, NULL) = 0
        BY <2>4, SizeUnfolds
      <4> QED BY <2>7, <3>1, <4>1
    <3>2. CASE m[t].next # NULL
      <4>1. m[t].next = t + 1 /\ t # f
        BY <2>3, <3>2 DEF Row
      <4>2. t + 1 \in q .. f
        BY <1>0, <2>2, <4>1
      <4> QED BY <1>11, <2>7, <4>1, <4>2
    <3> QED BY <3>1, <3>2
  <2>12. PICK v \in Nat : v = Size(m, m[t].next)
    BY <2>2, SizeUnfolds, NextOf
  <2>13. Size(r.m, p) = n
    <3>1. left <= j[t].len
      BY <2>3, <2>7
    <3>2. Size(r.m, p) = Size(j, p) - Size(j, j[t].next) - left
      BY <2>2, <2>4, <2>6, <3>1, CutRow
    <3>3. Size(r.m, p) = (z + w) - v - left
      BY <1>11, <1>12, <2>11, <2>12, <3>2
    <3>4. y = w - v - left
      BY <2>1, <2>12
    <3> QED BY <1>2, <3>3, <3>4
  <2>14. r.m[p].len = m[p].len
    <3>1. left <= j[t].len
      BY <2>3, <2>7
    <3>2. r.m[p] = j[p]
      BY <1>0, <2>2, <2>4, <2>6, <3>1, CutIs
    <3> QED BY <1>13, <3>2
  <2>15. ReturnsPart(m, p, f, k, n, r, j, t, left)
    BY <1>9, <1>11, <1>13, <2>6, <2>10, <2>13, <2>14 DEF ReturnsPart
  <2>16. left < j[t].len /\ n > 0
    BY <1>1, <2>1, <2>7
  <2> QED BY <1>7, <2>2, <2>15, <2>16, Zenon DEF Returns
<1>16. \/ w < y /\ r2 = ReadShort(m, k, q, y)
       \/ \E t \in q .. f, left \in Nat :
              /\ left < m[t].len /\ y = w - Size(m, m[t].next) - left
              /\ r2 = Ended(m, k, q, y, t, left)
  BY <1>2, <1>6, <1>12, ExactIs
<1> QED BY <1>14, <1>15, <1>16

LEMMA AllReturns ==
  ASSUME NEW m, Links(m), NEW p, NEW x, Row(m, p, x), NEW k, NEW q, NEW f,
         (q = NULL /\ f = x) \/ (q = x + 1 /\ Row(m, q, f))
  PROVE  Returns(m, p, f, k, 0, ReadAllShadow(m, k, p, q))
<1>0. /\ p \in Bufs /\ x \in Bufs /\ x \in Nat /\ p \in Nat /\ p <= x /\ q \in Pointers
      /\ q \in {NULL, x + 1} /\ f \in Nat /\ x <= f
  BY BufsAre DEF Row
<1>1. PICK j : j = Link(m, p, q)
  OBVIOUS
<1>2. /\ Links(j) /\ \A b \in Bufs \ {x} : j[b] = m[b]
      /\ \A b \in Bufs : j[b].off = m[b].off /\ j[b].len = m[b].len /\ j[b].pkt = m[b].pkt
      /\ j[x].next = q
  BY <1>0, <1>1, LinkIs
<1>3. Joined(m, j, p, f)
  <2>1. CASE q # NULL
    BY <1>1, <2>1, LinkJoins
  <2>2. CASE q = NULL
    <3>1. f = x
      BY <1>0, <2>2, BufsAre
    <3>2. \A b \in p .. x : j[b].next = m[b].next
      <4> TAKE b \in p .. x
      <4>1. b \in Bufs
        BY <1>0, BufsAre
      <4>2. m[x].next = NULL
        BY DEF Row
      <4> QED BY <1>2, <2>2, <4>1, <4>2
    <3>3. Row(j, p, x)
      BY <3>2, RowKept
    <3>4. \A b \in Bufs : b < p \/ f < b => j[b] = m[b]
      <4> TAKE b \in Bufs
      <4>1. b \in Nat
        BY BufsAre
      <4> QED BY <1>0, <1>2, <3>1, <4>1
    <3> QED BY <1>2, <3>1, <3>3, <3>4 DEF Joined
  <2> QED BY <2>1, <2>2
<1> DEFINE more == IF q = NULL THEN 0 ELSE m[q].pkt
<1>4. more \in Nat
  BY <1>0, NextOf, BufsAre
<1>5. PICK r : r = ReadAllShadow(m, k, p, q)
  OBVIOUS
<1>6. /\ r.m = [j EXCEPT ![p].pkt = @ + more] /\ r.k = k
      /\ r.total = m[p].pkt + more /\ r.first = m[p].len
      /\ r.cut = FALSE /\ r.at = FALSE
  BY <1>1, <1>5 DEF ReadAllShadow
<1> HIDE DEF more
<1>7. m[p].pkt \in Nat /\ m[p].len \in Nat /\ j[p].pkt \in Nat
  BY <1>0, <1>2, NextOf
<1>8. /\ r.m \in [Bufs -> Mbuf] /\ \A b \in Bufs \ {p} : r.m[b] = j[b]
      /\ r.m[p].next = j[p].next /\ r.m[p].off = j[p].off /\ r.m[p].len = j[p].len
  <2>1. j \in [Bufs -> Mbuf] /\ j[p].pkt + more \in Nat
    BY <1>2, <1>4, <1>7 DEF Links
  <2> QED BY <1>0, <1>6, <2>1 DEF Mbuf
<1>9. \A b \in Bufs : /\ r.m[b].next = j[b].next /\ r.m[b].off = j[b].off
                      /\ r.m[b].len = j[b].len
  BY <1>8
<1>10. Links(r.m)
  BY <1>2, <1>8, <1>9 DEF Links
<1>11. Row(r.m, p, f)
  <2>1. p .. f \subseteq Bufs /\ Row(j, p, f)
    BY <1>3, BufsAre DEF Joined, Row
  <2>2. \A b \in p .. f : r.m[b].next = j[b].next
    BY <1>9, <2>1
  <2> QED BY <2>1, <2>2, RowKept
<1>12. \A b \in Bufs : b < p \/ f < b => r.m[b] = m[b]
  <2> TAKE b \in Bufs
  <2>1. b \in Nat
    BY BufsAre
  <2>2. b < p \/ f < b => b # p
    BY <1>0, <2>1
  <2> QED BY <1>3, <1>8, <2>2 DEF Joined
<1>13. Joined(m, r.m, p, f)
  BY <1>2, <1>9, <1>10, <1>11, <1>12 DEF Joined
<1>14. m[p].pkt + more \in Nat
  BY <1>4, <1>7
<1>15. ReturnsAll(m, p, f, k, 0, r)
  BY <1>6, <1>7, <1>13, <1>14 DEF ReturnsAll
<1> QED BY <1>5, <1>15 DEF Returns

-----------------------------------------------------------------------------
(* The queue: chains one after the other, up to the last buffer d.         *)

EndOf(q, d, i) == IF i < Len(q) THEN q[i + 1] - 1 ELSE d
Queued(m, q, d) ==
  /\ \A i \in 1 .. Len(q) : q[i] <= d /\ Row(m, q[i], EndOf(q, d, i))
  /\ \A i, j \in 1 .. Len(q) : i < j => q[i] < q[j]

\* The first buffer of the queue, or the next to be filled.
Start(q, d) == IF q = <<>> THEN d + 1 ELSE q[1]

LEMMA QueuedStart ==
  ASSUME NEW m, NEW q \in Seq(Bufs), NEW d \in Pointers, Queued(m, q, d)
  PROVE  /\ Start(q, d) \in Nat /\ 1 <= Start(q, d) /\ Start(q, d) <= d + 1
         /\ \A i \in 1 .. Len(q) : Start(q, d) <= q[i] /\ EndOf(q, d, i) <= d
<1>0. d \in Nat /\ Bufs \subseteq Nat /\ Len(q) \in Nat /\ \A i \in 1 .. Len(q) : q[i] \in Nat
  BY BufsAre
<1>1. CASE q = <<>>
  BY <1>0, <1>1 DEF Start
<1>2. CASE q # <<>>
  <2>1. 1 \in 1 .. Len(q) /\ q[1] \in Bufs /\ Start(q, d) = q[1]
    BY <1>2 DEF Start
  <2>2. q[1] \in Nat /\ 1 <= q[1] /\ q[1] <= d
    BY <2>1, BufsAre DEF Queued
  <2>3. ASSUME NEW i \in 1 .. Len(q) PROVE q[1] <= q[i] /\ EndOf(q, d, i) <= d
    <3>1. q[i] \in Nat /\ (i # 1 => q[1] < q[i])
      BY <1>0, <2>1 DEF Queued
    <3>2. EndOf(q, d, i) <= d
      <4>1. CASE i < Len(q)
        <5>1. i + 1 \in 1 .. Len(q)
          BY <1>0, <4>1
        <5>2. q[i + 1] \in Nat /\ q[i + 1] <= d
          BY <1>0, <5>1 DEF Queued
        <5> QED BY <1>0, <4>1, <5>2 DEF EndOf
      <4>2. CASE ~(i < Len(q))
        BY <1>0, <4>2 DEF EndOf
      <4> QED BY <4>1, <4>2
    <3> QED BY <2>2, <3>1, <3>2
  <2> QED BY <1>0, <2>1, <2>2, <2>3
<1> QED BY <1>1, <1>2

LEMMA QueuedKept ==
  ASSUME NEW m, NEW h, NEW q \in Seq(Bufs), NEW d \in Pointers, Queued(m, q, d),
         \A b \in Bufs : Start(q, d) <= b /\ b <= d => h[b].next = m[b].next
  PROVE  Queued(h, q, d)
<1>1. ASSUME NEW i \in 1 .. Len(q) PROVE Row(h, q[i], EndOf(q, d, i))
  <2>1. PICK a, e : a = q[i] /\ e = EndOf(q, d, i)
    OBVIOUS
  <2>r. Row(m, a, e)
    BY <2>1, Zenon DEF Queued
  <2>s. Start(q, d) <= a /\ e <= d /\ Start(q, d) \in Nat
    BY <2>1, QueuedStart
  <2>d. d \in Nat
    BY BufsAre
  <2>2. Row(m, a, e) /\ Start(q, d) <= a /\ e <= d /\ Start(q, d) \in Nat /\ d \in Nat
    BY <2>r, <2>s, <2>d
  <2>3. a \in Nat /\ e \in Nat /\ a .. e \subseteq Bufs
    BY <2>r, RowBounds
  <2>4. \A b \in a .. e : h[b].next = m[b].next
    BY <2>2, <2>3
  <2> QED BY <2>1, <2>2, <2>4, RowKept
<1> QED BY <1>1 DEF Queued

LEMMA QueuedTail ==
  ASSUME NEW m, NEW q \in Seq(Bufs), NEW d \in Pointers, Queued(m, q, d), q # <<>>
  PROVE  /\ Queued(m, Tail(q), d) /\ Tail(q) \in Seq(Bufs)
         /\ Head(q) = Start(q, d) /\ Head(q) \in Bufs
         /\ Row(m, Head(q), Start(Tail(q), d) - 1)
<1>0. d \in Nat /\ Bufs \subseteq Nat /\ Len(q) \in Nat /\ \A i \in 1 .. Len(q) : q[i] \in Nat
  BY BufsAre
<1>1. PICK u \in Seq(Bufs) : u = Tail(q)
  <2>1. Tail(q) \in Seq(Bufs)
    BY HeadTailProperties
  <2> QED BY <2>1, Zenon
<1>2. PICK l \in Nat : l + 1 = Len(q) /\ l = Len(u)
  <2>1. Len(q) # 0 /\ Len(Tail(q)) = Len(q) - 1
    BY HeadTailProperties, EmptySeq
  <2>2. Len(q) - 1 \in Nat /\ (Len(q) - 1) + 1 = Len(q)
    BY <1>0, <2>1
  <2>3. Len(q) - 1 = Len(u)
    BY <1>1, <2>1, Zenon
  <2> QED BY <2>2, <2>3, Zenon
<1>3. \A i \in 1 .. l : u[i] = q[i + 1] /\ i + 1 \in 1 .. l + 1
  BY <1>1, <1>2
<1>4. Head(q) = q[1] /\ q[1] \in Bufs /\ Start(q, d) = q[1] /\ 1 \in 1 .. l + 1
  BY <1>2 DEF Start
<1>5. \A i \in 1 .. l : EndOf(u, d, i) = EndOf(q, d, i + 1)
  <2> TAKE i \in 1 .. l
  <2>1. CASE i < l
    <3>1. u[i + 1] = q[i + 1 + 1] /\ i + 1 < l + 1
      BY <1>3, <2>1
    <3> QED BY <1>2, <2>1, <3>1 DEF EndOf
  <2>2. CASE ~(i < l)
    <3>1. ~(i + 1 < l + 1)
      BY <2>2
    <3> QED BY <1>2, <2>2, <3>1 DEF EndOf
  <2> QED BY <2>1, <2>2
<1>6. ASSUME NEW i \in 1 .. l PROVE u[i] <= d /\ Row(m, u[i], EndOf(u, d, i))
  <2>1. i + 1 \in 1 .. Len(q) /\ u[i] = q[i + 1] /\ EndOf(u, d, i) = EndOf(q, d, i + 1)
    BY <1>2, <1>3, <1>5
  <2> QED BY <2>1 DEF Queued
<1>7. ASSUME NEW i \in 1 .. l, NEW j \in 1 .. l, i < j PROVE u[i] < u[j]
  <2>1. /\ i + 1 \in 1 .. Len(q) /\ u[i] = q[i + 1] /\ j + 1 \in 1 .. Len(q) /\ u[j] = q[j + 1]
        /\ i + 1 < j + 1
    BY <1>2, <1>3, <1>7
  <2> QED BY <2>1 DEF Queued
<1>8. Queued(m, u, d)
  BY <1>2, <1>6, <1>7 DEF Queued
<1>9. EndOf(q, d, 1) = Start(u, d) - 1
  <2>1. CASE u = <<>>
    <3>1. l = 0
      BY <1>2, <2>1
    <3>2. ~(1 < Len(q))
      <4>1. 0 + 1 = Len(q)
        BY <1>2, <3>1
      <4> QED BY <1>0, <4>1
    <3> QED BY <1>0, <2>1, <3>2 DEF EndOf, Start
  <2>2. CASE u # <<>>
    <3>1. l # 0
      BY <1>2, <2>2
    <3>2. 1 < Len(q) /\ 1 \in 1 .. l
      BY <1>2, <3>1
    <3>3. u[1] = q[1 + 1]
      BY <1>3, <3>2
    <3> QED BY <2>2, <3>2, <3>3 DEF EndOf, Start
  <2> QED BY <2>1, <2>2
<1>10. Row(m, q[1], EndOf(q, d, 1))
  BY <1>2, <1>4 DEF Queued
<1> QED BY <1>1, <1>4, <1>8, <1>9, <1>10

LEMMA QueuedMore ==
  ASSUME NEW m, NEW h, NEW q \in Seq(Bufs), NEW d \in Pointers, NEW e, Queued(m, q, d),
         Row(h, d + 1, e), \A b \in Bufs : b <= d => h[b].next = m[b].next
  PROVE  /\ Queued(h, Append(q, d + 1), e) /\ Append(q, d + 1) \in Seq(Bufs)
         /\ Start(Append(q, d + 1), e) = Start(q, d)
<1>0. /\ d \in Nat /\ Bufs \subseteq Nat /\ d + 1 \in Bufs /\ e \in Nat /\ d < e
      /\ \A i \in 1 .. Len(q) : q[i] \in Bufs
  BY BufsAre DEF Row
<1>1. Queued(h, q, d)
  BY QueuedKept
<1>2. PICK x \in Bufs : x = d + 1
  BY <1>0
<1>3. PICK u \in Seq(Bufs) : u = Append(q, x)
  <2>1. Append(q, x) \in Seq(Bufs)
    BY AppendProperties
  <2> QED BY <2>1, Zenon
<1>4. PICK l \in Nat : l = Len(q) /\ Len(u) = l + 1
  BY <1>3
<1>5. u[l + 1] = x /\ \A i \in 1 .. l : u[i] = q[i]
  BY <1>3, <1>4
<1>6. \A i \in 1 .. l : EndOf(u, e, i) = EndOf(q, d, i)
  <2> TAKE i \in 1 .. l
  <2>1. i < l + 1
    OBVIOUS
  <2>2. CASE i < l
    <3>1. i + 1 \in 1 .. l
      BY <2>2
    <3>2. u[i + 1] = q[i + 1]
      BY <1>5, <3>1
    <3> QED BY <1>4, <2>1, <2>2, <3>2 DEF EndOf
  <2>3. CASE ~(i < l)
    <3>1. i + 1 = l + 1
      BY <2>3
    <3>2. u[i + 1] - 1 = d
      BY <1>0, <1>2, <1>5, <3>1
    <3> QED BY <1>4, <2>1, <2>3, <3>2 DEF EndOf
  <2> QED BY <2>2, <2>3
<1>7. EndOf(u, e, l + 1) = e
  <2>1. ~(l + 1 < l + 1)
    OBVIOUS
  <2> QED BY <1>4, <2>1 DEF EndOf
<1>8. ASSUME NEW i \in 1 .. l + 1 PROVE u[i] <= e /\ Row(h, u[i], EndOf(u, e, i))
  <2>1. CASE i = l + 1
    BY <1>0, <1>2, <1>5, <1>7, <2>1
  <2>2. CASE i # l + 1
    <3>1. i \in 1 .. l
      BY <2>2
    <3>2. q[i] <= d /\ Row(h, q[i], EndOf(q, d, i)) /\ q[i] \in Nat
      BY <1>0, <1>1, <1>4, <3>1 DEF Queued
    <3> QED BY <1>0, <1>5, <1>6, <3>1, <3>2
  <2> QED BY <2>1, <2>2
<1>9. ASSUME NEW i \in 1 .. l + 1, NEW j \in 1 .. l + 1, i < j PROVE u[i] < u[j]
  <2>0. i \in 1 .. l
    BY <1>9
  <2>1. CASE j = l + 1
    <3>1. q[i] <= d /\ q[i] \in Nat
      BY <1>0, <1>1, <1>4, <2>0 DEF Queued
    <3> QED BY <1>0, <1>2, <1>5, <2>0, <2>1, <3>1
  <2>2. CASE j # l + 1
    <3>1. j \in 1 .. l
      BY <2>2
    <3>2. q[i] < q[j]
      BY <1>1, <1>4, <1>9, <2>0, <3>1 DEF Queued
    <3> QED BY <1>5, <2>0, <3>1, <3>2
  <2> QED BY <2>1, <2>2
<1>10. Queued(h, u, e)
  BY <1>4, <1>8, <1>9 DEF Queued
<1>11. Start(u, e) = Start(q, d)
  <2>1. u # <<>>
    BY <1>4
  <2>2. CASE q = <<>>
    <3>1. l = 0
      BY <1>4, <2>2
    <3> QED BY <1>2, <1>5, <2>1, <2>2, <3>1 DEF Start
  <2>3. CASE q # <<>>
    <3>1. 1 \in 1 .. l
      BY <1>4, <2>3
    <3> QED BY <1>5, <2>1, <2>3, <3>1 DEF Start
  <2> QED BY <2>2, <2>3
<1> QED BY <1>2, <1>3, <1>10, <1>11

\* The queue holds every buffer from its first to the last one filled.
LEMMA QueuedLinked ==
  ASSUME NEW m, Links(m), NEW q \in Seq(Bufs), NEW d \in Pointers, Queued(m, q, d)
  PROVE  UNION {Linked(m, q[i]) : i \in DOMAIN q} = Start(q, d) .. d
<1>0. d \in Nat /\ DOMAIN q = 1 .. Len(q)
  BY BufsAre
<1>1. PICK l \in Nat : l = Len(q)
  OBVIOUS
<1>2. PICK s \in Nat : s = Start(q, d) /\ 1 <= s /\ s <= d + 1
  BY QueuedStart
<1>3. \A i \in 1 .. l : /\ Linked(m, q[i]) = q[i] .. EndOf(q, d, i) /\ s <= q[i]
                        /\ EndOf(q, d, i) <= d /\ q[i] \in Nat /\ EndOf(q, d, i) \in Nat
  <2> TAKE i \in 1 .. l
  <2>1. Row(m, q[i], EndOf(q, d, i)) /\ s <= q[i] /\ EndOf(q, d, i) <= d
    BY <1>1, <1>2, QueuedStart DEF Queued
  <2> QED BY <2>1, RowLinked, BufsAre DEF Row
<1>4. ASSUME NEW b \in s .. d PROVE \E i \in 1 .. l : b \in q[i] .. EndOf(q, d, i)
  <2> DEFINE T == {i \in 1 .. l : b <= EndOf(q, d, i)}
  <2>1. q # <<>>
    BY <1>0, <1>2 DEF Start
  <2>2. l >= 1 /\ q[1] = s
    BY <1>1, <1>2, <2>1 DEF Start
  <2>3. EndOf(q, d, l) = d
    BY <1>1 DEF EndOf
  <2>4. l \in T /\ T \subseteq Nat
    BY <1>0, <2>2, <2>3
  <2>5. PICK i \in T : \A y \in T : i <= y
    <3> HIDE DEF T
    <3> QED BY <2>4, Least
  <2>6. i \in 1 .. l /\ b <= EndOf(q, d, i)
    BY <2>5
  <2>7. q[i] <= b
    <3>1. CASE i = 1
      BY <1>2, <2>2, <3>1
    <3>2. CASE i # 1
      <4>1. i - 1 \in 1 .. l /\ i - 1 < i /\ (i - 1) + 1 = i /\ i - 1 < l
        BY <2>6, <3>2
      <4>2. i - 1 \notin T
        BY <2>5, <4>1
      <4>3. EndOf(q, d, i - 1) = q[i] - 1
        BY <1>1, <4>1 DEF EndOf
      <4>4. ~(b <= q[i] - 1)
        BY <4>1, <4>2, <4>3
      <4>5. q[i] \in Nat
        BY <1>3, <2>6
      <4> QED BY <1>2, <4>4, <4>5
    <3> QED BY <3>1, <3>2
  <2>8. b \in Nat /\ q[i] \in Nat /\ EndOf(q, d, i) \in Nat
    BY <1>2, <1>3, <2>6
  <2>9. b \in q[i] .. EndOf(q, d, i)
    BY <2>6, <2>7, <2>8
  <2> QED BY <2>6, <2>9
<1>5. ASSUME NEW i \in 1 .. l, NEW b \in q[i] .. EndOf(q, d, i) PROVE b \in s .. d
  BY <1>0, <1>3
<1>6. \A b : b \in UNION {Linked(m, q[i]) : i \in DOMAIN q} <=> \E i \in 1 .. l : b \in Linked(m, q[i])
  BY <1>0, <1>1
<1>7. ASSUME NEW b PROVE b \in UNION {Linked(m, q[i]) : i \in DOMAIN q} <=> b \in s .. d
  <2>1. \A i \in 1 .. l : b \in Linked(m, q[i]) <=> b \in q[i] .. EndOf(q, d, i)
    BY <1>3
  <2>2. (\E i \in 1 .. l : b \in Linked(m, q[i])) <=> b \in s .. d
    BY <1>4, <1>5, <2>1, Zenon
  <2> QED BY <1>6, <2>2, Zenon
<1> QED BY <1>2, <1>7

-----------------------------------------------------------------------------
(* The shadow, when u is the first buffer that was not read yet: what is   *)
(* left after it is the chain up to u.                                     *)

ShadowAt(m, k, u) ==
  /\ k.shadow = NULL => k.next = NULL
  /\ k.shadow # NULL =>
       /\ k.shadow < u
       /\ k.shadow = u - 1 => k.next = NULL
       /\ k.shadow < u - 1 => k.next = k.shadow + 1 /\ Row(m, k.shadow + 1, u - 1)

\* The bytes up to buffer d that were not read.
RestOf(m, k, u, d) ==
  IF k.shadow = NULL THEN Span(m, u, d)
  ELSE Cat(Piece(k.shadow, m[k.shadow].off + k.delivered, k.remainder), Span(m, k.shadow + 1, d))

\* Where the chain that starts before u ends, as far as the application holds it.
LastOf(k, u) == IF k.shadow = NULL THEN u - 1 ELSE k.shadow

LEMMA GetIs ==
  ASSUME NEW m, Links(m), NEW k \in Socks, NEW u \in Nat, 1 <= u, u - 1 <= MaxBufs,
         u > 1 => m[u - 1].next = NULL, ShadowAt(m, k, u)
  PROVE  LET g == GetFromShadow(m, k)
         IN /\ Links(g.m) /\ NoShadow(g.k)
            /\ \A b \in Bufs \ {k.shadow} : g.m[b] = m[b]
            /\ k.shadow # NULL =>
                 /\ Row(g.m, k.shadow, u - 1)
                 /\ Bytes(g.m, k.shadow) = Piece(k.shadow, m[k.shadow].off + k.delivered, k.remainder)
<1>1. PICK g : g = GetFromShadow(m, k)
  OBVIOUS
<1>2. CASE k.shadow = NULL
  <2>1. g.m = m /\ g.k = k
    BY <1>1, <1>2 DEF GetFromShadow
  <2> QED BY <1>1, <1>2, <2>1 DEF ShadowAt, NoShadow
<1>3. CASE k.shadow # NULL
  <2>0. /\ k.shadow \in Pointers /\ k.next \in Pointers /\ k.remainder \in Nat /\ k.delivered \in Nat
        /\ NULL \in Pointers
    BY BufsAre DEF Socks
  <2>1. PICK p \in Bufs : p = k.shadow /\ p \in Nat
    BY <1>3, <2>0, BufsAre
  <2>2. PICK c : c = IF m[p].next = NULL THEN k.remainder ELSE k.remainder + m[m[p].next].pkt
    OBVIOUS
  <2>3. c \in Nat
    <3>1. m[p].next \in Pointers /\ (m[p].next # NULL => m[m[p].next].pkt \in Nat)
      BY NextOf, BufsAre
    <3> QED BY <2>0, <2>2, <3>1
  <2>4. /\ g.m = [m EXCEPT ![p] = [off |-> m[p].off + k.delivered, len |-> k.remainder,
                                   next |-> k.next, pkt |-> c]]
        /\ g.k = [k EXCEPT !.shadow = NULL, !.next = NULL]
    BY <1>1, <1>3, <2>1, <2>2 DEF GetFromShadow
  <2>5. NoShadow(g.k)
    BY <2>0, <2>4 DEF NoShadow, Socks
  <2>6. m \in [Bufs -> Mbuf] /\ m[p].off + k.delivered \in Nat
    BY <2>0, NextOf DEF Links
  <2>7. /\ g.m \in [Bufs -> Mbuf] /\ \A b \in Bufs \ {p} : g.m[b] = m[b]
        /\ g.m[p].next = k.next /\ g.m[p].off = m[p].off + k.delivered /\ g.m[p].len = k.remainder
    BY <2>0, <2>3, <2>4, <2>6 DEF Mbuf
  <2>8. /\ p < u /\ (p = u - 1 => k.next = NULL)
        /\ (p < u - 1 => k.next = p + 1 /\ Row(m, p + 1, u - 1))
    BY <1>3, <2>1 DEF ShadowAt
  <2>9. Links(g.m)
    <3>1. k.next \in {NULL, p + 1}
      BY <2>1, <2>8
    <3> QED BY <2>7, <3>1 DEF Links
  <2>10. Row(g.m, p, u - 1)
    <3>1. CASE p = u - 1
      <4>1. g.m[p].next = NULL
        BY <2>7, <2>8, <3>1
      <4> QED BY <2>1, <3>1, <4>1 DEF Row
    <3>2. CASE p < u - 1
      <4>1. Row(m, p + 1, u - 1) /\ g.m[p].next = p + 1
        BY <2>7, <2>8, <3>2
      <4>2. p + 1 .. u - 1 \subseteq Bufs
        BY <4>1, RowBounds
      <4>3. \A b \in p + 1 .. u - 1 : g.m[b] = m[b]
        BY <2>1, <2>7, <4>2
      <4>4. \A b \in p + 1 .. u - 1 : g.m[b].next = m[b].next
        BY <4>3
      <4>5. Row(g.m, p + 1, u - 1)
        BY <4>1, <4>4, RowKept
      <4>6. \A b \in p .. u - 1 - 1 : g.m[b].next = b + 1
        <5> TAKE b \in p .. u - 1 - 1
        <5>1. CASE b = p
          BY <4>1, <5>1
        <5>2. CASE b # p
          <6>1. b \in p + 1 .. u - 1 - 1
            BY <2>1, <5>2
          <6> QED BY <4>5, <6>1 DEF Row
        <5> QED BY <5>1, <5>2
      <4>7. u - 1 \in Bufs /\ g.m[u - 1].next = NULL /\ p <= u - 1
        BY <2>1, <3>2, <4>5 DEF Row
      <4> QED BY <2>1, <4>6, <4>7 DEF Row
    <3> QED BY <2>1, <2>8, <3>1, <3>2
  <2>11. Bytes(g.m, p) = Piece(p, m[p].off + k.delivered, k.remainder)
    BY <2>7 DEF Bytes, Piece
  <2> QED BY <1>1, <2>1, <2>5, <2>7, <2>9, <2>10, <2>11
<1> QED BY <1>2, <1>3

\* Of what a read returns, what the state keeps.
After(m, s, f, n, r) ==
  /\ Links(r.m) /\ r.k \in Socks
  /\ \A b \in Bufs : b < s \/ f < b => r.m[b] = m[b]
  /\ r.m[f].next = NULL
  /\ ShadowAt(r.m, r.k, f + 1) /\ (r.k.shadow # NULL => s <= r.k.shadow)
  /\ r.total \in Nat /\ r.first \in Nat /\ r.cut \in BOOLEAN /\ r.at \in BOOLEAN
  /\ Size(r.m, s) \in Nat /\ r.m[s].len \in Nat
  /\ n > 0 => /\ r.total = Size(r.m, s) \/ Size(r.m, s) = 0
              /\ r.total <= n
              /\ r.total < n => r.k.shadow = NULL
              /\ ~r.cut => r.first = r.m[s].len

\* A read that does not end between two buffers also keeps the order, and
\* returns a chain that ends with the shadow.
Orderly(m, s, f, r) ==
  /\ \A d \in Pointers : f <= d =>
       Cat(Contents(r.m, s), RestOf(r.m, r.k, f + 1, d)) = Span(m, s, d)
  /\ Row(r.m, s, LastOf(r.k, f + 1))
  /\ r.k.shadow # NULL => r.m[r.k.shadow].next = NULL

LEMMA AllAfter ==
  ASSUME NEW m, Links(m), NEW s, NEW f, NEW k, NoShadow(k), NEW n, NEW r,
         ReturnsAll(m, s, f, k, n, r)
  PROVE  After(m, s, f, n, r) /\ Orderly(m, s, f, r)
<1>1. /\ Links(r.m) /\ Row(r.m, s, f) /\ r.k = k
      /\ \A b \in Bufs : r.m[b].off = m[b].off /\ r.m[b].len = m[b].len
      /\ \A b \in Bufs : b < s \/ f < b => r.m[b] = m[b]
  BY DEF ReturnsAll, Joined
<1>2. /\ s \in Nat /\ f \in Nat /\ 1 <= s /\ s <= f /\ s .. f \subseteq Bufs /\ s \in Bufs
      /\ s \in s .. f /\ f \in Bufs /\ s \in Pointers
  BY <1>1, RowBounds, BufsAre
<1>3. k \in Socks /\ k.shadow = NULL /\ k.next = NULL
  BY DEF NoShadow
<1>4. Size(r.m, s) \in Nat /\ r.m[s].len \in Nat /\ r.m[f].next = NULL
  BY <1>1, <1>2, RowSize DEF Row
<1>5. ShadowAt(r.m, r.k, f + 1)
  BY <1>1, <1>3 DEF ShadowAt
<1>6. After(m, s, f, n, r)
  BY <1>1, <1>3, <1>4, <1>5 DEF After, ReturnsAll
<1>7. ASSUME NEW d \in Pointers, f <= d
      PROVE  Cat(Contents(r.m, s), RestOf(r.m, r.k, f + 1, d)) = Span(m, s, d)
  <2>1. Contents(r.m, s) = Span(r.m, s, f)
    BY <1>1, RowContents
  <2>2. RestOf(r.m, r.k, f + 1, d) = Span(r.m, f + 1, d)
    BY <1>1, <1>3 DEF RestOf
  <2>3. PICK x \in Nat : x = f + 1 /\ f = x - 1
    BY <1>2
  <2>4. s <= x /\ x - 1 <= d
    BY <1>2, <1>7, <2>3
  <2>5. Span(r.m, s, d) = Cat(Span(r.m, s, x - 1), Span(r.m, x, d))
    BY <1>1, <1>2, <2>4, SpanSplits
  <2>6. Span(r.m, s, d) = Span(m, s, d)
    <3>1. d \in Nat /\ d <= MaxBufs
      BY BufsAre
    <3>2. ASSUME NEW b \in s .. d PROVE Bytes(r.m, b) = Bytes(m, b)
      <4>1. b \in Bufs
        BY <1>2, <3>1, BufsAre
      <4> QED BY <1>1, <4>1 DEF Bytes
    <3> QED BY <1>1, <1>2, <3>2, SpanSame
  <2> QED BY <2>1, <2>2, <2>3, <2>5, <2>6
<1>8. LastOf(r.k, f + 1) = f
  BY <1>1, <1>2, <1>3 DEF LastOf
<1>9. Orderly(m, s, f, r)
  BY <1>1, <1>3, <1>7, <1>8 DEF Orderly
<1> QED BY <1>6, <1>9

LEMMA PartAfter ==
  ASSUME NEW m, Links(m), NEW s, NEW f, NEW k, NoShadow(k), NEW n \in Nat, n > 0, NEW r, NEW j,
         NEW t \in s .. f, NEW left \in Nat, left < j[t].len,
         ReturnsPart(m, s, f, k, n, r, j, t, left)
  PROVE  After(m, s, f, n, r) /\ (~r.at => Orderly(m, s, f, r))
<1>1. /\ Links(j) /\ Row(j, s, f) /\ r.m = Cut(j, t, left)
      /\ \A b \in Bufs : j[b].off = m[b].off /\ j[b].len = m[b].len
      /\ \A b \in Bufs : b < s \/ f < b => j[b] = m[b]
  BY DEF ReturnsPart, Joined
<1>2. /\ s \in Nat /\ f \in Nat /\ 1 <= s /\ s <= f /\ s .. f \subseteq Bufs /\ s \in Bufs
      /\ f \in Bufs /\ f <= MaxBufs
  BY <1>1, RowBounds, BufsAre
<1>3. t \in Nat /\ t \in Bufs /\ s <= t /\ t <= f
  BY <1>2
<1>4. PICK l \in Nat : l = j[t].len /\ left < l /\ l - left \in Nat
  BY <1>1, <1>3, NextOf
<1>5. /\ Links(r.m) /\ \A b \in Bufs \ {t} : r.m[b] = j[b]
      /\ r.m[t].next = NULL /\ r.m[t].len = l - left /\ r.m[t].off = j[t].off
  BY <1>1, <1>3, <1>4, CutIs
<1>6. Row(r.m, s, t)
  BY <1>1, <1>4, CutRow
<1>7. k \in Socks /\ k.shadow = NULL /\ k.next = NULL
  BY DEF NoShadow
<1>8. j[f].next = NULL /\ \A b \in s .. f - 1 : j[b].next = b + 1
  BY <1>1 DEF Row
<1>9. \A b \in t + 1 .. f : Row(r.m, b, f)
  <2> TAKE b \in t + 1 .. f
  <2>1. b \in s .. f /\ \A c \in b .. f : c \in Bufs \ {t}
    BY <1>2, <1>3
  <2>2. Row(j, b, f)
    BY <1>1, <2>1, RowTail
  <2>3. \A c \in b .. f : r.m[c] = j[c]
    BY <1>5, <2>1
  <2>4. \A c \in b .. f : r.m[c].next = j[c].next
    BY <2>3
  <2> QED BY <2>2, <2>4, RowKept
<1>10. r.m[f].next = NULL
  BY <1>2, <1>5, <1>8
<1>11. \A b \in Bufs : b < s \/ f < b => r.m[b] = m[b]
  <2> TAKE b \in Bufs
  <2>1. b \in Nat
    BY BufsAre
  <2>2. b < s \/ f < b => b # t
    BY <1>2, <1>3, <2>1
  <2> QED BY <1>1, <1>5, <2>2
<1>12. r.k = IF left > 0 THEN EndInside(j, t, left) ELSE EndAt(j, k, j[t].next)
  BY DEF ReturnsPart
<1>13. j[t].next \in {NULL, t + 1} /\ j[t].next \in Pointers /\ (j[t].next = NULL <=> t = f)
  <2>1. j[t].next \in Pointers /\ j[t].next \in {NULL, t + 1} /\ t + 1 # NULL
    BY <1>1, <1>3, NextOf, BufsAre
  <2>2. t # f => j[t].next = t + 1
    <3> SUFFICES ASSUME t # f PROVE j[t].next = t + 1
      OBVIOUS
    <3>1. t \in s .. f - 1
      BY <1>2, <1>3
    <3> QED BY <1>8, <3>1
  <2> QED BY <1>8, <2>1, <2>2
<1>14. /\ r.k \in Socks /\ ShadowAt(r.m, r.k, f + 1)
       /\ (r.k.shadow # NULL => s <= r.k.shadow)
  <2>1. CASE left > 0
    <3>1. r.k = [shadow |-> t, next |-> j[t].next, remainder |-> left, delivered |-> l - left]
      BY <1>4, <1>12, <2>1 DEF EndInside
    <3>2. r.k.shadow = t /\ r.k.next = j[t].next
      BY <3>1
    <3>3. t \in Pointers
      BY <1>3, BufsAre
    <3>4. r.k \in Socks
      BY <1>4, <1>13, <3>1, <3>3 DEF Socks
    <3>5. /\ t < f + 1 /\ (f + 1) - 1 = f
          /\ (t = f => j[t].next = NULL)
          /\ (t < f => j[t].next = t + 1 /\ Row(r.m, t + 1, f))
      <4>1. t < f => t + 1 \in t + 1 .. f /\ t # f
        BY <1>2, <1>3
      <4> QED BY <1>2, <1>3, <1>9, <1>13, <4>1
    <3>6. ShadowAt(r.m, r.k, f + 1)
      BY <1>3, <3>2, <3>5, BufsAre DEF ShadowAt
    <3> QED BY <1>3, <3>2, <3>4, <3>6
  <2>2. CASE ~(left > 0) /\ j[t].next = NULL
    <3>1. r.k = k
      BY <1>12, <2>2 DEF EndAt
    <3> QED BY <1>7, <3>1 DEF ShadowAt
  <2>3. CASE ~(left > 0) /\ j[t].next # NULL
    <3>1. PICK v : v = j[t].next
      OBVIOUS
    <3>2. v = t + 1 /\ v \in Bufs /\ v \in Nat /\ v <= f /\ v # NULL /\ v \in Pointers
      BY <1>2, <1>3, <1>13, <2>3, <3>1, BufsAre
    <3>3. r.k = EndAt(j, k, v)
      BY <1>12, <2>3, <3>1
    <3>4. CASE j[v].next = NULL
      <4>1. r.k = [k EXCEPT !.shadow = v, !.next = NULL]
        BY <3>2, <3>3, <3>4 DEF EndAt
      <4>2. r.k.shadow = v /\ r.k.next = NULL /\ r.k \in Socks
        BY <1>7, <3>2, <4>1, BufsAre DEF Socks
      <4>3. v = f
        <5>1. v # f => v \in s .. f - 1
          BY <1>2, <1>3, <3>2
        <5>2. v + 1 # NULL
          BY <3>2, BufsAre
        <5> QED BY <1>8, <3>4, <5>1, <5>2
      <4>4. ShadowAt(r.m, r.k, f + 1)
        BY <1>2, <4>2, <4>3 DEF ShadowAt
      <4> QED BY <1>2, <4>2, <4>3, <4>4
    <3>5. CASE j[v].next # NULL
      <4>1. PICK w : w = j[v].next
        OBVIOUS
      <4>2. w = v + 1 /\ w \in Bufs /\ w \in Pointers
        BY <1>1, <3>2, <3>5, <4>1, NextOf, BufsAre
      <4>3. v < f
        BY <1>2, <1>8, <3>2, <3>5
      <4>4. j[w].len \in Nat
        BY <1>1, <4>2, NextOf
      <4>5. r.k = [shadow |-> v, next |-> w, remainder |-> j[w].len, delivered |-> 0]
        BY <3>2, <3>3, <3>5, <4>1 DEF EndAt
      <4>6. r.k.shadow = v /\ r.k.next = v + 1 /\ r.k \in Socks
        BY <3>2, <4>2, <4>4, <4>5 DEF Socks
      <4>7. Row(r.m, v + 1, f)
        <5>1. v + 1 \in t + 1 .. f
          BY <1>2, <1>3, <3>2, <4>3
        <5> QED BY <1>9, <5>1
      <4>8. v < f + 1 /\ (f + 1) - 1 = f /\ v # f /\ v < f
        BY <1>2, <3>2, <4>3
      <4>9. ShadowAt(r.m, r.k, f + 1)
        BY <3>2, <4>6, <4>7, <4>8 DEF ShadowAt
      <4> QED BY <1>2, <1>3, <3>2, <4>6, <4>9
    <3> QED BY <3>4, <3>5
  <2> QED BY <2>1, <2>2, <2>3
<1>15. Size(r.m, s) \in Nat /\ r.m[s].len \in Nat
  <2>1. s \in s .. t
    BY <1>2, <1>3
  <2> QED BY <1>5, <1>6, <2>1, RowSize
<1>16. After(m, s, f, n, r)
  <2>1. /\ r.total = n /\ Size(r.m, s) = n /\ r.first \in Nat /\ r.cut \in BOOLEAN
        /\ (~r.cut => r.first = r.m[s].len) /\ r.at \in BOOLEAN
    BY DEF ReturnsPart
  <2>2. /\ r.total = Size(r.m, s) /\ r.total <= n /\ ~(r.total < n) /\ r.total \in Nat
    BY <2>1
  <2> QED BY <1>5, <1>10, <1>11, <1>14, <1>15, <2>1, <2>2 DEF After
<1>17. ASSUME ~r.at PROVE Orderly(m, s, f, r)
  <2>1. left > 0 \/ (left = 0 /\ j[t].next = NULL)
    <3>1. ~(left = 0 /\ j[t].next # NULL)
      BY <1>17, Zenon DEF ReturnsPart
    <3> QED BY <3>1
  <2>2. Row(r.m, s, LastOf(r.k, f + 1)) /\ (r.k.shadow # NULL => r.m[r.k.shadow].next = NULL)
    <3>1. CASE left > 0
      <4>1. r.k.shadow = t /\ t # NULL
        BY <1>3, <1>12, <3>1, BufsAre DEF EndInside
      <4> QED BY <1>5, <1>6, <4>1 DEF LastOf
    <3>2. CASE left = 0 /\ j[t].next = NULL
      <4>1. r.k = k /\ t = f /\ f + 1 - 1 = f
        BY <1>2, <1>12, <1>13, <3>2 DEF EndAt
      <4> QED BY <1>6, <1>7, <4>1 DEF LastOf
    <3> QED BY <2>1, <3>1, <3>2
  <2>3. ASSUME NEW d \in Pointers, f <= d
        PROVE  Cat(Contents(r.m, s), RestOf(r.m, r.k, f + 1, d)) = Span(m, s, d)
    <3>0. d \in Nat /\ d <= MaxBufs /\ t <= d
      BY <1>2, <1>3, <2>3, BufsAre
    <3>1. PICK z : z = Piece(t, j[t].off + (l - left), left)
      OBVIOUS
    <3>2. PICK w : w = Span(j, t + 1, d)
      OBVIOUS
    <3>3. t + 1 \in Nat /\ t + 1 >= 1
      BY <1>3
    <3>4. w \in Seq(Byte)
      BY <1>1, <3>2, <3>3, SpanUnfolds
    <3>5. Span(j, s, d) = Cat(Contents(r.m, s), Cat(z, w))
      <4>1. left <= j[t].len
        BY <1>4
      <4> QED BY <1>1, <1>4, <3>0, <3>1, <3>2, <4>1, CutSpan
    <3>6. Span(j, s, d) = Span(m, s, d)
      <4>1. ASSUME NEW b \in s .. d PROVE Bytes(j, b) = Bytes(m, b)
        <5>1. b \in Bufs
          BY <1>2, <3>0, BufsAre
        <5> QED BY <1>1, <5>1 DEF Bytes
      <4> QED BY <1>1, <1>2, <4>1, SpanSame
    <3>7. Span(r.m, t + 1, d) = w
      <4>1. ASSUME NEW b \in t + 1 .. d PROVE Bytes(r.m, b) = Bytes(j, b)
        <5>1. b \in Bufs \ {t}
          BY <1>3, <3>0, BufsAre
        <5> QED BY <1>5, <5>1 DEF Bytes
      <4> QED BY <1>1, <1>5, <3>2, <3>3, <4>1, SpanSame
    <3>8. RestOf(r.m, r.k, f + 1, d) = Cat(z, w)
      <4>1. CASE left > 0
        <5>1. r.k.shadow = t /\ r.k.remainder = left /\ r.k.delivered = l - left /\ t # NULL
          BY <1>3, <1>4, <1>12, <4>1, BufsAre DEF EndInside
        <5> QED BY <1>5, <3>1, <3>7, <5>1 DEF RestOf
      <4>2. CASE left = 0 /\ j[t].next = NULL
        <5>1. r.k = k /\ t = f
          BY <1>12, <1>13, <4>2 DEF EndAt
        <5>2. RestOf(r.m, r.k, f + 1, d) = w
          BY <1>7, <3>7, <5>1 DEF RestOf
        <5>3. z = <<>>
          <6>1. j[t].off + (l - left) \in Nat
            BY <1>1, <1>3, <1>4, NextOf
          <6>2. z \in Seq(Byte) /\ Len(z) = 0
            BY <1>3, <3>1, <4>2, <6>1, PieceTyped
          <6> QED BY <6>2, EmptySeq
        <5>4. Cat(<<>>, w) = w
          BY <3>4, CatTyped
        <5> QED BY <5>2, <5>3, <5>4
      <4> QED BY <2>1, <4>1, <4>2
    <3> QED BY <3>5, <3>6, <3>8
  <2> QED BY <2>2, <2>3 DEF Orderly
<1> QED BY <1>16, <1>17

LEMMA ReturnsAfter ==
  ASSUME NEW m, Links(m), NEW s, NEW f, NEW k, NoShadow(k), NEW n \in Nat, NEW r,
         Returns(m, s, f, k, n, r)
  PROVE  After(m, s, f, n, r) /\ (~r.at => Orderly(m, s, f, r))
<1>1. CASE ReturnsAll(m, s, f, k, n, r)
  BY <1>1, AllAfter
<1>2. CASE n > 0 /\ \E j : \E t \in s .. f, left \in Nat :
             left < j[t].len /\ ReturnsPart(m, s, f, k, n, r, j, t, left)
  <2>1. PICK j : \E t \in s .. f, left \in Nat :
             left < j[t].len /\ ReturnsPart(m, s, f, k, n, r, j, t, left)
    BY <1>2, Zenon
  <2>2. PICK t \in s .. f, left \in Nat :
             left < j[t].len /\ ReturnsPart(m, s, f, k, n, r, j, t, left)
    BY <2>1, Zenon
  <2> QED BY <1>2, <2>2, PartAfter
<1> QED BY <1>1, <1>2 DEF Returns

\* A read from a first buffer with data returns data, and what it leaves of a
\* buffer is not nothing.
LEMMA ReturnsFills ==
  ASSUME NEW m, Links(m), NEW s, NEW f, NEW k, NoShadow(k), NEW n \in Nat, NEW r,
         Returns(m, s, f, k, n, r), m[s].len > 0
  PROVE  /\ n > 0 => Size(r.m, s) # 0
         /\ ~r.at /\ r.k.shadow # NULL => r.k.remainder > 0
<1>1. CASE ReturnsAll(m, s, f, k, n, r)
  <2>1. /\ Links(r.m) /\ Row(r.m, s, f) /\ r.k = k
        /\ \A b \in Bufs : r.m[b].len = m[b].len
    BY <1>1 DEF ReturnsAll, Joined
  <2>2. s \in Bufs /\ k.shadow = NULL
    BY <2>1 DEF Row, NoShadow
  <2>3. PICK h : h = r.m
    OBVIOUS
  <2>4. h[s].next \in Pointers /\ h[s].len \in Nat /\ h[s].len > 0
    BY <2>1, <2>2, <2>3, NextOf
  <2>5. Size(h, s) = h[s].len + Size(h, h[s].next) /\ Size(h, h[s].next) \in Nat
    BY <2>1, <2>2, <2>3, <2>4, SizeUnfolds
  <2> QED BY <2>1, <2>2, <2>3, <2>4, <2>5
<1>2. CASE n > 0 /\ \E j : \E t \in s .. f, left \in Nat :
             left < j[t].len /\ ReturnsPart(m, s, f, k, n, r, j, t, left)
  <2>1. PICK j : \E t \in s .. f, left \in Nat :
             left < j[t].len /\ ReturnsPart(m, s, f, k, n, r, j, t, left)
    BY <1>2, Zenon
  <2>2. PICK t \in s .. f, left \in Nat :
             left < j[t].len /\ ReturnsPart(m, s, f, k, n, r, j, t, left)
    BY <2>1, Zenon
  <2>3. /\ r.k = IF left > 0 THEN EndInside(j, t, left) ELSE EndAt(j, k, j[t].next)
        /\ r.at = (left = 0 /\ j[t].next # NULL) /\ Size(r.m, s) = n
    BY <2>2 DEF ReturnsPart
  <2>4. CASE left > 0
    <3>1. r.k.remainder = left
      BY <2>3, <2>4 DEF EndInside
    <3> QED BY <1>2, <2>3, <2>4, <3>1
  <2>5. CASE ~(left > 0)
    <3>1. left = 0
      BY <2>5
    <3>2. ~r.at => j[t].next = NULL
      BY <2>3, <3>1
    <3>3. ~r.at => r.k = k
      BY <2>3, <2>5, <3>2 DEF EndAt
    <3> QED BY <1>2, <2>3, <3>3 DEF NoShadow
  <2> QED BY <2>4, <2>5
<1> QED BY <1>1, <1>2 DEF Returns
=============================================================================
