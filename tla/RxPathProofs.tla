---------------------------- MODULE RxPathProofs ----------------------------
(***************************************************************************)
(* The inductive invariant of RxPath, and the proofs that nothing that     *)
(* arrives is lost, duplicated or reordered on its way to the application, *)
(* that the receive path implements a stream, and that what is readable is *)
(* announced, for any number of connections, ring sizes and lives of an    *)
(* index.                                                                  *)
(***************************************************************************)
EXTENDS RxPath, SequenceTheorems, WellFoundedInduction, TLAPS

\* Entries of a connection in rx_ring, in local_cache and in both; buffers in its
\* receive queue, in the application's hand and received.
Waiting(c) == Len(rxRing[c])
Kept(c) == Len(cache[c])
Pending(c) == Len(backlog[c])
Got(c) == Len(got[c])
Hand(c) == Len(InHand(c))
Line(c) == cache[c] \o rxRing[c]
Lined(c) == Len(Line(c))

\* The service is at a socket it may touch, and rx_ring has room for what is left
\* of the free count it read: the application only takes from the ring.
SvcSound ==
  svc.step # "idle" =>
    /\ svc.conn \in Conns /\ attached[svc.conn]
    /\ Waiting(svc.conn) + svc.free < RxRingSize

Attaches == {"OPEN", "SET_RING"}

\* The commands of a connection come in the order of its life: OPEN or SET_RING
\* before everything else, CLOSE after everything else.
Orderly(q, att, snt, opn) ==
  \A i \in DOMAIN q :
    /\ q[i].op \in Attaches =>
         /\ ~att[q[i].conn] /\ snt[q[i].conn] = 0
         /\ \A j \in DOMAIN q : q[j].conn = q[i].conn => j >= i
    /\ q[i].op = "SELECT" =>
         \/ att[q[i].conn]
         \/ \E j \in DOMAIN q : j < i /\ q[j].op \in Attaches /\ q[j].conn = q[i].conn
    /\ q[i].op = "CLOSE" =>
         /\ q[i].conn \notin opn
         /\ \A j \in DOMAIN q : q[j].conn = q[i].conn => j <= i
CommandsSound == Orderly(commands, attached, sent, open)

\* The application is between the two steps of ipaugenblick_close.
Flushing(c) == at = "flush" /\ cur = c

\* What is left of a connection without a socket, and of one that is closed.
ConnSound(c) ==
  /\ queued[c] => attached[c]
  /\ ~attached[c] => backlog[c] = <<>> /\ rxRing[c] = <<>>
  /\ ~attached[c] /\ c \in open => /\ sent[c] = 0 /\ got[c] = <<>> /\ cache[c] = <<>>
                                   /\ InHand(c) = <<>>
  /\ c \notin open => (cache[c] = <<>> \/ Flushing(c)) /\ lives[c] < MaxLives
  /\ c \in ready \cup mask => c \in open \/ Flushing(c)
ConnsSound == \A c \in Conns : ConnSound(c)

AppSound ==
  /\ at \in {"fill", "kick"} => cur \in open
  /\ at = "flush" => cur \in Conns /\ cur \notin open
  /\ at \notin {"fill", "kick"} => held = <<>>
  /\ at \notin {"fill", "kick", "flush"} => cur = NONE

Single(r) == \A i \in DOMAIN r : Len(r[i]) = 1
BoundSound(c) ==
  /\ Waiting(c) < RxRingSize /\ Kept(c) < CacheSize
  /\ c \in datagram => Single(rxRing[c])
BoundsSound == \A c \in Conns : BoundSound(c)

\* x is buffers k + 1 .. k + l of life w.
Run(x, l, w, k) == \A j \in 1 .. l : x[j] = <<w, k + j>>
Link(x, w, k, m) == \E l \in Nat : l = Len(x) /\ m = k + l /\ Run(x, l, w, k)

\* StreamIntact, chain by chain: the lg buffers of g were received, the lh of h are
\* in hand, the ls chains of s are in local_cache and rx_ring and the lr buffers of
\* r in the receive queue; chain i ends with buffer b[i], and n arrived.
Cut(g, lg, h, lh, s, ls, r, lr, b, w, n) ==
  /\ Run(g, lg, w, 0) /\ Run(h, lh, w, lg)
  /\ b \in [0 .. ls -> 0 .. n] /\ b[0] = lg + lh
  /\ \A i \in 1 .. ls : Link(s[i], w, b[i - 1], b[i])
  /\ Run(r, lr, w, b[ls]) /\ b[ls] + lr = n

Parts(c) == \E b : Cut(got[c], Got(c), InHand(c), Hand(c), Line(c), Lined(c), backlog[c],
                       Pending(c), b, lives[c], sent[c])
StreamParts == \A c \in Conns : c \in open /\ attached[c] => Parts(c)

RxInv ==
  /\ TypeOK /\ SvcSound /\ CommandsSound /\ ConnsSound /\ AppSound /\ BoundsSound
  /\ StreamParts

---------------------------------------------------------------------------
(* Induction, and what FlattenSeq computes.                                *)

\* Every non-empty set of natural numbers has a least element.
LEMMA LeastOf ==
  ASSUME NEW T, T \subseteq Nat, T # {}
  PROVE  \E x \in T : \A y \in T : x <= y
<1> DEFINE R == OpToRel(<, Nat)
<1>1. IsWellFoundedOn(R, Nat)
  BY NatLessThanWellFounded
<1>2. \A x, y \in Nat : x < y => <<x, y>> \in R
  BY DEF OpToRel
<1> HIDE DEF R
<1>3. PICK x \in T : \A y \in T : ~(<<y, x>> \in R)
  BY <1>1, WFMin
<1>4. ASSUME NEW y \in T PROVE x <= y
  <2>1. x \in Nat /\ y \in Nat /\ ~(y < x)
    BY <1>2, <1>3
  <2> QED BY <2>1
<1> QED BY <1>4

\* Induction, as a statement on sets.
LEMMA Induct ==
  ASSUME NEW S, 0 \in S, \A n \in Nat : n \in S => n + 1 \in S
  PROVE  Nat \subseteq S
<1> SUFFICES ASSUME ~(Nat \subseteq S) PROVE FALSE
  OBVIOUS
<1>1. PICK x \in Nat \ S : \A y \in Nat \ S : x <= y
  <2> DEFINE T == Nat \ S
  <2>1. T \subseteq Nat /\ T # {}
    OBVIOUS
  <2> HIDE DEF T
  <2>2. \E x \in T : \A y \in T : x <= y
    BY <2>1, LeastOf
  <2> QED BY <2>2 DEF T
<1>2. x # 0
  OBVIOUS
<1>3. x - 1 \in Nat /\ x - 1 \in S
  BY <1>1, <1>2
<1> QED BY <1>1, <1>3

\* f[i] is what the first i members of s make up.
Cat(s, t) == s \o t
Flattens(s, f, n) == f = [i \in 1 .. n |-> IF i = 1 THEN s[i] ELSE Cat(f[i - 1], s[i])]

LEMMA FlattensFrom ==
  ASSUME NEW s, NEW f, NEW n \in Nat, DOMAIN f = 1 .. n, f = [i \in 1 .. n |-> f[i]],
         n > 0 => f[1] = s[1], \A i \in 1 .. n : i # 1 => f[i] = Cat(f[i - 1], s[i])
  PROVE  Flattens(s, f, n)
<1> DEFINE e(i) == IF i = 1 THEN s[i] ELSE Cat(f[i - 1], s[i])
<1>1. ASSUME NEW i \in 1 .. n PROVE f[i] = e(i)
  <2>1. CASE i = 1
    <3>1. n > 0
      BY <2>1
    <3> QED BY <2>1, <3>1, Zenon
  <2>2. CASE i # 1
    BY <2>2, Zenon
  <2> QED BY <2>1, <2>2
<1> HIDE DEF e
<1>2. f = [i \in 1 .. n |-> e(i)]
  BY <1>1
<1> QED BY <1>2 DEF Flattens, e

LEMMA FlattensAt ==
  ASSUME NEW s, NEW f, NEW n \in Nat, Flattens(s, f, n)
  PROVE  /\ DOMAIN f = 1 .. n /\ (n > 0 => f[1] = s[1])
         /\ \A i \in 1 .. n : i # 1 => f[i] = Cat(f[i - 1], s[i])
<1> DEFINE e(i) == IF i = 1 THEN s[i] ELSE Cat(f[i - 1], s[i])
<1>1. f = [i \in 1 .. n |-> e(i)]
  BY DEF Flattens
<1> HIDE DEF e
<1>2. DOMAIN f = 1 .. n /\ \A i \in 1 .. n : f[i] = e(i)
  BY <1>1
<1> QED BY <1>2 DEF e

LEMMA FlattensExists ==
  ASSUME NEW s, NEW m \in Nat
  PROVE  \E f : Flattens(s, f, m)
<1> DEFINE S == {n \in Nat : \E f : Flattens(s, f, n)}
<1>1. 0 \in S
  <2> DEFINE f == [i \in 1 .. 0 |-> s[i]]
  <2>2. Flattens(s, f, 0)
    BY DEF Flattens
  <2> QED BY <2>2
<1>2. ASSUME NEW n \in Nat, n \in S PROVE n + 1 \in S
  <2>1. PICK f : Flattens(s, f, n)
    BY <1>2
  <2>2. /\ DOMAIN f = 1 .. n /\ (n > 0 => f[1] = s[1])
        /\ \A i \in 1 .. n : i # 1 => f[i] = Cat(f[i - 1], s[i])
    BY <2>1, FlattensAt
  <2>3. PICK m2 \in Nat : m2 = n + 1
    OBVIOUS
  <2> DEFINE g == [i \in 1 .. m2 |-> IF i <= n THEN f[i]
                                     ELSE IF n = 0 THEN s[1] ELSE Cat(f[n], s[i])]
  <2>4. ASSUME NEW i \in 1 .. m2, i # 1 PROVE g[i] = Cat(g[i - 1], s[i])
    <3>1. CASE i <= n
      BY <2>2, <2>3, <2>4, <3>1
    <3>2. CASE i = m2
      <4>1. i - 1 = n /\ n # 0 /\ i - 1 \in 1 .. m2 /\ ~(i <= n)
        BY <2>3, <2>4, <3>2
      <4>2. g[i] = Cat(f[n], s[i])
        BY <4>1
      <4>3. g[i - 1] = f[n]
        BY <4>1
      <4> QED BY <4>2, <4>3
    <3> QED BY <2>3, <3>1, <3>2
  <2>5. g[1] = s[1]
    BY <2>2, <2>3
  <2>6. Flattens(s, g, m2)
    <3>1. DOMAIN g = 1 .. m2 /\ g = [i \in 1 .. m2 |-> g[i]]
      OBVIOUS
    <3> HIDE DEF g
    <3> QED BY <2>4, <2>5, <3>1, FlattensFrom
  <2> QED BY <2>3, <2>6
<1> HIDE DEF S
<1>3. Nat \subseteq S
  BY <1>1, <1>2, Induct
<1> QED BY <1>3 DEF S

\* What FlattenSeq computes.
LEMMA FlattenComputes ==
  ASSUME NEW s, NEW n \in Nat, n = Len(s), n > 0
  PROVE  \E f : Flattens(s, f, n) /\ FlattenSeq(s) = f[n]
<1> DEFINE f == CHOOSE g : Flattens(s, g, n)
<1>1. Flattens(s, f, n)
  BY FlattensExists
<1>2. FlattenSeq(s) = f[n]
  <2>1. n # 0
    OBVIOUS
  <2> QED BY <2>1, Zenon DEF FlattenSeq, Flattens, Cat
<1> QED BY <1>1, <1>2

---------------------------------------------------------------------------
(* What happens to the parts of a stream.                                  *)

\* s2 is s with x at the end; s2 is s without its first element; x is the first k
\* elements of r and r2 the others; t is s followed by u; s and t agree up to l.
Longer(s, l, x, s2, l2) == /\ l2 = l + 1 /\ s2[l2] = x
                           /\ \A i \in 1 .. l : s2[i] = s[i]
Shorter(s, l, s2, l2) == l = l2 + 1 /\ \A i \in 1 .. l2 : s2[i] = s[i + 1]
Splits(r, l, x, k, r2, l2) == /\ l = k + l2 /\ \A i \in 1 .. k : x[i] = r[i]
                              /\ \A i \in 1 .. l2 : r2[i] = r[k + i]
Long(s, l) == l = Len(s)
Agree(s, t, l) == \A i \in 1 .. l : s[i] = t[i]
Joins(s, l, u, m, t) == \A i \in 1 .. l + m : t[i] = IF i <= l THEN s[i] ELSE u[i - l]

\* A buffer arrives.
LEMMA CutArrives ==
  ASSUME NEW g, NEW h, NEW s, NEW r, NEW b, NEW w, NEW r2, NEW lg \in Nat, NEW lh \in Nat,
         NEW ls \in Nat, NEW lr \in Nat, NEW lr2 \in Nat, NEW n \in Nat, NEW n2 \in Nat,
         n2 = n + 1, Cut(g, lg, h, lh, s, ls, r, lr, b, w, n),
         Longer(r, lr, <<w, n2>>, r2, lr2)
  PROVE  Cut(g, lg, h, lh, s, ls, r2, lr2, b, w, n2)
<1>0. b \in [0 .. ls -> 0 .. n] /\ b[ls] + lr = n
  BY DEF Cut
<1>1. PICK e \in Nat : e = b[ls] /\ e + lr = n
  <2>1. ls \in 0 .. ls
    OBVIOUS
  <2>2. b[ls] \in Nat
    BY <1>0, <2>1
  <2> QED BY <1>0, <2>2
<1>2. ASSUME NEW j \in 1 .. lr2 PROVE r2[j] = <<w, e + j>>
  <2>1. CASE j \in 1 .. lr
    BY <1>1, <2>1 DEF Cut, Run, Longer
  <2>2. CASE j = lr2
    <3>1. e + j = n2
      BY <1>1, <2>2 DEF Longer
    <3> QED BY <2>2, <3>1 DEF Longer
  <2> QED BY <2>1, <2>2 DEF Longer
<1>3. e + lr2 = n2 /\ b \in [0 .. ls -> 0 .. n2]
  <2>1. e + lr2 = n2
    BY <1>1 DEF Longer
  <2>2. 0 .. n \subseteq 0 .. n2
    OBVIOUS
  <2>3. b \in [0 .. ls -> 0 .. n2]
    BY <1>0, <2>2, Zenon
  <2> QED BY <2>1, <2>3
<1> QED BY <1>1, <1>2, <1>3 DEF Cut, Run

\* kernel_recvmsg returns the first k buffers as a chain.
LEMMA CutSubmits ==
  ASSUME NEW g, NEW h, NEW s, NEW r, NEW b, NEW w, NEW s2, NEW x, NEW r2,
         NEW lg \in Nat, NEW lh \in Nat, NEW ls \in Nat, NEW ls2 \in Nat, NEW lr \in Nat,
         NEW lr2 \in Nat, NEW n \in Nat, NEW k \in Nat, Long(x, k),
         Cut(g, lg, h, lh, s, ls, r, lr, b, w, n),
         Longer(s, ls, x, s2, ls2), Splits(r, lr, x, k, r2, lr2)
  PROVE  \E b2 : Cut(g, lg, h, lh, s2, ls2, r2, lr2, b2, w, n)
<1>0. b \in [0 .. ls -> 0 .. n] /\ b[ls] + lr = n
  BY DEF Cut
<1>1. PICK e \in Nat : e = b[ls] /\ e + lr = n
  <2>1. ls \in 0 .. ls
    OBVIOUS
  <2>2. b[ls] \in Nat
    BY <1>0, <2>1
  <2> QED BY <1>0, <2>2
<1>2. b \in [0 .. ls -> 0 .. n] /\ b[0] = lg + lh /\ ls2 = ls + 1 /\ s2[ls2] = x
  BY DEF Cut, Longer
<1> DEFINE b2 == [i \in 0 .. ls2 |-> IF i <= ls THEN b[i] ELSE e + k]
<1>3. /\ b2 \in [0 .. ls2 -> 0 .. n] /\ b2[0] = lg + lh /\ b2[ls2] = e + k
      /\ \A i \in 0 .. ls : b2[i] = b[i]
  <2>1. e + k \in 0 .. n
    BY <1>1 DEF Splits
  <2> QED BY <1>1, <1>2, <2>1
<1> HIDE DEF b2
<1>4. ASSUME NEW i \in 1 .. ls2 PROVE Link(s2[i], w, b2[i - 1], b2[i])
  <2>1. CASE i \in 1 .. ls
    <3>1. s2[i] = s[i] /\ b2[i - 1] = b[i - 1] /\ b2[i] = b[i]
      BY <1>3, <2>1 DEF Longer
    <3> QED BY <2>1, <3>1 DEF Cut
  <2>2. CASE i = ls2
    <3>1. s2[i] = x /\ b2[i - 1] = e /\ b2[i] = e + k
      BY <1>1, <1>2, <1>3, <2>2
    <3>2. Run(x, k, w, e)
      <4>1. ASSUME NEW j \in 1 .. k PROVE x[j] = <<w, e + j>>
        <5>1. j \in 1 .. lr /\ x[j] = r[j]
          BY DEF Splits
        <5> QED BY <1>1, <5>1 DEF Cut, Run
      <4> QED BY <4>1 DEF Run
    <3>3. Link(x, w, e, e + k)
      BY <1>1, <3>2 DEF Link, Long
    <3> QED BY <3>1, <3>3
  <2> QED BY <1>2, <2>1, <2>2
<1>5. ASSUME NEW j \in 1 .. lr2 PROVE r2[j] = <<w, e + k + j>>
  <2>1. PICK m \in 1 .. lr : m = k + j
    BY DEF Splits
  <2>2. r2[j] = r[m] /\ e + m = e + k + j
    <3>1. r2[j] = r[k + j]
      BY DEF Splits
    <3>2. r2[j] = r[m]
      BY <2>1, <3>1, Zenon
    <3>3. e + m = e + k + j
      BY <1>1, <2>1
    <3> QED BY <3>2, <3>3
  <2>3. r[m] = <<w, e + m>>
    BY <1>1 DEF Cut, Run
  <2> QED BY <2>2, <2>3
<1>6. e + k + lr2 = n
  BY <1>1 DEF Splits
<1>7. Cut(g, lg, h, lh, s2, ls2, r2, lr2, b2, w, n)
  BY <1>3, <1>4, <1>5, <1>6 DEF Cut, Run
<1> QED BY <1>7

\* The application takes the first chain in hand.
LEMMA CutTakes ==
  ASSUME NEW g, NEW h, NEW s, NEW r, NEW b, NEW w, NEW s2, NEW h2, NEW lg \in Nat,
         NEW lh2 \in Nat, NEW ls \in Nat, NEW ls2 \in Nat, NEW lr \in Nat,
         NEW n \in Nat, Long(h2, lh2), h2 = s[1],
         Cut(g, lg, h, 0, s, ls, r, lr, b, w, n), Shorter(s, ls, s2, ls2)
  PROVE  \E b2 : Cut(g, lg, h2, lh2, s2, ls2, r, lr, b2, w, n)
<1>1. b \in [0 .. ls -> 0 .. n] /\ b[0] = lg /\ ls = ls2 + 1
  BY DEF Cut, Shorter
<1>2. Link(s[1], w, b[0], b[1])
  <2>1. 1 \in 1 .. ls /\ 1 - 1 = 0
    BY <1>1
  <2> QED BY <2>1 DEF Cut
<1>3. b[1] = lg + lh2 /\ Run(h2, lh2, w, lg)
  BY <1>1, <1>2 DEF Link, Long
<1> DEFINE b2 == [i \in 0 .. ls2 |-> b[i + 1]]
<1>4. b2 \in [0 .. ls2 -> 0 .. n] /\ b2[0] = b[1] /\ b2[ls2] = b[ls]
      /\ \A i \in 0 .. ls2 : b2[i] = b[i + 1]
  BY <1>1
<1> HIDE DEF b2
<1>5. ASSUME NEW i \in 1 .. ls2 PROVE Link(s2[i], w, b2[i - 1], b2[i])
  <2>1. i + 1 \in 1 .. ls /\ s2[i] = s[i + 1] /\ (i + 1) - 1 = i /\ (i - 1) + 1 = i
    <3>1. s2[i] = s[i + 1]
      BY DEF Shorter
    <3>2. ls = ls2 + 1
      BY <1>1
    <3>3. i + 1 \in 1 .. ls /\ (i + 1) - 1 = i /\ (i - 1) + 1 = i
      BY <3>2
    <3> QED BY <3>1, <3>3
  <2>2. b2[i] = b[i + 1] /\ b2[i - 1] = b[i]
    BY <1>4, <2>1
  <2>3. Link(s[i + 1], w, b[(i + 1) - 1], b[i + 1])
    BY <2>1 DEF Cut
  <2> QED BY <2>1, <2>2, <2>3
<1>6. Cut(g, lg, h2, lh2, s2, ls2, r, lr, b2, w, n)
  BY <1>3, <1>4, <1>5 DEF Cut
<1> QED BY <1>6

\* The chain in hand is returned.
LEMMA CutReturns ==
  ASSUME NEW g, NEW h, NEW s, NEW r, NEW b, NEW w, NEW g2, NEW h2, NEW lg \in Nat,
         NEW lh \in Nat, NEW lg2 \in Nat, NEW ls \in Nat, NEW lr \in Nat, NEW n \in Nat,
         lg2 = lg + lh, Cut(g, lg, h, lh, s, ls, r, lr, b, w, n), Joins(g, lg, h, lh, g2)
  PROVE  Cut(g2, lg2, h2, 0, s, ls, r, lr, b, w, n) /\ lg2 <= n
<1>1. ASSUME NEW j \in 1 .. lg2 PROVE g2[j] = <<w, 0 + j>>
  <2>1. CASE j <= lg
    <3>1. j \in 1 .. lg + lh /\ j \in 1 .. lg
      BY <2>1
    <3>2. g2[j] = g[j] /\ g[j] = <<w, 0 + j>>
      BY <2>1, <3>1 DEF Cut, Run, Joins
    <3> QED BY <3>2
  <2>2. CASE ~(j <= lg)
    <3>1. PICK m \in 1 .. lh : m = j - lg
      BY <2>2
    <3>2. g2[j] = h[m] /\ h[m] = <<w, lg + m>> /\ lg + m = 0 + j
      BY <2>2, <3>1 DEF Cut, Run, Joins
    <3> QED BY <3>2
  <2> QED BY <2>1, <2>2
<1>2. Run(g2, lg2, w, 0) /\ Run(h2, 0, w, lg2) /\ lg2 + 0 = lg + lh
  BY <1>1 DEF Run
<1>3. Cut(g2, lg2, h2, 0, s, ls, r, lr, b, w, n)
  BY <1>2 DEF Cut
<1>4. lg + lh \in 0 .. n
  <2>1. b \in [0 .. ls -> 0 .. n] /\ b[0] = lg + lh
    BY DEF Cut
  <2> QED BY <2>1
<1> QED BY <1>3, <1>4

\* A connection begins with what is in the receive queue of its socket.
LEMMA CutFresh ==
  ASSUME NEW g, NEW h, NEW s, NEW r, NEW w, NEW lr \in Nat, Run(r, lr, w, 0)
  PROVE  \E b : Cut(g, 0, h, 0, s, 0, r, lr, b, w, lr)
<1> DEFINE b == [i \in 0 .. 0 |-> 0]
<1>1. b \in [0 .. 0 -> 0 .. lr] /\ b[0] = 0
  OBVIOUS
<1> HIDE DEF b
<1>2. Cut(g, 0, h, 0, s, 0, r, lr, b, w, lr)
  BY <1>1 DEF Cut, Run
<1> QED BY <1>2

---------------------------------------------------------------------------
(* The sequences, element by element.                                      *)

LEMMA Added ==
  ASSUME NEW S, NEW s \in Seq(S), NEW x \in S
  PROVE  /\ Append(s, x) \in Seq(S) /\ Len(Append(s, x)) \in Nat
         /\ Longer(s, Len(s), x, Append(s, x), Len(Append(s, x)))
  BY AppendProperties, LenProperties DEF Longer

LEMMA Taken ==
  ASSUME NEW S, NEW s \in Seq(S), s # <<>>
  PROVE  /\ Tail(s) \in Seq(S) /\ Len(Tail(s)) \in Nat /\ Head(s) = s[1] /\ Head(s) \in S
         /\ Shorter(s, Len(s), Tail(s), Len(Tail(s)))
<1>1. Tail(s) \in Seq(S) /\ Len(s) \in Nat /\ Head(s) = s[1] /\ Head(s) \in S
  OBVIOUS
<1>2. Len(Tail(s)) = Len(s) - 1 /\ Len(s) >= 1
  BY <1>1, LenProperties, EmptySeq
<1>3. \A i \in 1 .. Len(Tail(s)) : Tail(s)[i] = s[i + 1]
  BY <1>1, <1>2
<1> QED BY <1>1, <1>2, <1>3 DEF Shorter

LEMMA Joined ==
  ASSUME NEW S, NEW s \in Seq(S), NEW t \in Seq(S)
  PROVE  /\ s \o t \in Seq(S) /\ Len(s \o t) = Len(s) + Len(t)
         /\ Joins(s, Len(s), t, Len(t), s \o t)
  BY ConcatProperties DEF Joins

LEMMA Indexed ==
  ASSUME NEW S, NEW s \in Seq(S), NEW l \in Nat, l = Len(s)
  PROVE  /\ DOMAIN s = 1 .. l /\ s \in [1 .. l -> S] /\ s = [i \in 1 .. l |-> s[i]]
         /\ \A i \in 1 .. l : s[i] \in S
<1>1. DOMAIN s = 1 .. l /\ s \in [1 .. l -> S]
  BY LenProperties
<1> QED BY <1>1

\* Two sequences are equal when their elements are.
LEMMA SameSeq ==
  ASSUME NEW S, NEW s \in Seq(S), NEW t \in Seq(S), NEW l \in Nat, Long(s, l), Long(t, l),
         Agree(s, t, l)
  PROVE  s = t
<1>1. s = [i \in 1 .. l |-> s[i]] /\ t = [i \in 1 .. l |-> t[i]]
  BY Indexed DEF Long
<1>2. [i \in 1 .. l |-> s[i]] = [i \in 1 .. l |-> t[i]]
  BY DEF Agree
<1> QED BY <1>1, <1>2, Zenon

\* The first k elements and the others.
LEMMA Split ==
  ASSUME NEW S, NEW s \in Seq(S), NEW l \in Nat, Long(s, l), NEW k \in Nat, NEW m \in Nat,
         l = k + m
  PROVE  \E f \in Seq(S), g \in Seq(S) :
           /\ f = SubSeq(s, 1, k) /\ g = SubSeq(s, k + 1, l)
           /\ Long(f, k) /\ Long(g, m) /\ Splits(s, l, f, k, g, m)
<1>1. \A i \in 1 .. l : s[i] \in S
  BY LenProperties, ElementOfSeq DEF Long
<1> DEFINE f == SubSeq(s, 1, k)
           g == SubSeq(s, k + 1, l)
<1>2. f \in Seq(S) /\ Len(f) = k /\ \A i \in 1 .. k : f[i] = s[i]
  <2>1. \A i \in 1 .. k : s[i] \in S
    BY <1>1
  <2>2. /\ f \in Seq(S) /\ Len(f) = IF 1 <= k THEN k - 1 + 1 ELSE 0
        /\ \A i \in 1 .. k - 1 + 1 : f[i] = s[1 + i - 1]
    BY <2>1, SubSeqProperties
  <2> QED BY <2>2
<1>3. g \in Seq(S) /\ Len(g) = m /\ \A i \in 1 .. m : g[i] = s[k + i]
  <2>1. \A i \in k + 1 .. l : s[i] \in S
    BY <1>1
  <2>2. /\ g \in Seq(S) /\ Len(g) = IF k + 1 <= l THEN l - (k + 1) + 1 ELSE 0
        /\ \A i \in 1 .. l - (k + 1) + 1 : g[i] = s[k + 1 + i - 1]
    BY <2>1, SubSeqProperties
  <2>3. l - (k + 1) + 1 = m /\ (k + 1 <= l <=> m > 0)
    OBVIOUS
  <2>4. ASSUME NEW i \in 1 .. m PROVE k + 1 + i - 1 = k + i
    OBVIOUS
  <2>5. Len(g) = m
    BY <2>2, <2>3
  <2>6. \A i \in 1 .. m : g[i] = s[k + i]
    BY <2>2, <2>3, <2>4
  <2> QED BY <2>2, <2>5, <2>6
<1> HIDE DEF f, g
<1>4. f = SubSeq(s, 1, k) /\ g = SubSeq(s, k + 1, l)
  BY DEF f, g
<1>5. Long(f, k) /\ Long(g, m) /\ Splits(s, l, f, k, g, m)
  BY <1>2, <1>3 DEF Splits, Long
<1> QED BY <1>2, <1>3, <1>4, <1>5

\* A chain at the end of rx_ring is at the end of the line.
LEMMA LineGrows ==
  ASSUME NEW S, NEW s \in Seq(S), NEW t \in Seq(S), NEW x \in S
  PROVE  s \o Append(t, x) = Append(s \o t, x)
<1>1. PICK ls \in Nat, lt \in Nat : ls = Len(s) /\ lt = Len(t)
  BY LenProperties
<1>2. PICK u \in Seq(S) : u = Append(t, x)
  BY AppendProperties
<1>3. Len(u) = lt + 1 /\ u[lt + 1] = x /\ \A i \in 1 .. lt : u[i] = t[i]
  BY <1>1, <1>2, AppendProperties
<1>4. PICK a \in Seq(S) : a = s \o u
  BY ConcatProperties
<1>5. Len(a) = ls + (lt + 1) /\ Joins(s, ls, u, lt + 1, a)
  <2>1. Len(a) = Len(s) + Len(u) /\ Joins(s, Len(s), u, Len(u), a)
    BY <1>4, Joined
  <2> QED BY <1>1, <1>3, <2>1
<1>6. PICK o \in Seq(S) : o = s \o t
  BY ConcatProperties
<1>7. Len(o) = ls + lt /\ Joins(s, ls, t, lt, o)
  <2>1. Len(o) = Len(s) + Len(t) /\ Joins(s, Len(s), t, Len(t), o)
    BY <1>6, Joined
  <2> QED BY <1>1, <2>1
<1>8. PICK b \in Seq(S) : b = Append(o, x)
  BY AppendProperties
<1>9. Len(b) = ls + lt + 1 /\ b[ls + lt + 1] = x /\ \A i \in 1 .. ls + lt : b[i] = o[i]
  BY <1>7, <1>8, AppendProperties
<1>10. ASSUME NEW i \in 1 .. ls + lt + 1 PROVE a[i] = b[i]
  <2>1. CASE i <= ls
    <3>1. i \in 1 .. ls + (lt + 1) /\ i \in 1 .. ls + lt
      BY <2>1
    <3>2. a[i] = s[i] /\ o[i] = s[i]
      BY <1>5, <1>7, <2>1, <3>1 DEF Joins
    <3> QED BY <1>9, <3>1, <3>2
  <2>2. CASE ~(i <= ls) /\ i # ls + lt + 1
    <3>1. PICK k \in 1 .. lt : k = i - ls
      BY <2>2
    <3>2. a[i] = u[k] /\ o[i] = t[k] /\ b[i] = o[i]
      BY <1>5, <1>7, <1>9, <2>2, <3>1 DEF Joins
    <3> QED BY <1>3, <3>2
  <2>3. CASE i = ls + lt + 1
    <3>1. ~(i <= ls) /\ i - ls = lt + 1 /\ i \in 1 .. ls + (lt + 1)
      BY <2>3
    <3>2. a[i] = u[i - ls]
      BY <1>5, <3>1 DEF Joins
    <3>3. u[i - ls] = x /\ b[i] = x
      BY <1>3, <1>9, <2>3, <3>1
    <3> QED BY <3>2, <3>3
  <2> QED BY <2>1, <2>2, <2>3
<1>11. a = b
  <2>1. PICK l \in Nat : l = ls + lt + 1
    OBVIOUS
  <2>2. Long(a, l) /\ Long(b, l) /\ Agree(a, b, l)
    BY <1>5, <1>9, <1>10, <2>1 DEF Long, Agree
  <2> QED BY <2>2, SameSeq
<1> QED BY <1>2, <1>4, <1>6, <1>8, <1>11

\* The first chain of local_cache is the first of the line.
LEMMA LineShrinks ==
  ASSUME NEW S, NEW s \in Seq(S), NEW t \in Seq(S), s # <<>>
  PROVE  /\ Tail(s) \o t = Tail(s \o t) /\ s \o t # <<>> /\ Head(s) = Head(s \o t)
         /\ s \o t \in Seq(S)
<1>1. PICK ls \in Nat, lt \in Nat : ls = Len(s) /\ lt = Len(t) /\ ls > 0
  BY LenProperties, EmptySeq
<1>0. ls > 0
  BY <1>1
<1>2. PICK u \in Seq(S) : u = Tail(s)
  BY HeadTailProperties
<1>3. Len(u) = ls - 1 /\ Head(s) = s[1] /\ \A i \in 1 .. ls - 1 : u[i] = s[i + 1]
  BY <1>1, <1>2, HeadTailProperties
<1>4. PICK a \in Seq(S) : a = u \o t
  BY ConcatProperties
<1>5. Len(a) = (ls - 1) + lt /\ Joins(u, ls - 1, t, lt, a)
  <2>1. Len(a) = Len(u) + Len(t) /\ Joins(u, Len(u), t, Len(t), a)
    BY <1>4, Joined
  <2> QED BY <1>1, <1>3, <2>1
<1>6. PICK o \in Seq(S) : o = s \o t
  BY ConcatProperties
<1>7. Len(o) = ls + lt /\ Joins(s, ls, t, lt, o)
  <2>1. Len(o) = Len(s) + Len(t) /\ Joins(s, Len(s), t, Len(t), o)
    BY <1>6, Joined
  <2> QED BY <1>1, <2>1
<1>8. o # <<>>
  BY <1>1, <1>7
<1>9. PICK b \in Seq(S) : b = Tail(o)
  BY <1>8, HeadTailProperties
<1>10. Len(b) = ls + lt - 1 /\ Head(o) = o[1] /\ \A i \in 1 .. ls + lt - 1 : b[i] = o[i + 1]
  BY <1>1, <1>7, <1>8, <1>9, HeadTailProperties
<1>11. o[1] = s[1]
  BY <1>1, <1>7 DEF Joins
<1>12. ASSUME NEW i \in 1 .. ls + lt - 1 PROVE a[i] = b[i]
  <2>1. CASE i <= ls - 1
    <3>1. i \in 1 .. ls - 1 /\ i \in 1 .. (ls - 1) + lt /\ i + 1 \in 1 .. ls + lt /\ i + 1 <= ls
      BY <1>0, <2>1
    <3>2. a[i] = u[i]
      BY <1>5, <2>1, <3>1 DEF Joins
    <3>3. o[i + 1] = s[i + 1]
      BY <1>7, <3>1 DEF Joins
    <3>4. u[i] = s[i + 1]
      BY <1>3, <3>1
    <3> QED BY <1>10, <3>2, <3>3, <3>4
  <2>2. CASE ~(i <= ls - 1)
    <3>1. PICK k \in 1 .. lt : k = i - (ls - 1) /\ k = (i + 1) - ls
      BY <1>0, <2>2
    <3>2. i \in 1 .. (ls - 1) + lt /\ i + 1 \in 1 .. ls + lt /\ ~(i + 1 <= ls)
      BY <1>0, <2>2
    <3>3. a[i] = t[k]
      BY <1>5, <2>2, <3>1, <3>2 DEF Joins
    <3>4. o[i + 1] = t[k]
      BY <1>7, <3>1, <3>2 DEF Joins
    <3> QED BY <1>10, <3>3, <3>4
  <2> QED BY <2>1, <2>2
<1>13. a = b
  <2>1. PICK l \in Nat : l = ls + lt - 1
    BY <1>0
  <2>2. Long(a, l) /\ Long(b, l) /\ Agree(a, b, l)
    BY <1>0, <1>5, <1>10, <1>12, <2>1 DEF Long, Agree
  <2> QED BY <2>2, SameSeq
<1> QED BY <1>2, <1>3, <1>4, <1>6, <1>8, <1>9, <1>10, <1>11, <1>13

\* Chains that move from rx_ring to local_cache stay in the line.
Moves(s, ls, t, lt, k, m, u, g) ==
  /\ u = s \o SubSeq(t, 1, k) /\ g = SubSeq(t, k + 1, lt)
  /\ Len(u) = ls + k /\ Len(g) = m /\ u \o g = s \o t
LEMMA LineMoves ==
  ASSUME NEW S, NEW s \in Seq(S), NEW t \in Seq(S), NEW ls \in Nat, NEW lt \in Nat,
         NEW k \in Nat, NEW m \in Nat, Long(s, ls), Long(t, lt), lt = k + m
  PROVE  \E u \in Seq(S), g \in Seq(S) : Moves(s, ls, t, lt, k, m, u, g)
<1>2. PICK f \in Seq(S), g \in Seq(S) :
        /\ f = SubSeq(t, 1, k) /\ g = SubSeq(t, k + 1, lt)
        /\ Long(f, k) /\ Long(g, m) /\ Splits(t, lt, f, k, g, m)
  BY Split
<1>3. Len(g) = m /\ Splits(t, lt, f, k, g, m)
  BY <1>2 DEF Long
<1>4. PICK u \in Seq(S) : u = s \o f /\ Len(u) = ls + k /\ Joins(s, ls, f, k, u)
  <2>1. s \o f \in Seq(S) /\ Len(s \o f) = Len(s) + Len(f) /\ Joins(s, Len(s), f, Len(f), s \o f)
    BY Joined
  <2> QED BY <1>2, <2>1 DEF Long
<1>5. PICK a \in Seq(S) : a = u \o g
  BY <1>4, ConcatProperties
<1>6. Len(a) = (ls + k) + m /\ Joins(u, ls + k, g, m, a)
  <2>1. Len(a) = Len(u) + Len(g) /\ Joins(u, Len(u), g, Len(g), a)
    BY <1>4, <1>5, Joined
  <2> QED BY <1>3, <1>4, <2>1
<1>7. PICK o \in Seq(S) : o = s \o t
  BY ConcatProperties
<1>8. Len(o) = ls + lt /\ Joins(s, ls, t, lt, o)
  <2>1. Len(o) = Len(s) + Len(t) /\ Joins(s, Len(s), t, Len(t), o)
    BY <1>7, Joined
  <2> QED BY <2>1 DEF Long
<1>9. PICK l \in Nat : l = ls + lt /\ l = (ls + k) + m
  OBVIOUS
<1>10. ASSUME NEW i \in 1 .. l PROVE a[i] = o[i]
  <2>1. CASE i <= ls
    <3>1. i \in 1 .. ls + k /\ i \in 1 .. (ls + k) + m /\ i <= ls + k
      BY <1>9, <2>1
    <3>2. a[i] = u[i] /\ u[i] = s[i]
      BY <1>4, <1>6, <2>1, <3>1 DEF Joins
    <3>3. o[i] = s[i]
      BY <1>8, <1>9, <2>1 DEF Joins
    <3> QED BY <3>2, <3>3
  <2>2. CASE ~(i <= ls) /\ i <= ls + k
    <3>1. PICK j \in 1 .. k : j = i - ls
      BY <2>2
    <3>2. i \in 1 .. ls + k /\ i \in 1 .. (ls + k) + m
      BY <1>9, <2>2
    <3>3. a[i] = u[i] /\ u[i] = f[j]
      BY <1>4, <1>6, <2>2, <3>1, <3>2 DEF Joins
    <3>4. o[i] = t[j]
      BY <1>8, <1>9, <2>2, <3>1 DEF Joins
    <3>5. f[j] = t[j]
      BY <1>3 DEF Splits
    <3> QED BY <3>3, <3>4, <3>5
  <2>3. CASE ~(i <= ls + k)
    <3>1. PICK j \in 1 .. m : j = i - (ls + k) /\ k + j = i - ls /\ ~(i <= ls)
      BY <1>9, <2>3
    <3>2. a[i] = g[j]
      BY <1>6, <1>9, <2>3, <3>1 DEF Joins
    <3>3. o[i] = t[k + j]
      BY <1>8, <1>9, <3>1 DEF Joins
    <3>4. g[j] = t[k + j]
      BY <1>3 DEF Splits
    <3> QED BY <3>2, <3>3, <3>4
  <2> QED BY <2>1, <2>2, <2>3
<1>11. a = o
  <2>1. Long(a, l) /\ Long(o, l) /\ Agree(a, o, l)
    BY <1>6, <1>8, <1>9, <1>10 DEF Long, Agree
  <2> QED BY <2>1, SameSeq
<1>12. Moves(s, ls, t, lt, k, m, u, g)
  BY <1>2, <1>3, <1>4, <1>5, <1>7, <1>11 DEF Moves
<1> QED BY <1>12

---------------------------------------------------------------------------
(* Runs that follow each other.                                            *)

Links(s, n, w, b) == b \in [0 .. n -> Nat] /\ \A i \in 1 .. n : Link(s[i], w, b[i - 1], b[i])

LEMMA LinkJoin ==
  ASSUME NEW x \in Seq(Numbered), NEW y \in Seq(Numbered), NEW w, NEW k \in Nat,
         NEW m \in Nat, NEW p \in Nat, Link(x, w, k, m), Link(y, w, m, p)
  PROVE  x \o y \in Seq(Numbered) /\ Link(x \o y, w, k, p)
<1>1. PICK lx \in Nat : lx = Len(x) /\ m = k + lx /\ Run(x, lx, w, k)
  BY DEF Link
<1>2. PICK ly \in Nat : ly = Len(y) /\ p = m + ly /\ Run(y, ly, w, m)
  BY DEF Link
<1>3. PICK o \in Seq(Numbered) : o = x \o y /\ Len(o) = lx + ly /\ Joins(x, lx, y, ly, o)
  <2>1. /\ x \o y \in Seq(Numbered) /\ Len(x \o y) = Len(x) + Len(y)
        /\ Joins(x, Len(x), y, Len(y), x \o y)
    BY Joined
  <2> QED BY <1>1, <1>2, <2>1
<1>4. m = k + lx /\ p = m + ly
  BY <1>1, <1>2
<1>5. ASSUME NEW j \in 1 .. lx + ly PROVE o[j] = <<w, k + j>>
  <2>1. CASE j <= lx
    <3>1. j \in 1 .. lx /\ o[j] = x[j]
      BY <1>3, <2>1 DEF Joins
    <3> QED BY <1>1, <3>1 DEF Run
  <2>2. CASE ~(j <= lx)
    <3>1. PICK i \in 1 .. ly : i = j - lx /\ m + i = k + j
      BY <1>4, <2>2
    <3>2. o[j] = y[i]
      BY <1>3, <2>2, <3>1 DEF Joins
    <3>3. y[i] = <<w, m + i>>
      BY <1>2 DEF Run
    <3> QED BY <3>1, <3>2, <3>3
  <2> QED BY <2>1, <2>2
<1>6. PICK l \in Nat : l = lx + ly /\ p = k + l
  BY <1>4
<1>7. Link(o, w, k, p)
  BY <1>3, <1>5, <1>6 DEF Link, Run
<1> QED BY <1>3, <1>7

\* Chains that follow each other make up a run.
LEMMA FlattenRuns ==
  ASSUME NEW s \in Seq(Seq(Numbered)), NEW n \in Nat, Long(s, n), NEW w, NEW b,
         Links(s, n, w, b)
  PROVE  FlattenSeq(s) \in Seq(Numbered) /\ Link(FlattenSeq(s), w, b[0], b[n])
<1>1. /\ \A i \in 0 .. n : b[i] \in Nat
      /\ \A i \in 1 .. n : s[i] \in Seq(Numbered) /\ Link(s[i], w, b[i - 1], b[i])
  <2>1. \A i \in 1 .. n : s[i] \in Seq(Numbered)
    BY Indexed DEF Long
  <2> QED BY <2>1 DEF Links
<1>2. CASE n = 0
  <2>1. Len(s) = 0 /\ s = <<>>
    BY <1>2, EmptySeq DEF Long
  <2>2. FlattenSeq(s) = s
    BY <2>1, Zenon DEF FlattenSeq
  <2>3. s \in Seq(Numbered)
    BY <2>1
  <2>4. Link(s, w, b[0], b[0])
    <3>1. 0 = Len(s) /\ b[0] = b[0] + 0 /\ Run(s, 0, w, b[0])
      BY <1>1, <2>1 DEF Run
    <3> QED BY <3>1 DEF Link
  <2> QED BY <1>2, <2>2, <2>3, <2>4
<1>3. CASE n > 0
  <2>1. PICK f : Flattens(s, f, n) /\ FlattenSeq(s) = f[n]
    BY <1>3, FlattenComputes DEF Long
  <2>2. /\ f[1] = s[1]
        /\ \A i \in 1 .. n : i # 1 => f[i] = Cat(f[i - 1], s[i])
    BY <1>3, <2>1, FlattensAt
  <2> DEFINE S == {i \in Nat : i \in 1 .. n =>
                     f[i] \in Seq(Numbered) /\ Link(f[i], w, b[0], b[i])}
  <2>3. 0 \in S
    OBVIOUS
  <2>4. ASSUME NEW i \in Nat, i \in S PROVE i + 1 \in S
    <3>1. CASE i + 1 \notin 1 .. n
      BY <3>1
    <3>2. CASE i = 0 /\ i + 1 \in 1 .. n
      <4>1. 1 \in 1 .. n /\ 1 - 1 = 0 /\ i + 1 = 1
        BY <3>2
      <4>2. s[1] \in Seq(Numbered) /\ Link(s[1], w, b[0], b[1])
        BY <1>1, <4>1
      <4> QED BY <2>2, <4>1, <4>2
    <3>3. CASE i # 0 /\ i + 1 \in 1 .. n
      <4>1. PICK j \in 1 .. n : j = i + 1 /\ j # 1 /\ j - 1 = i /\ i \in 1 .. n
        BY <3>3
      <4>2. f[i] \in Seq(Numbered) /\ Link(f[i], w, b[0], b[i])
        BY <2>4, <4>1
      <4>3. s[j] \in Seq(Numbered) /\ Link(s[j], w, b[i], b[j])
        BY <1>1, <4>1
      <4>4. b[0] \in Nat /\ b[i] \in Nat /\ b[j] \in Nat
        BY <1>1, <4>1
      <4>5. f[i] \o s[j] \in Seq(Numbered) /\ Link(f[i] \o s[j], w, b[0], b[j])
        BY <4>2, <4>3, <4>4, LinkJoin, Zenon
      <4>6. f[j] = Cat(f[i], s[j])
        BY <2>2, <4>1
      <4>7. f[j] \in Seq(Numbered) /\ Link(f[j], w, b[0], b[j])
        BY <4>5, <4>6, Zenon DEF Cat
      <4> QED BY <4>1, <4>7
    <3> QED BY <3>1, <3>2, <3>3
  <2> HIDE DEF S
  <2>5. Nat \subseteq S
    BY <2>3, <2>4, Induct
  <2>6. n \in 1 .. n
    BY <1>3
  <2>7. f[n] \in Seq(Numbered) /\ Link(f[n], w, b[0], b[n])
    BY <2>5, <2>6 DEF S
  <2> QED BY <2>1, <2>7
<1> QED BY <1>2, <1>3

\* The stream cut into what was received, what is in hand, two lists of chains and
\* the receive queue; and the same five joined.
Pieces(g, h, s, t, r, b, w, n) ==
  Cut(g, Len(g), h, Len(h), s \o t, Len(s \o t), r, Len(r), b, w, n)
AllOf(g, h, s, t, r, w, n) ==
  g \o (h \o FlattenSeq(s) \o FlattenSeq(t) \o r) = Buffers(w, n)

\* The whole stream, from its parts.
LEMMA Whole ==
  ASSUME NEW g \in Seq(Numbered), NEW h \in Seq(Numbered), NEW s \in Seq(Seq(Numbered)),
         NEW t \in Seq(Seq(Numbered)), NEW r \in Seq(Numbered), NEW b, NEW w, NEW n \in Nat,
         Pieces(g, h, s, t, r, b, w, n)
  PROVE  AllOf(g, h, s, t, r, w, n)
<1> USE DEF Pieces, AllOf
<1>1. PICK lg \in Nat, lh \in Nat, lr \in Nat, ls \in Nat, lt \in Nat :
        lg = Len(g) /\ lh = Len(h) /\ lr = Len(r) /\ Long(s, ls) /\ Long(t, lt)
  BY LenProperties DEF Long
<1>2. PICK o \in Seq(Seq(Numbered)) :
        o = s \o t /\ Len(o) = ls + lt /\ Joins(s, ls, t, lt, o)
  <2>1. /\ s \o t \in Seq(Seq(Numbered)) /\ Len(s \o t) = Len(s) + Len(t)
        /\ Joins(s, Len(s), t, Len(t), s \o t)
    BY Joined
  <2> QED BY <1>1, <2>1 DEF Long
<1>3. PICK l \in Nat : l = ls + lt /\ Cut(g, lg, h, lh, o, l, r, lr, b, w, n)
  BY <1>1, <1>2
<1>4. l = ls + lt
  BY <1>3
<1>5. /\ Run(g, lg, w, 0) /\ Run(h, lh, w, lg) /\ b \in [0 .. l -> 0 .. n] /\ b[0] = lg + lh
      /\ \A i \in 1 .. l : Link(o[i], w, b[i - 1], b[i])
      /\ Run(r, lr, w, b[l]) /\ b[l] + lr = n
  BY <1>3 DEF Cut
<1>6. \A i \in 0 .. l : b[i] \in Nat
  BY <1>5
<1> DEFINE b1 == [i \in 0 .. ls |-> b[i]]
           b2 == [i \in 0 .. lt |-> b[ls + i]]
<1>7. /\ b1 \in [0 .. ls -> Nat] /\ b1[0] = b[0] /\ b1[ls] = b[ls]
      /\ \A i \in 0 .. ls : b1[i] = b[i]
  BY <1>4, <1>6
<1>8. /\ b2 \in [0 .. lt -> Nat] /\ b2[0] = b[ls] /\ b2[lt] = b[l]
      /\ \A i \in 0 .. lt : b2[i] = b[ls + i]
  BY <1>4, <1>6
<1> HIDE DEF b1, b2
<1>9. Links(s, ls, w, b1)
  <2>1. ASSUME NEW i \in 1 .. ls PROVE Link(s[i], w, b1[i - 1], b1[i])
    <3>1. i \in 1 .. l /\ i \in 1 .. ls + lt /\ i <= ls /\ i - 1 \in 0 .. ls /\ i \in 0 .. ls
      BY <1>4
    <3>2. o[i] = s[i] /\ b1[i - 1] = b[i - 1] /\ b1[i] = b[i]
      BY <1>2, <1>7, <3>1 DEF Joins
    <3> QED BY <1>5, <3>1, <3>2
  <2> QED BY <1>7, <2>1 DEF Links
<1>10. Links(t, lt, w, b2)
  <2>1. ASSUME NEW i \in 1 .. lt PROVE Link(t[i], w, b2[i - 1], b2[i])
    <3>1. PICK j \in 1 .. l : j = ls + i
      BY <1>4
    <3>2. j \in 1 .. ls + lt /\ ~(j <= ls) /\ j - ls = i /\ i - 1 \in 0 .. lt
          /\ i \in 0 .. lt /\ ls + (i - 1) = j - 1
      BY <1>4, <3>1
    <3>3. o[j] = t[i]
      BY <1>2, <3>2 DEF Joins
    <3>4. b2[i - 1] = b[j - 1] /\ b2[i] = b[j]
      <4>1. b2[i - 1] = b[ls + (i - 1)] /\ b2[i] = b[ls + i]
        BY <1>8, <3>2
      <4> QED BY <3>1, <3>2, <4>1
    <3>5. Link(o[j], w, b[j - 1], b[j])
      BY <1>5
    <3> QED BY <3>3, <3>4, <3>5
  <2> QED BY <1>8, <2>1 DEF Links
<1>11. PICK f1 \in Seq(Numbered) : f1 = FlattenSeq(s) /\ Link(f1, w, b[0], b[ls])
  BY <1>1, <1>7, <1>9, FlattenRuns
<1>12. PICK f2 \in Seq(Numbered) : f2 = FlattenSeq(t) /\ Link(f2, w, b[ls], b[l])
  BY <1>1, <1>8, <1>10, FlattenRuns
<1>13. b[0] \in Nat /\ b[ls] \in Nat /\ b[l] \in Nat
  <2>1. 0 \in 0 .. l /\ ls \in 0 .. l /\ l \in 0 .. l
    BY <1>4
  <2> QED BY <1>6, <2>1
<1>14. Link(g, w, 0, lg) /\ Link(h, w, lg, b[0]) /\ Link(r, w, b[l], n)
  <2>1. Link(g, w, 0, lg)
    <3>1. lg = 0 + lg
      OBVIOUS
    <3> QED BY <1>1, <1>5, <3>1, Zenon DEF Link
  <2>2. Link(h, w, lg, b[0])
    BY <1>1, <1>5, Zenon DEF Link
  <2>3. Link(r, w, b[l], n)
    <3>1. n = b[l] + lr
      BY <1>5
    <3> QED BY <1>1, <1>5, <3>1, Zenon DEF Link
  <2> QED BY <2>1, <2>2, <2>3
<1>15. h \o f1 \in Seq(Numbered) /\ Link(h \o f1, w, lg, b[ls])
  BY <1>11, <1>13, <1>14, LinkJoin
<1>16. h \o f1 \o f2 \in Seq(Numbered) /\ Link(h \o f1 \o f2, w, lg, b[l])
  <2>1. PICK x \in Seq(Numbered) : x = h \o f1 /\ Link(x, w, lg, b[ls])
    BY <1>15
  <2>2. x \o f2 \in Seq(Numbered) /\ Link(x \o f2, w, lg, b[l])
    BY <1>12, <1>13, <2>1, LinkJoin
  <2> QED BY <2>1, <2>2, Zenon
<1>17. h \o f1 \o f2 \o r \in Seq(Numbered) /\ Link(h \o f1 \o f2 \o r, w, lg, n)
  <2>1. PICK x \in Seq(Numbered) : x = h \o f1 \o f2 /\ Link(x, w, lg, b[l])
    BY <1>16
  <2>2. x \o r \in Seq(Numbered) /\ Link(x \o r, w, lg, n)
    BY <1>13, <1>14, <2>1, LinkJoin
  <2> QED BY <2>1, <2>2, Zenon
<1>18. PICK x \in Seq(Numbered) : x = h \o f1 \o f2 \o r /\ Link(x, w, lg, n)
  BY <1>17
<1>19. PICK z \in Seq(Numbered) : z = g \o x /\ Link(z, w, 0, n)
  <2>1. g \o x \in Seq(Numbered) /\ Link(g \o x, w, 0, n)
    BY <1>14, <1>18, LinkJoin
  <2> QED BY <2>1
<1>20. z = Buffers(w, n)
  <2>1. PICK k \in Nat : k = Len(z) /\ n = 0 + k /\ Run(z, k, w, 0)
    BY <1>19 DEF Link
  <2>2. k = n
    BY <2>1
  <2>L. n = Len(z)
    BY <2>1, <2>2
  <2>3. z = [i \in 1 .. n |-> z[i]]
    BY <2>L, Indexed, Zenon
  <2>4. ASSUME NEW i \in 1 .. n PROVE z[i] = <<w, i>>
    <3>1. z[i] = <<w, 0 + i>>
      BY <2>1, <2>2 DEF Run
    <3>2. 0 + i = i
      OBVIOUS
    <3> QED BY <3>1, <3>2, Zenon
  <2>5. [i \in 1 .. n |-> z[i]] = [i \in 1 .. n |-> <<w, i>>]
    BY <2>4, Zenon
  <2> QED BY <2>3, <2>5, Zenon DEF Buffers
<1> QED BY <1>11, <1>12, <1>18, <1>19, <1>20, Zenon
---------------------------------------------------------------------------
(* Types, and what the parts of the invariant say of one connection.       *)

\* The assumptions, as the provers use them.
LEMMA Sizes ==
  /\ MaxData \in Nat /\ MaxLives \in Nat /\ MaxLives > 0 /\ Burst \in Nat
  /\ RxRingSize \in Nat /\ RxRingSize > 1 /\ CacheSize \in Nat /\ CacheSize > 1
  BY RxPathAssumption

Ops == {"OPEN", "SET_RING", "SELECT", "RXKICK", "CLOSE"}
CommandRecs == [op : {"OPEN", "SET_RING", "SELECT", "RXKICK", "CLOSE"}, conn : Conns,
                sel : BOOLEAN]
SvcRecs == [step : {"idle", "read", "mark", "post"}, conn : Conns \cup {NONE},
            free : 0 .. RxRingSize - 1, marks : 0 .. 2, final : 0 .. 1]

\* TypeOK in groups of variables.
TypeBufs == /\ backlog \in [Conns -> Seq(Numbered)] /\ rxRing \in [Conns -> Seq(Seq(Numbered))]
            /\ cache \in [Conns -> Seq(Seq(Numbered))] /\ got \in [Conns -> Seq(Numbered)]
            /\ held \in Seq(Numbered) /\ sent \in [Conns -> 0 .. MaxData]
            /\ lives \in [Conns -> 1 .. MaxLives]
TypeFlags == /\ queued \in [Conns -> BOOLEAN] /\ readReady \in [Conns -> BOOLEAN]
             /\ parent \in [Conns -> BOOLEAN] /\ attached \in [Conns -> BOOLEAN]
             /\ datagram \in SUBSET Conns /\ fin \in [Conns -> {"none", "bare", "data"}]
TypeLists == commands \in Seq(CommandRecs) /\ readyRing \in Seq(Conns)
TypeSvc == svc \in SvcRecs
TypeApp == /\ level \in BOOLEAN /\ open \in SUBSET Conns
           /\ mask \in SUBSET Conns /\ ready \in SUBSET Conns
           /\ at \in {"select", "presleep", "sleep", "run", "fill", "kick", "flush"}
           /\ cur \in Conns \cup {NONE}

LEMMA TypeGroups == TypeOK => TypeBufs /\ TypeFlags /\ TypeLists /\ TypeSvc /\ TypeApp
<1> SUFFICES ASSUME TypeOK PROVE TypeBufs /\ TypeFlags /\ TypeLists /\ TypeSvc /\ TypeApp
  OBVIOUS
<1>1. TypeBufs
  BY DEF TypeOK, TypeBufs
<1>2. TypeFlags
  BY DEF TypeOK, TypeFlags
<1>3. TypeLists
  BY DEF TypeOK, TypeLists, CommandRecs
<1>4. TypeSvc
  BY DEF TypeOK, TypeSvc, SvcRecs
<1>5. TypeApp
  BY DEF TypeOK, TypeApp
<1> QED BY <1>1, <1>2, <1>3, <1>4, <1>5

LEMMA TypeMade == TypeBufs /\ TypeFlags /\ TypeLists /\ TypeSvc /\ TypeApp => TypeOK
<1> SUFFICES ASSUME TypeBufs, TypeFlags, TypeLists, TypeSvc, TypeApp PROVE TypeOK
  OBVIOUS
<1> USE DEF TypeBufs, TypeFlags, TypeLists, TypeSvc, TypeApp
<1>1. svc \in [step : {"idle", "read", "mark", "post"}, conn : Conns \cup {NONE},
               free : 0 .. RxRingSize - 1, marks : 0 .. 2, final : 0 .. 1]
  BY DEF SvcRecs
<1>2. commands \in Seq([op : {"OPEN", "SET_RING", "SELECT", "RXKICK", "CLOSE"},
                        conn : Conns, sel : BOOLEAN])
  BY DEF CommandRecs
<1> QED BY <1>1, <1>2 DEF TypeOK

LEMMA TypeNext == TypeBufs' /\ TypeFlags' /\ TypeLists' /\ TypeSvc' /\ TypeApp' => TypeOK'
  BY TypeMade, PTL

\* The same, at one connection and at the service's state.
LEMMA TypedConn ==
  ASSUME TypeOK, NEW c \in Conns
  PROVE  /\ backlog[c] \in Seq(Numbered) /\ rxRing[c] \in Seq(Seq(Numbered))
         /\ cache[c] \in Seq(Seq(Numbered)) /\ got[c] \in Seq(Numbered)
         /\ held \in Seq(Numbered) /\ InHand(c) \in Seq(Numbered)
         /\ sent[c] \in Nat /\ sent[c] <= MaxData
         /\ lives[c] \in Nat /\ lives[c] >= 1 /\ lives[c] <= MaxLives
<1>1. /\ backlog[c] \in Seq(Numbered) /\ rxRing[c] \in Seq(Seq(Numbered))
      /\ cache[c] \in Seq(Seq(Numbered)) /\ got[c] \in Seq(Numbered)
      /\ held \in Seq(Numbered) /\ sent[c] \in 0 .. MaxData /\ lives[c] \in 1 .. MaxLives
  BY TypeGroups DEF TypeBufs
<1>2. InHand(c) \in Seq(Numbered)
  BY <1>1 DEF InHand
<1> QED BY <1>1, <1>2, Sizes

LEMMA Lengths ==
  ASSUME TypeOK, NEW c \in Conns
  PROVE  /\ Waiting(c) \in Nat /\ Kept(c) \in Nat /\ Pending(c) \in Nat /\ Got(c) \in Nat
         /\ Hand(c) \in Nat /\ Lined(c) \in Nat /\ Line(c) \in Seq(Seq(Numbered))
<1>1. Line(c) \in Seq(Seq(Numbered))
  <2>1. cache[c] \in Seq(Seq(Numbered)) /\ rxRing[c] \in Seq(Seq(Numbered))
    BY TypedConn
  <2> QED BY <2>1, Joined DEF Line
<1> QED BY <1>1, TypedConn, LenProperties DEF Waiting, Kept, Pending, Got, Hand, Lined

LEMMA TypedSvc ==
  ASSUME TypeOK
  PROVE  /\ svc \in SvcRecs /\ svc.free \in Nat /\ svc.free <= RxRingSize - 1
         /\ svc.marks \in 0 .. 2 /\ svc.final \in 0 .. 1
         /\ svc.step \in {"idle", "read", "mark", "post"}
<1>1. svc \in SvcRecs
  BY TypeGroups DEF TypeSvc
<1> QED BY <1>1, Sizes DEF SvcRecs

\* The records the service's state takes.
LEMMA SvcIdle == Idle \in SvcRecs /\ Idle.step = "idle"
  BY Sizes DEF Idle, SvcRecs

LEMMA SvcRests ==
  ASSUME svc' = Idle
  PROVE  SvcSound' /\ svc' \in SvcRecs
<1>1. svc'.step = "idle"
  BY SvcIdle
<1> QED BY <1>1, SvcIdle DEF SvcSound

LEMMA SvcStays ==
  ASSUME TypeOK, SvcSound, svc' = svc, attached' = attached,
         \A c \in Conns : Waiting(c)' \in Nat /\ Waiting(c)' <= Waiting(c)
  PROVE  SvcSound'
<1>1. CASE svc.step = "idle"
  BY <1>1 DEF SvcSound
<1>2. CASE svc.step # "idle"
  <2>1. PICK c \in Conns : c = svc.conn /\ attached[c] /\ Waiting(c) + svc.free < RxRingSize
    BY <1>2 DEF SvcSound
  <2>2. Waiting(c) \in Nat /\ Waiting(c)' \in Nat /\ Waiting(c)' <= Waiting(c)
    BY <2>1, Lengths
  <2>3. svc.free \in Nat
    BY TypedSvc
  <2>4. Waiting(c)' + svc.free < RxRingSize
    BY <2>1, <2>2, <2>3, Sizes
  <2>5. Waiting(svc.conn)' = Waiting(c)'
    BY <2>1 DEF Waiting
  <2> QED BY <2>1, <2>4, <2>5 DEF SvcSound
<1> QED BY <1>1, <1>2

\* user_data_available_cbk begins at a socket.
LEMMA SvcBegins ==
  ASSUME TypeOK, BoundsSound, NEW c \in Conns, NEW final \in 0 .. 1, DataAvailable(c, final),
         rxRing' = rxRing, attached'[c]
  PROVE  SvcSound' /\ svc' \in SvcRecs
<1>1. PICK n \in Nat : n = Waiting(c) /\ n < RxRingSize
  BY Lengths DEF BoundsSound, BoundSound
<1>2. PICK room \in 0 .. RxRingSize - 1 : room = RxRingSize - 1 - n
  BY <1>1, Sizes
<1>3. svc' = [step |-> "read", conn |-> c, free |-> room, marks |-> 0, final |-> final]
  BY <1>1, <1>2 DEF DataAvailable, Room, Waiting
<1>4. /\ svc' \in SvcRecs /\ svc'.step = "read" /\ svc'.conn = c /\ svc'.free = room
  BY <1>3 DEF SvcRecs
<1>5. n + room < RxRingSize
  BY <1>2, Sizes
<1>6. Waiting(c)' = n
  BY <1>1 DEF Waiting
<1>7. Waiting(svc.conn)' = Waiting(c)'
  BY <1>4 DEF Waiting
<1> QED BY <1>4, <1>5, <1>6, <1>7 DEF SvcSound

\* The service goes on at the same socket.
LEMMA SvcGoes ==
  ASSUME TypeOK, SvcSound, svc.step # "idle", UNCHANGED <<rxRing, attached>>,
         svc' \in SvcRecs, svc'.conn = svc.conn, svc'.free = svc.free
  PROVE  SvcSound'
<1>1. Waiting(svc.conn)' = Waiting(svc.conn)
  BY DEF Waiting
<1> QED BY <1>1 DEF SvcSound

LEMMA SvcMarked ==
  ASSUME TypeOK, SvcSound, svc.step # "idle", UNCHANGED <<rxRing, attached>>,
         svc' = AfterMark
  PROVE  SvcSound' /\ svc' \in SvcRecs
<1>1. svc \in SvcRecs /\ svc.marks \in 0 .. 2
  BY TypedSvc
<1>2. CASE svc.marks = 0
  <2>1. svc' = [svc EXCEPT !.step = "read"]
    BY <1>2 DEF AfterMark
  <2>2. svc' \in SvcRecs /\ svc'.conn = svc.conn /\ svc'.free = svc.free
    BY <1>1, <2>1 DEF SvcRecs
  <2> QED BY <2>2, SvcGoes
<1>3. CASE svc.marks = 1
  <2>1. svc' = Idle
    BY <1>3 DEF AfterMark
  <2> QED BY <2>1, SvcRests
<1>4. CASE svc.marks = 2
  <2>1. svc' = [svc EXCEPT !.step = "mark", !.marks = @ - 1]
    BY <1>4 DEF AfterMark
  <2>2. PICK m \in 0 .. 2 : m = svc.marks - 1
    BY <1>4
  <2>3. svc' = [svc EXCEPT !.step = "mark", !.marks = m]
    BY <2>1, <2>2, Zenon
  <2>4. svc' \in SvcRecs /\ svc'.conn = svc.conn /\ svc'.free = svc.free
    BY <1>1, <2>3 DEF SvcRecs
  <2> QED BY <2>4, SvcGoes
<1> QED BY <1>1, <1>2, <1>3, <1>4

\* A connection that a step leaves alone.
SameConn(d) ==
  /\ queued'[d] = queued[d] /\ attached'[d] = attached[d] /\ backlog'[d] = backlog[d]
  /\ rxRing'[d] = rxRing[d] /\ sent'[d] = sent[d] /\ got'[d] = got[d] /\ cache'[d] = cache[d]
  /\ InHand(d)' = InHand(d) /\ lives'[d] = lives[d] /\ (d \in open' <=> d \in open)
  /\ (Flushing(d) => Flushing(d)') /\ (d \in ready' \cup mask' => d \in ready \cup mask)

LEMMA ConnStays ==
  ASSUME NEW d, ConnSound(d), SameConn(d)
  PROVE  ConnSound(d)'
  BY DEF ConnSound, SameConn

LEMMA BoundStays ==
  ASSUME NEW d, BoundSound(d), rxRing'[d] = rxRing[d], cache'[d] = cache[d],
         datagram' = datagram
  PROVE  BoundSound(d)'
  BY DEF BoundSound, Waiting, Kept

SameParts(d) ==
  /\ backlog'[d] = backlog[d] /\ rxRing'[d] = rxRing[d] /\ cache'[d] = cache[d]
  /\ sent'[d] = sent[d] /\ got'[d] = got[d] /\ InHand(d)' = InHand(d) /\ lives'[d] = lives[d]
LEMMA PartsStay ==
  ASSUME NEW d, SameParts(d), Parts(d)
  PROVE  Parts(d)'
  BY DEF Parts, SameParts, Got, Hand, Line, Lined, Pending

\* The parts of one connection's stream, with their lengths named, and back.
PartsOf(c, lg, lh, ls, lr, b) ==
  Cut(got[c], lg, InHand(c), lh, Line(c), ls, backlog[c], lr, b, lives[c], sent[c])
LEMMA PartsAt ==
  ASSUME TypeOK, StreamParts, NEW c \in Conns, c \in open, attached[c]
  PROVE  \E lg \in Nat, lh \in Nat, ls \in Nat, lr \in Nat :
           /\ Long(got[c], lg) /\ Long(InHand(c), lh) /\ Long(Line(c), ls)
           /\ Long(backlog[c], lr) /\ \E b : PartsOf(c, lg, lh, ls, lr, b)
<1>1. PICK lg \in Nat, lh \in Nat, ls \in Nat, lr \in Nat :
        Got(c) = lg /\ Hand(c) = lh /\ Lined(c) = ls /\ Pending(c) = lr
  BY Lengths
<1>2. \E b : PartsOf(c, lg, lh, ls, lr, b)
  BY <1>1 DEF StreamParts, Parts, PartsOf
<1>3. Long(got[c], lg) /\ Long(InHand(c), lh) /\ Long(Line(c), ls) /\ Long(backlog[c], lr)
  BY <1>1 DEF Long, Got, Hand, Lined, Pending
<1> QED BY <1>2, <1>3

LEMMA PartsMade ==
  ASSUME NEW c, NEW lg, NEW lh, NEW ls, NEW lr, NEW b,
         Cut(got'[c], lg, InHand(c)', lh, Line(c)', ls, backlog'[c], lr, b, lives'[c],
             sent'[c]),
         Long(got'[c], lg), Long(InHand(c)', lh), Long(Line(c)', ls), Long(backlog'[c], lr)
  PROVE  Parts(c)'
<1>1. Got(c)' = lg /\ Hand(c)' = lh /\ Lined(c)' = ls /\ Pending(c)' = lr
  BY DEF Got, Hand, Lined, Pending, Long
<1> QED BY <1>1 DEF Parts

LEMMA StreamStays ==
  ASSUME StreamParts,
         \A d \in Conns : d \in open' /\ attached'[d] =>
           \/ d \in open /\ attached[d] /\ (Parts(d) => Parts(d)')
           \/ Parts(d)'
  PROVE  StreamParts'
  BY DEF StreamParts

\* A connection that has just been attached.
LEMMA BuffersLong ==
  /\ \A w : Buffers(w, 0) = <<>>
  /\ \A w \in 1 .. MaxLives, n \in 0 .. MaxData : Buffers(w, n) \in Seq(Numbered)
  /\ \A n \in Nat : \A w : Long(Buffers(w, n), n) /\ Run(Buffers(w, n), n, w, 0)
<1>1. ASSUME NEW w PROVE Buffers(w, 0) = <<>>
  BY DEF Buffers
<1>2. ASSUME NEW w \in 1 .. MaxLives, NEW n \in 0 .. MaxData
      PROVE  Buffers(w, n) \in Seq(Numbered)
  <2>1. n \in Nat /\ \A i \in 1 .. n : <<w, i>> \in Numbered
    BY Sizes DEF Numbered
  <2>2. Buffers(w, n) \in [1 .. n -> Numbered]
    BY <2>1 DEF Buffers
  <2> QED BY <2>1, <2>2
<1>3. ASSUME NEW w, NEW n \in Nat PROVE Long(Buffers(w, n), n) /\ Run(Buffers(w, n), n, w, 0)
  <2>1. Len(Buffers(w, n)) = n
    BY DEF Buffers
  <2>2. ASSUME NEW j \in 1 .. n PROVE Buffers(w, n)[j] = <<w, 0 + j>>
    <3>1. 0 + j = j
      OBVIOUS
    <3>2. Buffers(w, n)[j] = <<w, j>>
      BY DEF Buffers
    <3> QED BY <3>1, <3>2, Zenon
  <2> QED BY <2>1, <2>2 DEF Long, Run
<1> QED BY <1>1, <1>2, <1>3

LEMMA PartsFresh ==
  ASSUME NEW c, got'[c] = <<>>, InHand(c)' = <<>>, cache'[c] = <<>>, rxRing'[c] = <<>>,
         sent'[c] \in Nat, backlog'[c] = Buffers(lives'[c], sent'[c])
  PROVE  Parts(c)'
<1>0. PICK n \in Nat : n = sent'[c]
  OBVIOUS
<1>1. PICK r, w : r = backlog'[c] /\ w = lives'[c]
  OBVIOUS
<1>2. Long(r, n) /\ Run(r, n, w, 0)
  BY <1>0, <1>1, BuffersLong
<1>3. PICK g, h, s : g = got'[c] /\ h = InHand(c)' /\ s = Line(c)'
  OBVIOUS
<1>4. Long(g, 0) /\ Long(h, 0) /\ Long(s, 0)
  BY <1>3 DEF Long, Line
<1>5. PICK b : Cut(g, 0, h, 0, s, 0, r, n, b, w, n)
  BY <1>2, CutFresh
<1> QED BY <1>0, <1>1, <1>2, <1>3, <1>4, <1>5, PartsMade

LEMMA EmptyWaits == Len(<<>>) = 0 /\ Single(<<>>)
  BY DEF Single

LEMMA TwoAdded ==
  ASSUME NEW S, NEW s \in Seq(S), NEW x \in S, NEW y \in S
  PROVE  s \o <<x, y>> = Append(Append(s, x), y)
  OBVIOUS

\* What kernel_recvmsg takes from the receive queue.
LEMMA RecvmsgSplits ==
  ASSUME TypeOK, NEW c \in Conns, backlog[c] # <<>>, NEW l \in Nat, Long(backlog[c], l)
  PROVE  \E k \in Nat, m \in Nat, x \in Seq(Numbered), r \in Seq(Numbered) :
           /\ x = Recvmsg(c) /\ r = SubSeq(backlog[c], Len(Recvmsg(c)) + 1, Len(backlog[c]))
           /\ Long(x, k) /\ Long(r, m) /\ Splits(backlog[c], l, x, k, r, m)
           /\ c \in datagram => k = 1
<1>1. PICK s \in Seq(Numbered) : s = backlog[c] /\ l = Len(s) /\ s # <<>>
  BY TypedConn DEF Long
<1>2. l >= 1
  BY <1>1, EmptySeq
<1>3. PICK k \in Nat, m \in Nat : /\ l = k + m /\ k = Len(Recvmsg(c))
                                  /\ Recvmsg(c) \in Seq(Numbered)
                                  /\ \A i \in 1 .. k : Recvmsg(c)[i] = s[i]
                                  /\ c \in datagram => k = 1
  <2>1. CASE c \in datagram
    <3>1. Recvmsg(c) = <<s[1]>> /\ s[1] \in Numbered
      BY <1>1, <1>2, <2>1 DEF Recvmsg
    <3>2. PICK m \in Nat : l = 1 + m
      <4>1. l - 1 \in Nat /\ l = 1 + (l - 1)
        BY <1>2
      <4> QED BY <4>1
    <3>3. Len(<<s[1]>>) = 1 /\ <<s[1]>>[1] = s[1] /\ <<s[1]>> \in Seq(Numbered)
      BY <3>1
    <3> QED BY <3>1, <3>2, <3>3
  <2>2. CASE c \notin datagram
    <3>1. Recvmsg(c) = s
      BY <1>1, <2>2 DEF Recvmsg
    <3>2. l = l + 0
      OBVIOUS
    <3> QED BY <1>1, <2>2, <3>1, <3>2
  <2> QED BY <2>1, <2>2
<1>4. PICK f \in Seq(Numbered), g \in Seq(Numbered) :
        /\ f = SubSeq(s, 1, k) /\ g = SubSeq(s, k + 1, l)
        /\ Long(f, k) /\ Long(g, m) /\ Splits(s, l, f, k, g, m)
  <2>1. Long(s, l) /\ l = k + m
    BY <1>1, <1>3 DEF Long
  <2> QED BY <2>1, Split
<1>5. Recvmsg(c) = f
  <2>1. Agree(Recvmsg(c), f, k)
    BY <1>3, <1>4 DEF Agree, Splits
  <2>2. Long(Recvmsg(c), k)
    BY <1>3 DEF Long
  <2> QED BY <1>3, <1>4, <2>1, <2>2, SameSeq
<1>6. g = SubSeq(backlog[c], Len(Recvmsg(c)) + 1, Len(backlog[c]))
  BY <1>1, <1>3, <1>4
<1> QED BY <1>1, <1>3, <1>4, <1>5, <1>6

\* How many chains ipaugenblick_dequeue_rx_buf moves.
LEMMA MovedCount ==
  ASSUME NEW ca, NEW rx, NEW ls \in Nat, NEW lt \in Nat, Long(ca, ls), Long(rx, lt),
         ls < CacheSize
  PROVE  \E k \in Nat, m \in Nat : /\ k = Lowest({Burst, Room(ca, CacheSize), Len(rx)})
                                   /\ lt = k + m /\ ls + k < CacheSize
<1>1. PICK a \in Nat, b \in Nat : a = Burst /\ b = CacheSize - 1 - ls
  BY Sizes
<1>2. b = Room(ca, CacheSize) /\ lt = Len(rx)
  BY <1>1 DEF Room, Long
<1>3. \E n \in {a, b, lt} : \A m \in {a, b, lt} : n <= m
  OBVIOUS
<1>4. PICK k : k = Lowest({a, b, lt})
  OBVIOUS
<1>5. k \in {a, b, lt} /\ \A m \in {a, b, lt} : k <= m
  BY <1>3, <1>4, Zenon DEF Lowest
<1>6. k \in Nat /\ k <= b /\ k <= lt
  BY <1>5
<1>7. PICK m \in Nat : lt = k + m
  <2>1. lt - k \in Nat /\ lt = k + (lt - k)
    BY <1>6
  <2> QED BY <2>1
<1>8. ls + k < CacheSize
  BY <1>1, <1>6, Sizes
<1>9. k = Lowest({Burst, Room(ca, CacheSize), Len(rx)})
  BY <1>1, <1>2, <1>4
<1> QED BY <1>6, <1>7, <1>8, <1>9

\* ipaugenblick_receive returns the chain in hand; it has arrived before.
Returned(c) ==
  /\ c = cur /\ got'[c] = got[c] \o held /\ InHand(c)' = <<>> /\ cache'[c] = cache[c]
  /\ rxRing'[c] = rxRing[c] /\ backlog'[c] = backlog[c] /\ lives'[c] = lives[c]
  /\ sent'[c] = sent[c]
LEMMA PartsReturn ==
  ASSUME TypeOK, StreamParts, NEW c \in Conns, c \in open, attached[c], Returned(c)
  PROVE  /\ Parts(c)' /\ \E lg, lg2 \in Nat :
           /\ lg = Len(got[c]) /\ lg2 = Len(got'[c]) /\ lg2 = lg + Len(held)
           /\ lg2 <= sent[c] /\ Run(got[c], lg, lives[c], 0) /\ Run(got'[c], lg2, lives[c], 0)
<1>1. PICK lg \in Nat, lh \in Nat, ls \in Nat, lr \in Nat :
        /\ Long(got[c], lg) /\ Long(InHand(c), lh) /\ Long(Line(c), ls)
        /\ Long(backlog[c], lr) /\ \E b : PartsOf(c, lg, lh, ls, lr, b)
  BY PartsAt
<1>2. PICK n \in Nat : n = sent[c]
  BY TypedConn
<1>3. PICK b : Cut(got[c], lg, InHand(c), lh, Line(c), ls, backlog[c], lr, b, lives[c], n)
  BY <1>1, <1>2 DEF PartsOf
<1>4. InHand(c) = held
  BY DEF InHand, Returned
<1>5. PICK lg2 \in Nat : /\ lg2 = lg + lh /\ Long(got'[c], lg2)
                         /\ Joins(got[c], lg, InHand(c), lh, got'[c])
  <2>1. PICK g \in Seq(Numbered), h \in Seq(Numbered) : g = got[c] /\ h = InHand(c)
    BY TypedConn
  <2>2. Len(g \o h) = Len(g) + Len(h) /\ Joins(g, Len(g), h, Len(h), g \o h)
    BY Joined
  <2>3. lg = Len(g) /\ lh = Len(h) /\ got'[c] = g \o h
    BY <1>1, <1>4, <2>1 DEF Long, Returned
  <2>4. lg + lh \in Nat
    OBVIOUS
  <2> QED BY <2>1, <2>2, <2>3, <2>4 DEF Long
<1>6. /\ Cut(got'[c], lg2, InHand(c)', 0, Line(c), ls, backlog[c], lr, b, lives[c], n)
      /\ lg2 <= n
  BY <1>3, <1>5, CutReturns
<1>7. Line(c)' = Line(c)
  BY DEF Line, Returned
<1>8. Parts(c)'
  <2>1. Long(InHand(c)', 0)
    BY EmptyWaits DEF Long, Returned
  <2>2. Cut(got'[c], lg2, InHand(c)', 0, Line(c)', ls, backlog'[c], lr, b, lives'[c], sent'[c])
    BY <1>2, <1>6, <1>7 DEF Returned
  <2>3. Long(Line(c)', ls) /\ Long(backlog'[c], lr)
    BY <1>1, <1>7 DEF Returned
  <2> QED BY <1>5, <2>1, <2>2, <2>3, PartsMade
<1>9. Run(got[c], lg, lives[c], 0) /\ Run(got'[c], lg2, lives[c], 0)
  BY <1>3, <1>6 DEF Cut
<1>10. lg = Len(got[c]) /\ lg2 = Len(got'[c]) /\ lg2 = lg + Len(held) /\ lg2 <= sent[c]
  BY <1>1, <1>2, <1>4, <1>5, <1>6 DEF Long
<1> QED BY <1>8, <1>9, <1>10

---------------------------------------------------------------------------
(* The commands in command_ring.                                           *)

\* The order does not depend on connections without a command, nor on what an
\* attached one has received.
LEMMA OrderlySame ==
  ASSUME NEW q, NEW att, NEW snt, NEW snt2, NEW opn, NEW opn2, Orderly(q, att, snt, opn),
         \A i \in DOMAIN q : /\ ~att[q[i].conn] => snt2[q[i].conn] = snt[q[i].conn]
                             /\ q[i].conn \in opn2 => q[i].conn \in opn
  PROVE  Orderly(q, att, snt2, opn2)
  BY DEF Orderly

\* A command at the end of command_ring.
Fits(q, att, snt, opn, e) ==
  /\ e.op \in Attaches => /\ ~att[e.conn] /\ snt[e.conn] = 0
                          /\ \A j \in DOMAIN q : q[j].conn # e.conn
  /\ e.op = "SELECT" => \E j \in DOMAIN q : q[j].op \in Attaches /\ q[j].conn = e.conn
  /\ e.op = "CLOSE" => e.conn \notin opn
  /\ \A j \in DOMAIN q : q[j].op = "CLOSE" => q[j].conn # e.conn
LEMMA OrderlyAdd ==
  ASSUME NEW q \in Seq(CommandRecs), NEW att, NEW snt, NEW opn, Orderly(q, att, snt, opn),
         NEW e \in CommandRecs, Fits(q, att, snt, opn, e), NEW q2, q2 = Append(q, e)
  PROVE  Orderly(q2, att, snt, opn) /\ q2 \in Seq(CommandRecs)
<1> DEFINE n == Len(q)
<1>3. /\ n \in Nat /\ DOMAIN q = 1 .. n /\ DOMAIN q2 = 1 .. n + 1
      /\ \A i \in 1 .. n : q2[i] = q[i]
      /\ q2[n + 1] = e /\ q2 \in Seq(CommandRecs)
  BY AppendProperties, LenProperties
<1> HIDE DEF n
<1>4. \A i \in 1 .. n + 1 : i \in 1 .. n \/ i = n + 1
  BY <1>3
<1>5. "SELECT" \notin Attaches /\ "CLOSE" \notin Attaches
  BY DEF Attaches
<1>6. ASSUME NEW i \in DOMAIN q2, q2[i].op \in Attaches
      PROVE  /\ ~att[q2[i].conn] /\ snt[q2[i].conn] = 0
             /\ \A j \in DOMAIN q2 : q2[j].conn = q2[i].conn => j >= i
  <2>1. CASE i \in 1 .. n
    <3>1. /\ ~att[q[i].conn] /\ snt[q[i].conn] = 0
          /\ \A j \in DOMAIN q : q[j].conn = q[i].conn => j >= i
      BY <1>3, <1>6, <2>1 DEF Orderly
    <3>2. n + 1 >= i
      BY <1>3, <2>1
    <3> QED BY <1>3, <1>4, <2>1, <3>1, <3>2
  <2>2. CASE i = n + 1
    <3>1. /\ ~att[e.conn] /\ snt[e.conn] = 0
          /\ \A j \in DOMAIN q : q[j].conn # e.conn
      BY <1>3, <1>6, <2>2 DEF Fits
    <3>2. n + 1 >= n + 1
      BY <1>3
    <3> QED BY <1>3, <1>4, <2>2, <3>1, <3>2
  <2> QED BY <1>3, <1>4, <2>1, <2>2
<1>7. ASSUME NEW i \in DOMAIN q2, q2[i].op = "SELECT"
      PROVE  \/ att[q2[i].conn]
             \/ \E j \in DOMAIN q2 : j < i /\ q2[j].op \in Attaches /\ q2[j].conn = q2[i].conn
  <2>1. CASE i \in 1 .. n
    <3>1. \/ att[q[i].conn]
          \/ \E j \in DOMAIN q : j < i /\ q[j].op \in Attaches /\ q[j].conn = q[i].conn
      BY <1>3, <1>7, <2>1 DEF Orderly
    <3> QED BY <1>3, <2>1, <3>1
  <2>2. CASE i = n + 1
    <3>1. PICK j \in DOMAIN q : q[j].op \in Attaches /\ q[j].conn = e.conn
      BY <1>3, <1>7, <2>2 DEF Fits
    <3>2. j < n + 1 /\ j \in 1 .. n + 1 /\ j \in 1 .. n
      BY <1>3
    <3> QED BY <1>3, <2>2, <3>1, <3>2
  <2> QED BY <1>3, <1>4, <2>1, <2>2
<1>8. ASSUME NEW i \in DOMAIN q2, q2[i].op = "CLOSE"
      PROVE  /\ q2[i].conn \notin opn
             /\ \A j \in DOMAIN q2 : q2[j].conn = q2[i].conn => j <= i
  <2>1. CASE i \in 1 .. n
    <3>1. /\ q[i].conn \notin opn /\ q[i].conn # e.conn
          /\ \A j \in DOMAIN q : q[j].conn = q[i].conn => j <= i
      BY <1>3, <1>8, <2>1 DEF Orderly, Fits
    <3> QED BY <1>3, <1>4, <2>1, <3>1
  <2>2. CASE i = n + 1
    <3>1. e.conn \notin opn /\ q2[i].conn = e.conn
      BY <1>3, <1>8, <2>2 DEF Fits
    <3> QED BY <1>3, <2>2, <3>1
  <2> QED BY <1>3, <1>4, <2>1, <2>2
<1> QED BY <1>3, <1>6, <1>7, <1>8 DEF Orderly

\* The first command is taken.
LEMMA CommandsTaken ==
  ASSUME NEW q \in Seq(CommandRecs), q # <<>>, NEW q2, q2 = Tail(q)
  PROVE  /\ q2 \in Seq(CommandRecs)
         /\ 1 \in DOMAIN q /\ Head(q) = q[1]
         /\ DOMAIN q \subseteq Nat \ {0} /\ DOMAIN q2 \subseteq Nat \ {0}
         /\ \A i \in DOMAIN q2 : \E k \in DOMAIN q : k = i + 1 /\ q2[i] = q[k]
         /\ \A k \in DOMAIN q : k # 1 => \E i \in DOMAIN q2 : k = i + 1 /\ q2[i] = q[k]
<1>2. PICK n \in Nat : n = Len(q)
  BY LenProperties
<1>3. /\ q2 \in Seq(CommandRecs) /\ Len(q2) = n - 1 /\ n >= 1
      /\ \A i \in 1 .. Len(q2) : q2[i] = q[i + 1]
      /\ Head(q) = q[1] /\ DOMAIN q = 1 .. n
  BY <1>2, HeadTailProperties, LenProperties, EmptySeq
<1>4. DOMAIN q2 = 1 .. n - 1 /\ \A i \in 1 .. n - 1 : q2[i] = q[i + 1]
  BY <1>3, LenProperties
<1>5. ASSUME NEW i \in DOMAIN q2
      PROVE  \E k \in DOMAIN q : k = i + 1 /\ q2[i] = q[k]
  <2>1. i + 1 \in DOMAIN q
    BY <1>2, <1>3, <1>4
  <2> QED BY <1>4, <2>1
<1>6. ASSUME NEW k \in DOMAIN q, k # 1
      PROVE  \E i \in DOMAIN q2 : k = i + 1 /\ q2[i] = q[k]
  <2>1. k - 1 \in 1 .. n - 1 /\ k = (k - 1) + 1
    BY <1>2, <1>3, <1>6
  <2>2. q2[k - 1] = q[k]
    BY <1>4, <2>1
  <2> QED BY <1>4, <2>1, <2>2
<1>7. /\ 1 \in DOMAIN q /\ Head(q) = q[1]
      /\ DOMAIN q \subseteq Nat \ {0} /\ DOMAIN q2 \subseteq Nat \ {0}
  BY <1>2, <1>3, <1>4
<1> QED BY <1>3, <1>5, <1>6, <1>7

LEMMA CommandConns ==
  ASSUME NEW q \in Seq(CommandRecs), NEW i \in DOMAIN q
  PROVE  q[i].conn \in Conns /\ q[i].op \in Ops
<1>1. q[i] \in CommandRecs
  BY ElementOfSeq, LenProperties
<1> QED BY <1>1 DEF CommandRecs, Ops

\* Executing a command leaves the others in order.
Done(op, c, att, snt, att2, snt2) ==
  /\ \A d \in Conns : d # c => att2[d] = att[d] /\ snt2[d] = snt[d]
  /\ \/ op = "CLOSE"
     \/ op \in Attaches /\ att2[c]
     \/ op \notin Attaches /\ att2[c] = att[c]
LEMMA OrderlyTail ==
  ASSUME NEW q \in Seq(CommandRecs), NEW att, NEW att2, NEW snt, NEW snt2, NEW opn,
         Orderly(q, att, snt, opn), q # <<>>, NEW q2, q2 = Tail(q), NEW op, NEW c \in Conns,
         q[1].op = op, q[1].conn = c,
         Done(op, c, att, snt, att2, snt2)
  PROVE  Orderly(q2, att2, snt2, opn) /\ q2 \in Seq(CommandRecs)
<1>1. /\ \A d \in Conns : d # c => att2[d] = att[d] /\ snt2[d] = snt[d]
      /\ \/ op = "CLOSE"
         \/ op \in Attaches /\ att2[c]
         \/ op \notin Attaches /\ att2[c] = att[c]
  BY DEF Done
<1>2. /\ q2 \in Seq(CommandRecs) /\ 1 \in DOMAIN q
      /\ DOMAIN q \subseteq Nat \ {0} /\ DOMAIN q2 \subseteq Nat \ {0}
  BY CommandsTaken
<1>3. \A i \in DOMAIN q2 : \E k \in DOMAIN q : k = i + 1 /\ q2[i] = q[k]
  BY CommandsTaken
<1>4. \A k \in DOMAIN q : k # 1 => \E i \in DOMAIN q2 : k = i + 1 /\ q2[i] = q[k]
  BY CommandsTaken
<1>5. "SELECT" \notin Attaches /\ "CLOSE" \notin Attaches
  BY DEF Attaches
<1>6. ASSUME NEW i \in DOMAIN q2, q2[i].op \in Attaches
      PROVE  /\ ~att2[q2[i].conn] /\ snt2[q2[i].conn] = 0
             /\ \A j \in DOMAIN q2 : q2[j].conn = q2[i].conn => j >= i
  <2>1. PICK k \in DOMAIN q : k = i + 1 /\ q2[i] = q[k]
    BY <1>3
  <2>2. PICK d \in Conns : d = q[k].conn
    BY CommandConns
  <2>3. /\ ~att[d] /\ snt[d] = 0
        /\ \A j \in DOMAIN q : q[j].conn = d => j >= k
    BY <1>6, <2>1, <2>2 DEF Orderly
  <2>4. d # c
    BY <1>2, <2>1, <2>3
  <2>5. ASSUME NEW j \in DOMAIN q2, q2[j].conn = d PROVE j >= i
    <3>1. PICK l \in DOMAIN q : l = j + 1 /\ q2[j] = q[l]
      BY <1>3
    <3>2. l >= k
      BY <2>3, <2>5, <3>1
    <3> QED BY <1>2, <2>1, <3>1, <3>2
  <2> QED BY <1>1, <2>1, <2>2, <2>3, <2>4, <2>5
<1>7. ASSUME NEW i \in DOMAIN q2, q2[i].op = "SELECT"
      PROVE  \/ att2[q2[i].conn]
             \/ \E j \in DOMAIN q2 : j < i /\ q2[j].op \in Attaches /\ q2[j].conn = q2[i].conn
  <2>1. PICK k \in DOMAIN q : k = i + 1 /\ q2[i] = q[k]
    BY <1>3
  <2>2. PICK d \in Conns : d = q[k].conn
    BY CommandConns
  <2>3. CASE att[d] /\ d # c
    BY <1>1, <2>1, <2>2, <2>3
  <2>4. ASSUME NEW j \in DOMAIN q, j < k, q[j].op \in Attaches, q[j].conn = d, d # c
        PROVE  \E l \in DOMAIN q2 : l < i /\ q2[l].op \in Attaches /\ q2[l].conn = d
    <3>1. j # 1
      BY <2>4
    <3>2. PICK l \in DOMAIN q2 : j = l + 1 /\ q2[l] = q[j]
      BY <1>4, <3>1
    <3>3. l < i
      BY <1>2, <2>1, <2>4, <3>2
    <3> QED BY <2>4, <3>2, <3>3
  <2>5. CASE d = c
    <3>1. op # "CLOSE"
      <4>1. op = "CLOSE" => k <= 1
        BY <1>2, <2>2, <2>5 DEF Orderly
      <4> QED BY <1>2, <2>1, <4>1
    <3>2. op \notin Attaches => att[c]
      <4>1. ASSUME NEW j \in DOMAIN q, q[j].op \in Attaches, q[j].conn = c
            PROVE  op \in Attaches
        <5>1. 1 >= j
          BY <1>2, <4>1 DEF Orderly
        <5>2. j = 1
          BY <1>2, <5>1
        <5> QED BY <4>1, <5>2
      <4>2. att[c] \/ \E j \in DOMAIN q : q[j].op \in Attaches /\ q[j].conn = c
        BY <1>7, <2>1, <2>2, <2>5 DEF Orderly
      <4> QED BY <4>1, <4>2
    <3> QED BY <1>1, <2>1, <2>2, <2>5, <3>1, <3>2
  <2>6. att[d] \/ \E j \in DOMAIN q : j < k /\ q[j].op \in Attaches /\ q[j].conn = d
    BY <1>7, <2>1, <2>2 DEF Orderly
  <2> QED BY <2>1, <2>2, <2>3, <2>4, <2>5, <2>6
<1>8. ASSUME NEW i \in DOMAIN q2, q2[i].op = "CLOSE"
      PROVE  /\ q2[i].conn \notin opn
             /\ \A j \in DOMAIN q2 : q2[j].conn = q2[i].conn => j <= i
  <2>1. PICK k \in DOMAIN q : k = i + 1 /\ q2[i] = q[k]
    BY <1>3
  <2>2. /\ q[k].conn \notin opn
        /\ \A j \in DOMAIN q : q[j].conn = q[k].conn => j <= k
    BY <1>8, <2>1 DEF Orderly
  <2>3. ASSUME NEW j \in DOMAIN q2, q2[j].conn = q[k].conn PROVE j <= i
    <3>1. PICK l \in DOMAIN q : l = j + 1 /\ q2[j] = q[l]
      BY <1>3
    <3>2. l <= k
      BY <2>2, <2>3, <3>1
    <3> QED BY <1>2, <2>1, <3>1, <3>2
  <2> QED BY <2>1, <2>2, <2>3
<1> QED BY <1>2, <1>6, <1>7, <1>8 DEF Orderly

\* The commands the service executes, one by one.
Executes(op, c) ==
  /\ svc = Idle /\ commands # <<>> /\ commands' = Tail(commands)
  /\ Head(commands).op = op /\ Head(commands).conn = c
  /\ UNCHANGED <<readReady, readyRing, datagram, appVars>>
ExecOpen(c) ==
  /\ Executes("OPEN", c)
  /\ attached' = [attached EXCEPT ![c] = TRUE]
  /\ \E sel \in BOOLEAN : parent' = [parent EXCEPT ![c] = sel]
  /\ UNCHANGED <<backlog, fin, sent, queued, rxRing, svc>>
ExecSetRing(c) ==
  /\ Executes("SET_RING", c)
  /\ \E n \in 0 .. MaxData :
       /\ sent' = [sent EXCEPT ![c] = n]
       /\ backlog' = [backlog EXCEPT ![c] = Buffers(lives[c], n)]
  /\ \E f \in {"none", "bare"} : fin' = [fin EXCEPT ![c] = f]
  /\ attached' = [attached EXCEPT ![c] = TRUE]
  /\ DataAvailable(c, 1)
  /\ UNCHANGED <<queued, rxRing, parent>>
ExecSelect(c) ==
  /\ Executes("SELECT", c)
  /\ parent' = [parent EXCEPT ![c] = TRUE]
  /\ DataAvailable(c, 1)
  /\ UNCHANGED <<backlog, fin, sent, queued, rxRing, attached>>
ExecRxKick(c) ==
  /\ Executes("RXKICK", c)
  /\ IF attached[c] THEN DataAvailable(c, 0) ELSE UNCHANGED svc
  /\ UNCHANGED <<backlog, fin, sent, queued, rxRing, parent, attached>>
ExecClose(c) ==
  /\ Executes("CLOSE", c)
  /\ backlog' = [backlog EXCEPT ![c] = <<>>]
  /\ queued' = [queued EXCEPT ![c] = FALSE]
  /\ rxRing' = [rxRing EXCEPT ![c] = <<>>]
  /\ parent' = [parent EXCEPT ![c] = FALSE]
  /\ attached' = [attached EXCEPT ![c] = FALSE]
  /\ UNCHANGED <<fin, sent, svc>>

LEMMA HeadOfCommands ==
  ASSUME TypeOK, NEW op, NEW c \in Conns, Executes(op, c)
  PROVE  /\ commands \in Seq(CommandRecs) /\ 1 \in DOMAIN commands
         /\ commands[1].op = op /\ commands[1].conn = c
         /\ DOMAIN commands \subseteq Nat \ {0}
<1>1. commands \in Seq(CommandRecs)
  BY TypeGroups DEF TypeLists
<1> QED BY <1>1, CommandsTaken DEF Executes

LEMMA CommandsStay ==
  ASSUME TypeOK, CommandsSound, NEW op, NEW c \in Conns, Executes(op, c),
         Done(op, c, attached, sent, attached', sent')
  PROVE  CommandsSound' /\ commands' \in Seq(CommandRecs)
<1>1. /\ commands \in Seq(CommandRecs) /\ commands # <<>> /\ commands' = Tail(commands)
      /\ commands[1].op = op /\ commands[1].conn = c /\ open' = open
  BY HeadOfCommands DEF Executes, appVars
<1>2. Orderly(commands, attached, sent, open)
  BY DEF CommandsSound
<1>3. Orderly(commands', attached', sent', open) /\ commands' \in Seq(CommandRecs)
  BY <1>1, <1>2, OrderlyTail
<1> QED BY <1>1, <1>3 DEF CommandsSound

LEMMA CommandRec ==
  ASSUME NEW op \in Ops, NEW c \in Conns, NEW sel \in BOOLEAN
  PROVE  \E e \in CommandRecs : e = [op |-> op, conn |-> c, sel |-> sel] /\ e.op = op /\ e.conn = c
<1>1. PICK e : e = [op |-> op, conn |-> c, sel |-> sel]
  OBVIOUS
<1>2. e \in CommandRecs /\ e.op = op /\ e.conn = c
  BY <1>1 DEF CommandRecs, Ops
<1> QED BY <1>1, <1>2

LEMMA CommandsGrow ==
  ASSUME TypeOK, CommandsSound, NEW e \in CommandRecs, commands' = Append(commands, e),
         attached' = attached, sent' = sent, open' \subseteq open, e.op \in {"RXKICK", "CLOSE"},
         e.conn \in open, e.op = "CLOSE" => e.conn \notin open'
  PROVE  CommandsSound' /\ commands' \in Seq(CommandRecs)
<1>1. commands \in Seq(CommandRecs)
  BY TypeGroups DEF TypeLists
<1>2. Orderly(commands, attached, sent, open')
  BY OrderlySame DEF CommandsSound
<1>3. e.op \notin Attaches /\ e.op # "SELECT"
  BY DEF Attaches
<1>4. \A j \in DOMAIN commands : commands[j].op = "CLOSE" => commands[j].conn # e.conn
  BY DEF CommandsSound, Orderly
<1>5. Fits(commands, attached, sent, open', e)
  BY <1>3, <1>4 DEF Fits
<1>6. Orderly(commands', attached, sent, open') /\ commands' \in Seq(CommandRecs)
  BY <1>1, <1>2, <1>5, OrderlyAdd
<1> QED BY <1>6 DEF CommandsSound

\* What the application sends when it opens a connection without commands.
LEMMA CommandsOpen ==
  ASSUME TypeOK, CommandsSound, NEW c \in Conns, Open(c)
  PROVE  CommandsSound' /\ commands' \in Seq(CommandRecs)
<1>1. /\ commands \in Seq(CommandRecs) /\ attached' = attached /\ open' = open \cup {c}
      /\ ~attached[c] /\ \A i \in DOMAIN commands : commands[i].conn # c
  BY TypeGroups DEF TypeLists, Open
<1>2. sent'[c] = 0 /\ \A d \in Conns : d # c => sent'[d] = sent[d]
  BY TypeGroups, Sizes DEF TypeBufs, Open
<1>3. Orderly(commands, attached, sent', open')
  <2>1. \A i \in DOMAIN commands : /\ sent'[commands[i].conn] = sent[commands[i].conn]
                                   /\ commands[i].conn \in open' => commands[i].conn \in open
    BY <1>1, <1>2, CommandConns
  <2> QED BY <2>1, OrderlySame DEF CommandsSound
<1>4. ASSUME NEW e \in CommandRecs, e.op \in Attaches, e.conn = c
      PROVE  /\ Append(commands, e) \in Seq(CommandRecs)
             /\ Orderly(Append(commands, e), attached, sent', open')
  <2>1. e.op # "SELECT" /\ e.op # "CLOSE"
    BY <1>4 DEF Attaches
  <2>2. Fits(commands, attached, sent', open', e)
    BY <1>1, <1>2, <1>4, <2>1 DEF Fits
  <2>3. PICK q : q = Append(commands, e)
    OBVIOUS
  <2>4. Orderly(q, attached, sent', open') /\ q \in Seq(CommandRecs)
    BY <1>1, <1>3, <2>2, <2>3, OrderlyAdd
  <2> QED BY <2>3, <2>4
<1>5. CASE Send("OPEN", c, TRUE)
  <2>0. "OPEN" \in Ops /\ "OPEN" \in Attaches
    BY DEF Ops, Attaches
  <2>1. PICK e \in CommandRecs : /\ e = [op |-> "OPEN", conn |-> c, sel |-> TRUE]
                                 /\ e.op = "OPEN" /\ e.conn = c
    BY <2>0, CommandRec, Zenon
  <2>2. commands' = Append(commands, e)
    BY <1>5, <2>1 DEF Send
  <2> QED BY <1>1, <1>4, <2>0, <2>1, <2>2 DEF CommandsSound
<1>6. ASSUME NEW op \in {"OPEN", "SET_RING"},
             commands' = commands \o <<[op |-> op, conn |-> c, sel |-> FALSE],
                                       [op |-> "SELECT", conn |-> c, sel |-> FALSE]>>
      PROVE  CommandsSound' /\ commands' \in Seq(CommandRecs)
  <2>0. op \in Ops /\ op \in Attaches
    BY DEF Ops, Attaches
  <2>1. PICK e \in CommandRecs : /\ e = [op |-> op, conn |-> c, sel |-> FALSE]
                                 /\ e.op = op /\ e.conn = c
    BY <2>0, CommandRec, Zenon
  <2>2. PICK f \in CommandRecs : /\ f = [op |-> "SELECT", conn |-> c, sel |-> FALSE]
                                 /\ f.op = "SELECT" /\ f.conn = c
    <3>1. "SELECT" \in Ops
      BY DEF Ops
    <3> QED BY <3>1, CommandRec, Zenon
  <2>3. PICK q \in Seq(CommandRecs) : q = Append(commands, e)
    BY <1>4, <2>0, <2>1
  <2>4. Orderly(q, attached, sent', open')
    BY <1>4, <2>0, <2>1, <2>3
  <2>5. commands' = Append(q, f)
    <3>1. commands' = commands \o <<e, f>>
      BY <1>6, <2>1, <2>2
    <3> QED BY <1>1, <2>3, <3>1, TwoAdded
  <2>6. Fits(q, attached, sent', open', f)
    <3>1. PICK n \in Nat : n = Len(commands)
      BY <1>1, LenProperties
    <3>2. /\ DOMAIN commands = 1 .. n /\ DOMAIN q = 1 .. n + 1 /\ q[n + 1] = e
          /\ \A i \in 1 .. n : q[i] = commands[i]
      BY <1>1, <2>3, <3>1, AppendProperties, LenProperties
    <3>3. \A i \in DOMAIN q : i \in 1 .. n \/ i = n + 1
      BY <3>1, <3>2
    <3>4. n + 1 \in DOMAIN q
      BY <3>1, <3>2
    <3>5. "CLOSE" \notin Attaches /\ "SELECT" \notin Attaches
      BY DEF Attaches
    <3>6. \A j \in DOMAIN q : q[j].op = "CLOSE" => q[j].conn # c
      BY <1>1, <2>0, <2>1, <3>2, <3>3, <3>5
    <3> QED BY <2>0, <2>1, <2>2, <3>2, <3>4, <3>5, <3>6 DEF Fits
  <2>7. PICK q2 : q2 = Append(q, f)
    OBVIOUS
  <2>8. Orderly(q2, attached, sent', open') /\ q2 \in Seq(CommandRecs)
    BY <2>4, <2>6, <2>7, OrderlyAdd
  <2> QED BY <1>1, <2>5, <2>7, <2>8 DEF CommandsSound
<1> QED BY <1>5, <1>6 DEF Open

---------------------------------------------------------------------------
(* The steps.                                                              *)

LEMMA StepExecOpen ==
  ASSUME RxInv, NEW c \in Conns, ExecOpen(c)
  PROVE  RxInv'
<1> USE DEF RxInv
<1>1. UNCHANGED <<rxRing, readReady, readyRing, datagram, fin, backlog, sent, queued, svc,
                  level, open, lives, cache, got, mask, ready, at, cur, held>>
  BY DEF ExecOpen, Executes, shared, svcVars, appVars
<1>h. /\ Executes("OPEN", c) /\ 1 \in DOMAIN commands /\ commands[1].op = "OPEN"
      /\ commands[1].conn = c /\ DOMAIN commands \subseteq Nat \ {0}
  BY HeadOfCommands DEF ExecOpen
<1>c. attached'[c] = TRUE /\ \A d \in Conns : d # c => attached'[d] = attached[d]
  BY TypeGroups DEF ExecOpen, TypeFlags
<1>a. CommandsSound' /\ commands' \in Seq(CommandRecs)
  <2>1. Done("OPEN", c, attached, sent, attached', sent')
    BY <1>1, <1>c DEF Done, Attaches
  <2> QED BY <1>h, <2>1, CommandsStay
<1>d. ~attached[c]
  BY <1>h DEF CommandsSound, Orderly, Attaches
<1>s. SvcSound'
  <2>1. svc' = Idle
    BY <1>1, <1>h DEF Executes
  <2> QED BY <2>1, SvcRests
<1>i. \A d \in Conns : InHand(d)' = InHand(d) /\ (Flushing(d)' <=> Flushing(d))
  BY <1>1 DEF InHand, Flushing
<1>2. TypeOK'
  <2>0. TypeBufs /\ TypeFlags /\ TypeLists /\ TypeSvc /\ TypeApp
    BY TypeGroups
  <2>1. TypeBufs'
    BY <1>1, <2>0 DEF TypeBufs
  <2>2. TypeFlags'
    <3>1. PICK sel \in BOOLEAN : parent' = [parent EXCEPT ![c] = sel]
      BY DEF ExecOpen
    <3> QED BY <1>1, <2>0, <3>1 DEF TypeFlags, ExecOpen
  <2>3. TypeLists'
    BY <1>1, <1>a, <2>0 DEF TypeLists
  <2>4. TypeSvc'
    BY <1>1, <2>0 DEF TypeSvc
  <2>5. TypeApp'
    BY <1>1, <2>0 DEF TypeApp
  <2> QED BY <2>1, <2>2, <2>3, <2>4, <2>5, TypeNext
<1>3. SvcSound'
  BY <1>s
<1>4. CommandsSound'
  BY <1>a
<1>5. ConnsSound'
  BY <1>1, <1>c, <1>d, <1>i DEF ConnsSound, ConnSound
<1>6. AppSound'
  BY <1>1 DEF AppSound
<1>7. BoundsSound'
  BY <1>1 DEF BoundsSound, BoundSound, Waiting, Kept
<1>8. StreamParts'
  <2>1. ASSUME NEW d \in Conns, d # c PROVE Parts(d) => Parts(d)'
    <3>1. SameParts(d)
      BY <1>1, <1>c, <1>i, <2>1 DEF SameParts
    <3> QED BY <3>1, PartsStay
  <2>2. ASSUME c \in open PROVE Parts(c)'
    <3>1. /\ got'[c] = <<>> /\ InHand(c)' = <<>> /\ cache'[c] = <<>> /\ rxRing'[c] = <<>>
      BY <1>1, <1>d, <1>i, <2>2 DEF ConnsSound, ConnSound
    <3>2. sent'[c] \in Nat /\ backlog'[c] = Buffers(lives'[c], sent'[c])
      <4>1. sent'[c] = 0 /\ backlog'[c] = <<>>
        BY <1>1, <1>d, <2>2 DEF ConnsSound, ConnSound
      <4>2. Buffers(lives'[c], 0) = <<>>
        BY BuffersLong
      <4> QED BY <4>1, <4>2
    <3> QED BY <3>1, <3>2, PartsFresh
  <2> QED BY <1>1, <1>c, <2>1, <2>2, StreamStays
<1> QED BY <1>2, <1>3, <1>4, <1>5, <1>6, <1>7, <1>8

LEMMA StepExecSetRing ==
  ASSUME RxInv, NEW c \in Conns, ExecSetRing(c)
  PROVE  RxInv'
<1> USE DEF RxInv
<1>1. UNCHANGED <<rxRing, readReady, readyRing, datagram, queued, parent, level, open,
                  lives, cache, got, mask, ready, at, cur, held>>
  BY DEF ExecSetRing, Executes, shared, svcVars, appVars
<1>h. /\ Executes("SET_RING", c) /\ 1 \in DOMAIN commands /\ commands[1].op = "SET_RING"
      /\ commands[1].conn = c /\ DOMAIN commands \subseteq Nat \ {0}
  BY HeadOfCommands DEF ExecSetRing
<1>n. PICK n \in 0 .. MaxData : /\ sent' = [sent EXCEPT ![c] = n]
                                /\ backlog' = [backlog EXCEPT ![c] = Buffers(lives[c], n)]
  BY DEF ExecSetRing
<1>t. n \in Nat /\ Buffers(lives[c], n) \in Seq(Numbered)
  BY Sizes, TypedConn, BuffersLong
<1>c. /\ attached'[c] = TRUE /\ sent'[c] = n /\ backlog'[c] = Buffers(lives[c], n)
      /\ \A d \in Conns : d # c => /\ attached'[d] = attached[d] /\ sent'[d] = sent[d]
                                   /\ backlog'[d] = backlog[d]
  BY <1>n, TypeGroups DEF ExecSetRing, TypeFlags, TypeBufs
<1>a. CommandsSound' /\ commands' \in Seq(CommandRecs)
  <2>1. Done("SET_RING", c, attached, sent, attached', sent')
    BY <1>1, <1>c DEF Done, Attaches
  <2> QED BY <1>h, <2>1, CommandsStay
<1>d. ~attached[c]
  BY <1>h DEF CommandsSound, Orderly, Attaches
<1>s. SvcSound' /\ svc' \in SvcRecs
  <2>1. DataAvailable(c, 1) /\ 1 \in 0 .. 1
    BY DEF ExecSetRing
  <2> QED BY <1>1, <1>c, <2>1, SvcBegins
<1>i. \A d \in Conns : InHand(d)' = InHand(d) /\ (Flushing(d)' <=> Flushing(d))
  BY <1>1 DEF InHand, Flushing
<1>2. TypeOK'
  <2>0. TypeBufs /\ TypeFlags /\ TypeLists /\ TypeSvc /\ TypeApp
    BY TypeGroups
  <2>1. TypeBufs'
    BY <1>1, <1>n, <1>t, <2>0 DEF TypeBufs
  <2>2. TypeFlags'
    BY <1>1, <2>0 DEF TypeFlags, ExecSetRing
  <2>3. TypeLists'
    BY <1>1, <1>a, <2>0 DEF TypeLists
  <2>4. TypeSvc'
    BY <1>s DEF TypeSvc
  <2>5. TypeApp'
    BY <1>1, <2>0 DEF TypeApp
  <2> QED BY <2>1, <2>2, <2>3, <2>4, <2>5, TypeNext
<1>3. SvcSound'
  BY <1>s
<1>4. CommandsSound'
  BY <1>a
<1>5. ConnsSound'
  BY <1>1, <1>c, <1>d, <1>i DEF ConnsSound, ConnSound
<1>6. AppSound'
  BY <1>1 DEF AppSound
<1>7. BoundsSound'
  BY <1>1 DEF BoundsSound, BoundSound, Waiting, Kept
<1>8. StreamParts'
  <2>1. ASSUME NEW d \in Conns, d # c PROVE Parts(d) => Parts(d)'
    <3>1. SameParts(d)
      BY <1>1, <1>c, <1>i, <2>1 DEF SameParts
    <3> QED BY <3>1, PartsStay
  <2>2. ASSUME c \in open PROVE Parts(c)'
    <3>1. /\ got'[c] = <<>> /\ InHand(c)' = <<>> /\ cache'[c] = <<>> /\ rxRing'[c] = <<>>
      BY <1>1, <1>d, <1>i, <2>2 DEF ConnsSound, ConnSound
    <3>2. sent'[c] \in Nat /\ backlog'[c] = Buffers(lives'[c], sent'[c])
      BY <1>1, <1>c, <1>t
    <3> QED BY <3>1, <3>2, PartsFresh
  <2> QED BY <1>1, <1>c, <2>1, <2>2, StreamStays
<1> QED BY <1>2, <1>3, <1>4, <1>5, <1>6, <1>7, <1>8

LEMMA StepExecSelect ==
  ASSUME RxInv, NEW c \in Conns, ExecSelect(c)
  PROVE  RxInv'
<1> USE DEF RxInv
<1>1. UNCHANGED <<rxRing, readReady, readyRing, datagram, fin, backlog, sent, queued,
                  attached, level, open, lives, cache, got, mask, ready, at, cur, held>>
  BY DEF ExecSelect, Executes, shared, svcVars, appVars
<1>h. /\ Executes("SELECT", c) /\ 1 \in DOMAIN commands /\ commands[1].op = "SELECT"
      /\ commands[1].conn = c /\ DOMAIN commands \subseteq Nat \ {0}
  BY HeadOfCommands DEF ExecSelect
<1>a. CommandsSound' /\ commands' \in Seq(CommandRecs)
  <2>1. Done("SELECT", c, attached, sent, attached', sent')
    BY <1>1 DEF Done, Attaches
  <2> QED BY <1>h, <2>1, CommandsStay
<1>d. attached[c]
  <2>1. attached[c] \/ \E j \in DOMAIN commands : j < 1
    BY <1>h DEF CommandsSound, Orderly
  <2> QED BY <1>h, <2>1
<1>s. SvcSound' /\ svc' \in SvcRecs
  <2>1. DataAvailable(c, 1) /\ 1 \in 0 .. 1
    BY DEF ExecSelect
  <2> QED BY <1>1, <1>d, <2>1, SvcBegins
<1>2. TypeOK'
  <2>0. TypeBufs /\ TypeFlags /\ TypeLists /\ TypeSvc /\ TypeApp
    BY TypeGroups
  <2>1. TypeBufs'
    BY <1>1, <2>0 DEF TypeBufs
  <2>2. TypeFlags'
    BY <1>1, <2>0 DEF TypeFlags, ExecSelect
  <2>3. TypeLists'
    BY <1>1, <1>a, <2>0 DEF TypeLists
  <2>4. TypeSvc'
    BY <1>s DEF TypeSvc
  <2>5. TypeApp'
    BY <1>1, <2>0 DEF TypeApp
  <2> QED BY <2>1, <2>2, <2>3, <2>4, <2>5, TypeNext
<1>3. SvcSound'
  BY <1>s
<1>4. CommandsSound'
  BY <1>a
<1>5. ConnsSound'
  BY <1>1 DEF ConnsSound, ConnSound, InHand, Flushing
<1>6. AppSound'
  BY <1>1 DEF AppSound
<1>7. BoundsSound'
  BY <1>1 DEF BoundsSound, BoundSound, Waiting, Kept
<1>8. StreamParts'
  BY <1>1 DEF StreamParts, Parts, Got, Hand, Line, Lined, Pending, InHand
<1> QED BY <1>2, <1>3, <1>4, <1>5, <1>6, <1>7, <1>8

LEMMA StepExecRxKick ==
  ASSUME RxInv, NEW c \in Conns, ExecRxKick(c)
  PROVE  RxInv'
<1> USE DEF RxInv
<1>1. UNCHANGED <<rxRing, readReady, readyRing, datagram, fin, backlog, sent, queued, parent,
                  attached, level, open, lives, cache, got, mask, ready, at, cur, held>>
  BY DEF ExecRxKick, Executes, shared, svcVars, appVars
<1>h. /\ Executes("RXKICK", c) /\ 1 \in DOMAIN commands /\ commands[1].op = "RXKICK"
      /\ commands[1].conn = c /\ DOMAIN commands \subseteq Nat \ {0}
  BY HeadOfCommands DEF ExecRxKick
<1>a. CommandsSound' /\ commands' \in Seq(CommandRecs)
  <2>1. Done("RXKICK", c, attached, sent, attached', sent')
    BY <1>1 DEF Done, Attaches
  <2> QED BY <1>h, <2>1, CommandsStay
<1>s. SvcSound' /\ svc' \in SvcRecs
  <2>1. CASE attached[c]
    <3>1. DataAvailable(c, 0) /\ 0 \in 0 .. 1
      BY <2>1 DEF ExecRxKick
    <3> QED BY <1>1, <2>1, <3>1, SvcBegins
  <2>2. CASE ~attached[c]
    <3>1. svc' = Idle
      BY <1>h, <2>2 DEF ExecRxKick, Executes
    <3> QED BY <3>1, SvcRests
  <2> QED BY <2>1, <2>2
<1>2. TypeOK'
  <2>0. TypeBufs /\ TypeFlags /\ TypeLists /\ TypeSvc /\ TypeApp
    BY TypeGroups
  <2>1. TypeBufs'
    BY <1>1, <2>0 DEF TypeBufs
  <2>2. TypeFlags'
    BY <1>1, <2>0 DEF TypeFlags
  <2>3. TypeLists'
    BY <1>1, <1>a, <2>0 DEF TypeLists
  <2>4. TypeSvc'
    BY <1>s DEF TypeSvc
  <2>5. TypeApp'
    BY <1>1, <2>0 DEF TypeApp
  <2> QED BY <2>1, <2>2, <2>3, <2>4, <2>5, TypeNext
<1>3. SvcSound'
  BY <1>s
<1>4. CommandsSound'
  BY <1>a
<1>5. ConnsSound'
  BY <1>1 DEF ConnsSound, ConnSound, InHand, Flushing
<1>6. AppSound'
  BY <1>1 DEF AppSound
<1>7. BoundsSound'
  BY <1>1 DEF BoundsSound, BoundSound, Waiting, Kept
<1>8. StreamParts'
  BY <1>1 DEF StreamParts, Parts, Got, Hand, Line, Lined, Pending, InHand
<1> QED BY <1>2, <1>3, <1>4, <1>5, <1>6, <1>7, <1>8

LEMMA StepExecClose ==
  ASSUME RxInv, NEW c \in Conns, ExecClose(c)
  PROVE  RxInv'
<1> USE DEF RxInv
<1>1. UNCHANGED <<readReady, readyRing, datagram, fin, sent, svc, level, open, lives, cache,
                  got, mask, ready, at, cur, held>>
  BY DEF ExecClose, Executes, shared, svcVars, appVars
<1>h. /\ Executes("CLOSE", c) /\ 1 \in DOMAIN commands /\ commands[1].op = "CLOSE"
      /\ commands[1].conn = c /\ DOMAIN commands \subseteq Nat \ {0}
  BY HeadOfCommands DEF ExecClose
<1>c. /\ attached'[c] = FALSE /\ queued'[c] = FALSE /\ backlog'[c] = <<>> /\ rxRing'[c] = <<>>
      /\ \A d \in Conns : d # c => /\ attached'[d] = attached[d] /\ queued'[d] = queued[d]
                                   /\ backlog'[d] = backlog[d] /\ rxRing'[d] = rxRing[d]
  BY TypeGroups DEF ExecClose, TypeFlags, TypeBufs
<1>a. CommandsSound' /\ commands' \in Seq(CommandRecs)
  <2>1. Done("CLOSE", c, attached, sent, attached', sent')
    BY <1>1, <1>c DEF Done
  <2> QED BY <1>h, <2>1, CommandsStay
<1>d. c \notin open
  BY <1>h DEF CommandsSound, Orderly
<1>s. SvcSound'
  <2>1. svc' = Idle
    BY <1>1, <1>h DEF Executes
  <2> QED BY <2>1, SvcRests
<1>i. \A d \in Conns : InHand(d)' = InHand(d) /\ (Flushing(d)' <=> Flushing(d))
  BY <1>1 DEF InHand, Flushing
<1>2. TypeOK'
  <2>0. TypeBufs /\ TypeFlags /\ TypeLists /\ TypeSvc /\ TypeApp
    BY TypeGroups
  <2>1. TypeBufs'
    <3>1. <<>> \in Seq(Numbered) /\ <<>> \in Seq(Seq(Numbered))
      OBVIOUS
    <3> QED BY <1>1, <2>0, <3>1 DEF TypeBufs, ExecClose
  <2>2. TypeFlags'
    BY <1>1, <2>0 DEF TypeFlags, ExecClose
  <2>3. TypeLists'
    BY <1>1, <1>a, <2>0 DEF TypeLists
  <2>4. TypeSvc'
    BY <1>1, <2>0 DEF TypeSvc
  <2>5. TypeApp'
    BY <1>1, <2>0 DEF TypeApp
  <2> QED BY <2>1, <2>2, <2>3, <2>4, <2>5, TypeNext
<1>3. SvcSound'
  BY <1>s
<1>4. CommandsSound'
  BY <1>a
<1>5. ConnsSound'
  BY <1>1, <1>c, <1>d, <1>i DEF ConnsSound, ConnSound
<1>6. AppSound'
  BY <1>1 DEF AppSound
<1>7. BoundsSound'
  <2>1. \A d \in Conns : d # c => BoundSound(d)'
    BY <1>1, <1>c, BoundStays DEF BoundsSound
  <2>2. BoundSound(c)'
    <3>1. Waiting(c)' = 0 /\ Single(rxRing'[c])
      BY <1>c, EmptyWaits DEF Waiting
    <3>2. Kept(c)' = Kept(c) /\ Kept(c) < CacheSize
      BY <1>1 DEF Kept, BoundsSound, BoundSound
    <3> QED BY <3>1, <3>2, Sizes DEF BoundSound
  <2> QED BY <2>1, <2>2 DEF BoundsSound
<1>8. StreamParts'
  <2>1. ASSUME NEW d \in Conns, d # c PROVE Parts(d) => Parts(d)'
    <3>1. SameParts(d)
      BY <1>1, <1>c, <1>i, <2>1 DEF SameParts
    <3> QED BY <3>1, PartsStay
  <2> QED BY <1>1, <1>c, <1>d, <2>1, StreamStays
<1> QED BY <1>2, <1>3, <1>4, <1>5, <1>6, <1>7, <1>8

LEMMA StepSockReadable ==
  ASSUME RxInv, NEW c \in Conns, SockReadable(c)
  PROVE  RxInv'
<1> USE DEF RxInv
<1>1. UNCHANGED <<rxRing, readReady, commands, readyRing, datagram, parent, attached,
                  svc, level, open, lives, cache, got, mask, ready, at, cur, held>>
  BY DEF SockReadable, shared, svcVars, appVars
<1>n. PICK n \in Nat : n = sent[c] /\ n + 1 \in Nat /\ n + 1 <= MaxData
  BY TypedConn, Sizes DEF SockReadable
<1>x. <<lives[c], n + 1>> \in Numbered
  BY <1>n, TypedConn, Sizes DEF Numbered
<1>c. /\ sent'[c] = n + 1 /\ backlog'[c] = Append(backlog[c], <<lives[c], n + 1>>)
      /\ attached[c]
      /\ \A d \in Conns : d # c => /\ sent'[d] = sent[d] /\ queued'[d] = queued[d]
                                   /\ backlog'[d] = backlog[d]
  BY <1>n, TypeGroups DEF SockReadable, TypeBufs, TypeFlags
<1>i. \A d \in Conns : InHand(d)' = InHand(d) /\ (Flushing(d)' <=> Flushing(d))
  BY <1>1 DEF InHand, Flushing
<1>2. TypeOK'
  <2>0. TypeBufs /\ TypeFlags /\ TypeLists /\ TypeSvc /\ TypeApp
    BY TypeGroups
  <2>1. TypeBufs'
    <3>1. n + 1 \in 0 .. MaxData /\ Append(backlog[c], <<lives[c], n + 1>>) \in Seq(Numbered)
      BY <1>n, <1>x, TypedConn, Added
    <3>2. /\ sent' = [sent EXCEPT ![c] = n + 1]
          /\ backlog' = [backlog EXCEPT ![c] = Append(backlog[c], <<lives[c], n + 1>>)]
      BY <1>n DEF SockReadable
    <3> QED BY <1>1, <2>0, <3>1, <3>2 DEF TypeBufs
  <2>2. TypeFlags'
    <3>1. \/ queued' = [queued EXCEPT ![c] = TRUE] /\ fin' = fin
          \/ fin' = [fin EXCEPT ![c] = "data"] /\ queued' = queued
      BY DEF SockReadable
    <3> QED BY <1>1, <2>0, <3>1 DEF TypeFlags
  <2>3. TypeLists'
    BY <1>1, <2>0 DEF TypeLists
  <2>4. TypeSvc'
    BY <1>1, <2>0 DEF TypeSvc
  <2>5. TypeApp'
    BY <1>1, <2>0 DEF TypeApp
  <2> QED BY <2>1, <2>2, <2>3, <2>4, <2>5, TypeNext
<1>3. SvcSound'
  BY <1>1 DEF SvcSound, Waiting
<1>4. CommandsSound'
  <2>1. \A i \in DOMAIN commands : ~attached[commands[i].conn] =>
          sent'[commands[i].conn] = sent[commands[i].conn]
    BY <1>c, TypeGroups, CommandConns DEF TypeLists
  <2>2. Orderly(commands, attached, sent', open)
    BY <2>1, OrderlySame DEF CommandsSound
  <2> QED BY <1>1, <2>2 DEF CommandsSound
<1>5. ConnsSound'
  BY <1>1, <1>c, <1>i DEF ConnsSound, ConnSound
<1>6. AppSound'
  BY <1>1 DEF AppSound
<1>7. BoundsSound'
  BY <1>1 DEF BoundsSound, BoundSound, Waiting, Kept
<1>8. StreamParts'
  <2>1. ASSUME NEW d \in Conns, d # c PROVE Parts(d) => Parts(d)'
    <3>1. SameParts(d)
      BY <1>1, <1>c, <1>i, <2>1 DEF SameParts
    <3> QED BY <3>1, PartsStay
  <2>2. ASSUME c \in open PROVE Parts(c)'
    <3>1. PICK lg \in Nat, lh \in Nat, ls \in Nat, lr \in Nat :
            /\ Long(got[c], lg) /\ Long(InHand(c), lh) /\ Long(Line(c), ls)
            /\ Long(backlog[c], lr) /\ \E b : PartsOf(c, lg, lh, ls, lr, b)
      BY <1>c, <2>2, PartsAt
    <3>2. PICK b : Cut(got[c], lg, InHand(c), lh, Line(c), ls, backlog[c], lr, b, lives[c], n)
      BY <1>n, <3>1 DEF PartsOf
    <3>3. PICK lr2 \in Nat : /\ Long(backlog'[c], lr2)
                             /\ Longer(backlog[c], lr, <<lives[c], n + 1>>, backlog'[c], lr2)
      BY <1>c, <1>x, <3>1, TypedConn, Added DEF Long
    <3>4. Cut(got[c], lg, InHand(c), lh, Line(c), ls, backlog'[c], lr2, b, lives[c], n + 1)
      BY <1>n, <3>2, <3>3, CutArrives
    <3>5. got'[c] = got[c] /\ InHand(c)' = InHand(c) /\ Line(c)' = Line(c) /\ lives'[c] = lives[c]
      BY <1>1, <1>i DEF Line
    <3> QED BY <1>c, <3>1, <3>3, <3>4, <3>5, PartsMade
  <2> QED BY <1>1, <1>c, <2>1, <2>2, StreamStays
<1> QED BY <1>2, <1>3, <1>4, <1>5, <1>6, <1>7, <1>8

LEMMA StepPeerFin ==
  ASSUME RxInv, NEW c \in Conns, PeerFin(c)
  PROVE  RxInv'
<1> USE DEF RxInv
<1>1. UNCHANGED <<rxRing, readReady, commands, readyRing, datagram, backlog, sent, queued, parent,
                  attached, svc, level, open, lives, cache, got, mask, ready, at, cur, held>>
  BY DEF PeerFin, shared, appVars
<1>2. TypeOK'
  <2>0. TypeBufs /\ TypeFlags /\ TypeLists /\ TypeSvc /\ TypeApp
    BY TypeGroups
  <2>1. TypeBufs' /\ TypeLists'
    BY <1>1, <2>0 DEF TypeBufs, TypeLists
  <2>2. TypeFlags'
    BY <1>1, <2>0 DEF TypeFlags, PeerFin
  <2>3. TypeSvc' /\ TypeApp'
    BY <1>1, <2>0 DEF TypeSvc, TypeApp
  <2> QED BY <2>1, <2>2, <2>3, TypeNext
<1>3. SvcSound' /\ CommandsSound' /\ AppSound'
  BY <1>1 DEF SvcSound, Waiting, CommandsSound, AppSound
<1>4. ConnsSound'
  BY <1>1 DEF ConnsSound, ConnSound, InHand, Flushing
<1>5. BoundsSound'
  BY <1>1 DEF BoundsSound, BoundSound, Waiting, Kept
<1>6. StreamParts'
  BY <1>1 DEF StreamParts, Parts, Got, Hand, Line, Lined, Pending, InHand
<1> QED BY <1>2, <1>3, <1>4, <1>5, <1>6

LEMMA StepProcessRxReady ==
  ASSUME RxInv, NEW c \in Conns, ProcessRxReady(c)
  PROVE  RxInv'
<1> USE DEF RxInv
<1>1. UNCHANGED <<rxRing, readReady, commands, readyRing, datagram, fin, backlog, sent,
                  parent, attached, level, open, lives, cache, got, mask, ready, at,
                  cur, held>>
  BY DEF ProcessRxReady, shared, svcVars, appVars
<1>c. queued'[c] = FALSE /\ \A d \in Conns : d # c => queued'[d] = queued[d]
  BY TypeGroups DEF ProcessRxReady, TypeFlags
<1>d. attached[c]
  BY DEF ProcessRxReady, ConnsSound, ConnSound
<1>s. SvcSound' /\ svc' \in SvcRecs
  <2>1. DataAvailable(c, 0) /\ 0 \in 0 .. 1
    BY DEF ProcessRxReady
  <2> QED BY <1>1, <1>d, <2>1, SvcBegins
<1>2. TypeOK'
  <2>0. TypeBufs /\ TypeFlags /\ TypeLists /\ TypeSvc /\ TypeApp
    BY TypeGroups
  <2>1. TypeBufs'
    BY <1>1, <2>0 DEF TypeBufs
  <2>2. TypeFlags'
    BY <1>1, <2>0 DEF TypeFlags, ProcessRxReady
  <2>3. TypeLists'
    BY <1>1, <2>0 DEF TypeLists
  <2>4. TypeSvc'
    BY <1>s DEF TypeSvc
  <2>5. TypeApp'
    BY <1>1, <2>0 DEF TypeApp
  <2> QED BY <2>1, <2>2, <2>3, <2>4, <2>5, TypeNext
<1>3. SvcSound'
  BY <1>s
<1>4. CommandsSound'
  BY <1>1 DEF CommandsSound
<1>5. ConnsSound'
  BY <1>1, <1>c, <1>d DEF ConnsSound, ConnSound, InHand, Flushing
<1>6. AppSound'
  BY <1>1 DEF AppSound
<1>7. BoundsSound'
  BY <1>1 DEF BoundsSound, BoundSound, Waiting, Kept
<1>8. StreamParts'
  BY <1>1 DEF StreamParts, Parts, Got, Hand, Line, Lined, Pending, InHand
<1> QED BY <1>2, <1>3, <1>4, <1>5, <1>6, <1>7, <1>8

LEMMA StepSubmitRxBuf ==
  ASSUME RxInv, SubmitRxBuf
  PROVE  RxInv'
<1> USE DEF RxInv
<1>1. UNCHANGED <<readReady, commands, readyRing, datagram, fin, sent, parent, attached,
                  level, open, lives, cache, got, mask, ready, at, cur, held>>
  BY DEF SubmitRxBuf, shared, svcVars, appVars
<1>a. PICK c \in Conns : /\ c = svc.conn /\ attached[c] /\ backlog[c] # <<>>
                         /\ Waiting(c) + svc.free < RxRingSize /\ svc.free > 0
  BY DEF SubmitRxBuf, SvcSound
<1>l. PICK l \in Nat : Long(backlog[c], l)
  BY TypedConn, LenProperties DEF Long
<1>x. PICK k \in Nat, m \in Nat, x \in Seq(Numbered), r \in Seq(Numbered) :
        /\ x = Recvmsg(c) /\ r = SubSeq(backlog[c], Len(Recvmsg(c)) + 1, Len(backlog[c]))
        /\ Long(x, k) /\ Long(r, m) /\ Splits(backlog[c], l, x, k, r, m)
        /\ c \in datagram => k = 1
  BY <1>a, <1>l, RecvmsgSplits
<1>e. /\ backlog' = [backlog EXCEPT ![c] = r]
      /\ rxRing' = [rxRing EXCEPT ![c] = Append(rxRing[c], x)]
  BY <1>a, <1>x DEF SubmitRxBuf
<1>q. PICK again \in BOOLEAN : queued' = [queued EXCEPT ![c] = queued[c] \/ again]
  BY <1>a DEF SubmitRxBuf
<1>c. /\ backlog'[c] = r /\ rxRing'[c] = Append(rxRing[c], x)
      /\ \A d \in Conns : d # c => /\ backlog'[d] = backlog[d] /\ rxRing'[d] = rxRing[d]
                                   /\ queued'[d] = queued[d]
  BY <1>e, <1>q, TypeGroups DEF TypeBufs, TypeFlags
<1>y. PICK rx \in Seq(Seq(Numbered)) : rx = rxRing[c]
  BY TypedConn
<1>w. Waiting(c)' = Waiting(c) + 1
  <2>1. Len(Append(rx, x)) = Len(rx) + 1
    BY AppendProperties
  <2>2. Waiting(c)' = Len(Append(rx, x)) /\ Waiting(c) = Len(rx)
    BY <1>c, <1>y DEF Waiting
  <2> QED BY <2>1, <2>2
<1>f. PICK f \in 0 .. RxRingSize - 1 : f = svc.free - 1
  BY <1>a, TypedSvc, Sizes
<1>s. SvcSound' /\ svc' \in SvcRecs
  <2>1. svc \in SvcRecs
    BY TypedSvc
  <2>2. svc' = [svc EXCEPT !.step = "mark", !.free = f]
    BY <1>f DEF SubmitRxBuf
  <2>3. svc' \in SvcRecs /\ svc'.conn = svc.conn /\ svc'.free = f
    BY <2>1, <2>2 DEF SvcRecs
  <2>4. PICK n \in Nat : n = Waiting(c) /\ n + svc.free < RxRingSize
    BY <1>a, Lengths
  <2>5. (n + 1) + f < RxRingSize
    BY <1>f, <2>4, TypedSvc, Sizes
  <2>6. Waiting(svc.conn)' = n + 1
    <3>1. Waiting(svc.conn)' = Waiting(c)'
      BY <1>a, <2>3 DEF Waiting
    <3> QED BY <1>w, <2>4, <3>1
  <2> QED BY <1>1, <1>a, <2>3, <2>5, <2>6 DEF SvcSound
<1>i. \A d \in Conns : InHand(d)' = InHand(d) /\ (Flushing(d)' <=> Flushing(d))
  BY <1>1 DEF InHand, Flushing
<1>2. TypeOK'
  <2>0. TypeBufs /\ TypeFlags /\ TypeLists /\ TypeSvc /\ TypeApp
    BY TypeGroups
  <2>1. TypeBufs'
    <3>1. Append(rxRing[c], x) \in Seq(Seq(Numbered))
      BY <1>y, AppendProperties
    <3> QED BY <1>1, <1>e, <2>0, <3>1 DEF TypeBufs
  <2>2. TypeFlags'
    <3>1. (queued[c] \/ again) \in BOOLEAN
      OBVIOUS
    <3> QED BY <1>1, <1>q, <2>0, <3>1 DEF TypeFlags
  <2>3. TypeLists'
    BY <1>1, <2>0 DEF TypeLists
  <2>4. TypeSvc'
    BY <1>s DEF TypeSvc
  <2>5. TypeApp'
    BY <1>1, <2>0 DEF TypeApp
  <2> QED BY <2>1, <2>2, <2>3, <2>4, <2>5, TypeNext
<1>3. SvcSound'
  BY <1>s
<1>4. CommandsSound'
  BY <1>1 DEF CommandsSound
<1>5. ConnsSound'
  BY <1>1, <1>a, <1>c, <1>i DEF ConnsSound, ConnSound
<1>6. AppSound'
  BY <1>1 DEF AppSound
<1>7. BoundsSound'
  <2>1. \A d \in Conns : d # c => BoundSound(d)'
    BY <1>1, <1>c, BoundStays DEF BoundsSound
  <2>2. BoundSound(c)'
    <3>1. Waiting(c) + 1 < RxRingSize
      <4>1. PICK n \in Nat : n = Waiting(c) /\ n + svc.free < RxRingSize
        BY <1>a, Lengths
      <4>2. n + 1 < RxRingSize
        BY <1>a, <4>1, TypedSvc, Sizes
      <4> QED BY <4>1, <4>2
    <3>2. Kept(c)' = Kept(c) /\ Kept(c) < CacheSize
      BY <1>1 DEF Kept, BoundsSound, BoundSound
    <3>3. ASSUME c \in datagram PROVE Single(rxRing'[c])
      <4>1. PICK n \in Nat : n = Len(rx)
        BY LenProperties
      <4>2. /\ DOMAIN rx = 1 .. n /\ DOMAIN Append(rx, x) = 1 .. n + 1
            /\ Append(rx, x)[n + 1] = x /\ \A i \in 1 .. n : Append(rx, x)[i] = rx[i]
        BY <4>1, AppendProperties, LenProperties
      <4>3. Len(x) = 1 /\ Single(rx)
        BY <1>x, <1>y, <3>3 DEF Long, BoundsSound, BoundSound
      <4>4. \A i \in 1 .. n + 1 : i \in 1 .. n \/ i = n + 1
        BY <4>1
      <4>5. Single(Append(rx, x))
        BY <4>2, <4>3, <4>4 DEF Single
      <4> QED BY <1>c, <1>y, <4>5
    <3> QED BY <1>1, <1>w, <3>1, <3>2, <3>3 DEF BoundSound
  <2> QED BY <2>1, <2>2 DEF BoundsSound
<1>8. StreamParts'
  <2>1. ASSUME NEW d \in Conns, d # c PROVE Parts(d) => Parts(d)'
    <3>1. SameParts(d)
      BY <1>1, <1>c, <1>i, <2>1 DEF SameParts
    <3> QED BY <3>1, PartsStay
  <2>2. ASSUME c \in open PROVE Parts(c)'
    <3>1. PICK lg \in Nat, lh \in Nat, ls \in Nat, lr \in Nat :
            /\ Long(got[c], lg) /\ Long(InHand(c), lh) /\ Long(Line(c), ls)
            /\ Long(backlog[c], lr) /\ \E b : PartsOf(c, lg, lh, ls, lr, b)
      BY <1>a, <2>2, PartsAt
    <3>0. PICK n \in Nat : n = sent[c]
      BY TypedConn
    <3>2. PICK b : Cut(got[c], lg, InHand(c), lh, Line(c), ls, backlog[c], lr, b, lives[c], n)
      BY <3>0, <3>1 DEF PartsOf
    <3>3. Line(c)' = Append(Line(c), x) /\ Line(c) \in Seq(Seq(Numbered))
      <4>1. PICK ca \in Seq(Seq(Numbered)) : ca = cache[c]
        BY TypedConn
      <4>2. ca \o Append(rx, x) = Append(ca \o rx, x) /\ ca \o rx \in Seq(Seq(Numbered))
        BY LineGrows, Joined
      <4>3. Line(c)' = ca \o Append(rx, x) /\ Line(c) = ca \o rx
        BY <1>1, <1>c, <1>y, <4>1 DEF Line
      <4> QED BY <4>2, <4>3
    <3>4. PICK ls2 \in Nat : Long(Line(c)', ls2) /\ Longer(Line(c), ls, x, Line(c)', ls2)
      BY <3>1, <3>3, Added DEF Long
    <3>5. lr = l
      BY <1>l, <3>1 DEF Long
    <3>6. PICK b2 : Cut(got[c], lg, InHand(c), lh, Line(c)', ls2, r, m, b2, lives[c], n)
      BY <1>x, <3>2, <3>4, <3>5, CutSubmits
    <3>7. /\ got'[c] = got[c] /\ InHand(c)' = InHand(c) /\ lives'[c] = lives[c]
          /\ n = sent'[c]
      BY <1>1, <1>i, <3>0
    <3>8. Cut(got'[c], lg, InHand(c)', lh, Line(c)', ls2, backlog'[c], m, b2, lives'[c],
              sent'[c])
      BY <1>c, <3>6, <3>7, Zenon
    <3>9. /\ Long(got'[c], lg) /\ Long(InHand(c)', lh) /\ Long(Line(c)', ls2)
          /\ Long(backlog'[c], m)
      BY <1>c, <1>x, <3>1, <3>4, <3>7, Zenon
    <3> QED BY <3>8, <3>9, PartsMade, Zenon
  <2> QED BY <1>1, <1>c, <1>a, <2>1, <2>2, StreamStays
<1> QED BY <1>2, <1>3, <1>4, <1>5, <1>6, <1>7, <1>8

LEMMA StepLoopEnds ==
  ASSUME RxInv, LoopEnds
  PROVE  RxInv'
<1> USE DEF RxInv
<1>1. UNCHANGED <<rxRing, readReady, commands, readyRing, datagram, fin, backlog, sent,
                  queued, parent, attached, level, open, lives, cache, got, mask, ready,
                  at, cur, held>>
  BY DEF LoopEnds, shared, svcVars, appVars
<1>s. SvcSound' /\ svc' \in SvcRecs
  <2>1. svc \in SvcRecs /\ svc.final \in 0 .. 1 /\ svc.step # "idle"
    BY TypedSvc DEF LoopEnds
  <2>2. PICK m \in 0 .. 2 : m = svc.final + (IF svc.free = 0 THEN 1 ELSE 0)
    BY <2>1
  <2>3. svc' = Idle \/ svc' = [svc EXCEPT !.step = "mark", !.marks = m]
    BY <2>2 DEF LoopEnds
  <2>4. CASE svc' = [svc EXCEPT !.step = "mark", !.marks = m]
    <3>1. svc' \in SvcRecs /\ svc'.conn = svc.conn /\ svc'.free = svc.free
      BY <2>1, <2>4 DEF SvcRecs
    <3> QED BY <1>1, <2>1, <3>1, SvcGoes
  <2> QED BY <2>3, <2>4, SvcRests
<1>2. TypeOK'
  <2>0. TypeBufs /\ TypeFlags /\ TypeLists /\ TypeSvc /\ TypeApp
    BY TypeGroups
  <2>1. TypeBufs'
    BY <1>1, <2>0 DEF TypeBufs
  <2>2. TypeFlags'
    BY <1>1, <2>0 DEF TypeFlags
  <2>3. TypeLists'
    BY <1>1, <2>0 DEF TypeLists
  <2>4. TypeSvc'
    BY <1>s DEF TypeSvc
  <2>5. TypeApp'
    BY <1>1, <2>0 DEF TypeApp
  <2> QED BY <2>1, <2>2, <2>3, <2>4, <2>5, TypeNext
<1>3. SvcSound'
  BY <1>s
<1>4. CommandsSound'
  BY <1>1 DEF CommandsSound
<1>5. ConnsSound'
  BY <1>1 DEF ConnsSound, ConnSound, InHand, Flushing
<1>6. AppSound'
  BY <1>1 DEF AppSound
<1>7. BoundsSound'
  BY <1>1 DEF BoundsSound, BoundSound, Waiting, Kept
<1>8. StreamParts'
  BY <1>1 DEF StreamParts, Parts, Got, Hand, Line, Lined, Pending, InHand
<1> QED BY <1>2, <1>3, <1>4, <1>5, <1>6, <1>7, <1>8

LEMMA StepMarkReadable ==
  ASSUME RxInv, MarkReadable
  PROVE  RxInv'
<1> USE DEF RxInv
<1>1. UNCHANGED <<rxRing, commands, readyRing, datagram, fin, backlog, sent, queued, parent,
                  attached, level, open, lives, cache, got, mask, ready, cur, held>>
  BY DEF MarkReadable, shared, svcVars, appVars, WakeUp
<1>b. at' \in {at, "select"} /\ (at' # at => at = "sleep")
  BY DEF MarkReadable, WakeUp, appVars
<1>c. \A d \in Conns : InHand(d)' = InHand(d) /\ (Flushing(d)' <=> Flushing(d))
  BY <1>1, <1>b DEF InHand, Flushing
<1>d. svc.step # "idle"
  BY DEF MarkReadable
<1>s. SvcSound' /\ svc' \in SvcRecs
  <2>1. CASE svc' = AfterMark
    BY <1>1, <1>d, <2>1, SvcMarked
  <2>2. CASE svc' = [svc EXCEPT !.step = "post"]
    <3>1. svc \in SvcRecs
      BY TypedSvc
    <3>2. svc' \in SvcRecs /\ svc'.conn = svc.conn /\ svc'.free = svc.free
      BY <2>2, <3>1 DEF SvcRecs
    <3> QED BY <1>1, <1>d, <3>2, SvcGoes
  <2> QED BY <2>1, <2>2 DEF MarkReadable
<1>2. TypeOK'
  <2>0. TypeBufs /\ TypeFlags /\ TypeLists /\ TypeSvc /\ TypeApp
    BY TypeGroups
  <2>1. TypeBufs'
    BY <1>1, <2>0 DEF TypeBufs
  <2>2. TypeFlags'
    <3>1. readReady' = readReady \/ readReady' = [readReady EXCEPT ![svc.conn] = TRUE]
      BY DEF MarkReadable
    <3> QED BY <1>1, <2>0, <3>1 DEF TypeFlags
  <2>3. TypeLists'
    BY <1>1, <2>0 DEF TypeLists
  <2>4. TypeSvc'
    BY <1>s DEF TypeSvc
  <2>5. TypeApp'
    BY <1>1, <1>b, <2>0 DEF TypeApp
  <2> QED BY <2>1, <2>2, <2>3, <2>4, <2>5, TypeNext
<1>3. SvcSound'
  BY <1>s
<1>4. CommandsSound'
  BY <1>1 DEF CommandsSound
<1>5. ConnsSound'
  BY <1>1, <1>c DEF ConnsSound, ConnSound
<1>6. AppSound'
  BY <1>1, <1>b DEF AppSound
<1>7. BoundsSound'
  BY <1>1 DEF BoundsSound, BoundSound, Waiting, Kept
<1>8. StreamParts'
  BY <1>1 DEF StreamParts, Parts, Got, Hand, Line, Lined, Pending, InHand
<1> QED BY <1>2, <1>3, <1>4, <1>5, <1>6, <1>7, <1>8

LEMMA StepPostReadable ==
  ASSUME RxInv, PostReadable
  PROVE  RxInv'
<1> USE DEF RxInv
<1>1. UNCHANGED <<rxRing, readReady, commands, datagram, fin, backlog, sent, queued, parent,
                  attached, level, open, lives, cache, got, mask, ready, cur, held>>
  BY DEF PostReadable, shared, svcVars, appVars, WakeUp
<1>b. at' \in {at, "select"} /\ (at' # at => at = "sleep")
  BY DEF PostReadable, WakeUp
<1>c. \A d \in Conns : InHand(d)' = InHand(d) /\ (Flushing(d)' <=> Flushing(d))
  BY <1>1, <1>b DEF InHand, Flushing
<1>d. svc.step # "idle"
  BY DEF PostReadable
<1>s. SvcSound' /\ svc' \in SvcRecs
  BY <1>1, <1>d, SvcMarked DEF PostReadable
<1>2. TypeOK'
  <2>0. TypeBufs /\ TypeFlags /\ TypeLists /\ TypeSvc /\ TypeApp
    BY TypeGroups
  <2>1. TypeBufs'
    BY <1>1, <2>0 DEF TypeBufs
  <2>2. TypeFlags'
    BY <1>1, <2>0 DEF TypeFlags
  <2>3. TypeLists'
    <3>1. svc.conn \in Conns
      BY <1>d DEF SvcSound
    <3> QED BY <1>1, <2>0, <3>1 DEF TypeLists, PostReadable
  <2>4. TypeSvc'
    BY <1>s DEF TypeSvc
  <2>5. TypeApp'
    BY <1>1, <1>b, <2>0 DEF TypeApp
  <2> QED BY <2>1, <2>2, <2>3, <2>4, <2>5, TypeNext
<1>3. SvcSound'
  BY <1>s
<1>4. CommandsSound'
  BY <1>1 DEF CommandsSound
<1>5. ConnsSound'
  BY <1>1, <1>c DEF ConnsSound, ConnSound
<1>6. AppSound'
  BY <1>1, <1>b DEF AppSound
<1>7. BoundsSound'
  BY <1>1 DEF BoundsSound, BoundSound, Waiting, Kept
<1>8. StreamParts'
  BY <1>1 DEF StreamParts, Parts, Got, Hand, Line, Lined, Pending, InHand
<1> QED BY <1>2, <1>3, <1>4, <1>5, <1>6, <1>7, <1>8

LEMMA StepSelectCached ==
  ASSUME RxInv, SelectCached
  PROVE  RxInv'
<1> USE DEF RxInv
<1>1. UNCHANGED <<rxRing, readReady, commands, readyRing, datagram, fin, backlog, sent,
                  queued, parent, attached, svc, level, open, lives, cache, got, mask,
                  cur, held>>
  BY DEF SelectCached, shared, svcVars, appVars
<1>b. /\ at \in {"select", "presleep", "sleep"} /\ at' \in {"select", "presleep", "sleep", "run"}
      /\ \A d \in Conns : InHand(d)' = InHand(d) /\ ~Flushing(d)
  BY <1>1 DEF SelectCached, InHand, Flushing
<1>2. TypeOK'
  <2>0. TypeBufs /\ TypeFlags /\ TypeLists /\ TypeSvc /\ TypeApp
    BY TypeGroups
  <2>1. TypeBufs'
    BY <1>1, <2>0 DEF TypeBufs
  <2>2. TypeFlags'
    BY <1>1, <2>0 DEF TypeFlags
  <2>3. TypeLists'
    BY <1>1, <2>0 DEF TypeLists
  <2>4. TypeSvc'
    BY <1>1, <2>0 DEF TypeSvc
  <2>5. TypeApp'
    BY <1>1, <2>0 DEF TypeApp, SelectCached
  <2> QED BY <2>1, <2>2, <2>3, <2>4, <2>5, TypeNext
<1>3. SvcSound'
  BY <1>1 DEF SvcSound, Waiting
<1>4. CommandsSound'
  BY <1>1 DEF CommandsSound
<1>5. ConnsSound'
  BY <1>1, <1>b DEF ConnsSound, ConnSound, SelectCached
<1>6. AppSound'
  BY <1>1, <1>b DEF AppSound
<1>7. BoundsSound'
  BY <1>1 DEF BoundsSound, BoundSound, Waiting, Kept
<1>8. StreamParts'
  BY <1>1 DEF StreamParts, Parts, Got, Hand, Line, Lined, Pending, InHand
<1> QED BY <1>2, <1>3, <1>4, <1>5, <1>6, <1>7, <1>8

LEMMA StepSelectDequeue ==
  ASSUME RxInv, SelectDequeue
  PROVE  RxInv'
<1> USE DEF RxInv
<1>1. UNCHANGED <<rxRing, readReady, commands, datagram, fin, backlog, sent, queued, parent,
                  attached, svc, level, open, lives, cache, got, cur, held>>
  BY DEF SelectDequeue, shared, svcVars, appVars
<1>b. /\ at \in {"select", "presleep", "sleep"} /\ at' \in {"select", "presleep", "sleep", "run"}
      /\ \A d \in Conns : InHand(d)' = InHand(d) /\ ~Flushing(d)
  BY <1>1 DEF SelectDequeue, InHand, Flushing
<1>2. TypeOK'
  <2>0. TypeBufs /\ TypeFlags /\ TypeLists /\ TypeSvc /\ TypeApp
    BY TypeGroups
  <2>1. TypeBufs'
    BY <1>1, <2>0 DEF TypeBufs
  <2>2. TypeFlags'
    BY <1>1, <2>0 DEF TypeFlags
  <2>3. TypeLists'
    <3>1. <<>> \in Seq(Conns)
      OBVIOUS
    <3> QED BY <1>1, <2>0, <3>1 DEF TypeLists, SelectDequeue
  <2>4. TypeSvc'
    BY <1>1, <2>0 DEF TypeSvc
  <2>5. TypeApp'
    BY <1>1, <2>0 DEF TypeApp, SelectDequeue
  <2> QED BY <2>1, <2>2, <2>3, <2>4, <2>5, TypeNext
<1>3. SvcSound'
  BY <1>1 DEF SvcSound, Waiting
<1>4. CommandsSound'
  BY <1>1 DEF CommandsSound
<1>5. ConnsSound'
  BY <1>1, <1>b DEF ConnsSound, ConnSound, SelectDequeue
<1>6. AppSound'
  BY <1>1, <1>b DEF AppSound
<1>7. BoundsSound'
  BY <1>1 DEF BoundsSound, BoundSound, Waiting, Kept
<1>8. StreamParts'
  BY <1>1 DEF StreamParts, Parts, Got, Hand, Line, Lined, Pending, InHand
<1> QED BY <1>2, <1>3, <1>4, <1>5, <1>6, <1>7, <1>8

LEMMA StepSelectEmpty ==
  ASSUME RxInv, SelectEmpty
  PROVE  RxInv'
<1> USE DEF RxInv
<1>1. UNCHANGED <<rxRing, readReady, commands, readyRing, datagram, fin, backlog, sent,
                  queued, parent, attached, svc, level, open, lives, cache, got, mask,
                  ready, cur, held>>
  BY DEF SelectEmpty, shared, svcVars, appVars
<1>b. /\ at \in {"select", "presleep", "sleep"} /\ at' \in {"select", "presleep", "sleep", "run"}
      /\ \A d \in Conns : InHand(d)' = InHand(d) /\ ~Flushing(d)
  BY <1>1 DEF SelectEmpty, InHand, Flushing
<1>2. TypeOK'
  <2>0. TypeBufs /\ TypeFlags /\ TypeLists /\ TypeSvc /\ TypeApp
    BY TypeGroups
  <2>1. TypeBufs'
    BY <1>1, <2>0 DEF TypeBufs
  <2>2. TypeFlags'
    BY <1>1, <2>0 DEF TypeFlags
  <2>3. TypeLists'
    BY <1>1, <2>0 DEF TypeLists
  <2>4. TypeSvc'
    BY <1>1, <2>0 DEF TypeSvc
  <2>5. TypeApp'
    BY <1>1, <2>0 DEF TypeApp, SelectEmpty
  <2> QED BY <2>1, <2>2, <2>3, <2>4, <2>5, TypeNext
<1>3. SvcSound'
  BY <1>1 DEF SvcSound, Waiting
<1>4. CommandsSound'
  BY <1>1 DEF CommandsSound
<1>5. ConnsSound'
  BY <1>1, <1>b DEF ConnsSound, ConnSound
<1>6. AppSound'
  BY <1>1, <1>b DEF AppSound
<1>7. BoundsSound'
  BY <1>1 DEF BoundsSound, BoundSound, Waiting, Kept
<1>8. StreamParts'
  BY <1>1 DEF StreamParts, Parts, Got, Hand, Line, Lined, Pending, InHand
<1> QED BY <1>2, <1>3, <1>4, <1>5, <1>6, <1>7, <1>8

LEMMA StepSelectSleep ==
  ASSUME RxInv, SelectSleep
  PROVE  RxInv'
<1> USE DEF RxInv
<1>1. UNCHANGED <<rxRing, readReady, commands, readyRing, datagram, fin, backlog, sent,
                  queued, parent, attached, svc, level, open, lives, cache, got, mask,
                  ready, cur, held>>
  BY DEF SelectSleep, shared, svcVars, appVars
<1>b. /\ at \in {"select", "presleep", "sleep"} /\ at' \in {"select", "presleep", "sleep", "run"}
      /\ \A d \in Conns : InHand(d)' = InHand(d) /\ ~Flushing(d)
  BY <1>1 DEF SelectSleep, InHand, Flushing
<1>2. TypeOK'
  <2>0. TypeBufs /\ TypeFlags /\ TypeLists /\ TypeSvc /\ TypeApp
    BY TypeGroups
  <2>1. TypeBufs'
    BY <1>1, <2>0 DEF TypeBufs
  <2>2. TypeFlags'
    BY <1>1, <2>0 DEF TypeFlags
  <2>3. TypeLists'
    BY <1>1, <2>0 DEF TypeLists
  <2>4. TypeSvc'
    BY <1>1, <2>0 DEF TypeSvc
  <2>5. TypeApp'
    BY <1>1, <2>0 DEF TypeApp, SelectSleep
  <2> QED BY <2>1, <2>2, <2>3, <2>4, <2>5, TypeNext
<1>3. SvcSound'
  BY <1>1 DEF SvcSound, Waiting
<1>4. CommandsSound'
  BY <1>1 DEF CommandsSound
<1>5. ConnsSound'
  BY <1>1, <1>b DEF ConnsSound, ConnSound
<1>6. AppSound'
  BY <1>1, <1>b DEF AppSound
<1>7. BoundsSound'
  BY <1>1 DEF BoundsSound, BoundSound, Waiting, Kept
<1>8. StreamParts'
  BY <1>1 DEF StreamParts, Parts, Got, Hand, Line, Lined, Pending, InHand
<1> QED BY <1>2, <1>3, <1>4, <1>5, <1>6, <1>7, <1>8

LEMMA StepSelectTimeout ==
  ASSUME RxInv, SelectTimeout
  PROVE  RxInv'
<1> USE DEF RxInv
<1>1. UNCHANGED <<rxRing, readReady, commands, readyRing, datagram, fin, backlog, sent,
                  queued, parent, attached, svc, level, open, lives, cache, got, mask,
                  ready, cur, held>>
  BY DEF SelectTimeout, shared, svcVars, appVars
<1>b. /\ at \in {"select", "presleep", "sleep"} /\ at' \in {"select", "presleep", "sleep", "run"}
      /\ \A d \in Conns : InHand(d)' = InHand(d) /\ ~Flushing(d)
  BY <1>1 DEF SelectTimeout, InHand, Flushing
<1>2. TypeOK'
  <2>0. TypeBufs /\ TypeFlags /\ TypeLists /\ TypeSvc /\ TypeApp
    BY TypeGroups
  <2>1. TypeBufs'
    BY <1>1, <2>0 DEF TypeBufs
  <2>2. TypeFlags'
    BY <1>1, <2>0 DEF TypeFlags
  <2>3. TypeLists'
    BY <1>1, <2>0 DEF TypeLists
  <2>4. TypeSvc'
    BY <1>1, <2>0 DEF TypeSvc
  <2>5. TypeApp'
    BY <1>1, <2>0 DEF TypeApp, SelectTimeout
  <2> QED BY <2>1, <2>2, <2>3, <2>4, <2>5, TypeNext
<1>3. SvcSound'
  BY <1>1 DEF SvcSound, Waiting
<1>4. CommandsSound'
  BY <1>1 DEF CommandsSound
<1>5. ConnsSound'
  BY <1>1, <1>b DEF ConnsSound, ConnSound
<1>6. AppSound'
  BY <1>1, <1>b DEF AppSound
<1>7. BoundsSound'
  BY <1>1 DEF BoundsSound, BoundSound, Waiting, Kept
<1>8. StreamParts'
  BY <1>1 DEF StreamParts, Parts, Got, Hand, Line, Lined, Pending, InHand
<1> QED BY <1>2, <1>3, <1>4, <1>5, <1>6, <1>7, <1>8

LEMMA StepDequeueLocal ==
  ASSUME RxInv, NEW c \in Conns, DequeueLocal(c)
  PROVE  RxInv'
<1> USE DEF RxInv
<1>1. UNCHANGED <<rxRing, commands, readyRing, datagram, fin, backlog, sent, queued, parent,
                  attached, svc, level, open, lives, got, mask, ready>>
  BY DEF DequeueLocal, shared, svcVars, appVars
<1>a. /\ at = "run" /\ held = <<>> /\ c \in open /\ at' = "fill" /\ cur' = c
  BY DEF DequeueLocal, AppSound, ConnsSound, ConnSound, Flushing
<1>b. PICK ca \in Seq(Seq(Numbered)) : ca = cache[c]
  BY TypedConn
<1>e. \/ ca = <<>> /\ held' = <<>> /\ cache' = cache
      \/ ca # <<>> /\ held' = Head(ca) /\ cache' = [cache EXCEPT ![c] = Tail(ca)]
  BY <1>b DEF DequeueLocal
<1>c. /\ \A d \in Conns : d # c => cache'[d] = cache[d]
      /\ \/ ca = <<>> /\ held' = <<>> /\ cache'[c] = ca
         \/ ca # <<>> /\ held' = Head(ca) /\ cache'[c] = Tail(ca)
  BY <1>b, <1>e, TypeGroups DEF TypeBufs
<1>i. /\ InHand(c) = <<>> /\ InHand(c)' = held'
      /\ \A d \in Conns : d # c => InHand(d)' = InHand(d)
      /\ \A d \in Conns : ~Flushing(d)
  BY <1>a DEF InHand, Flushing
<1>t. ca # <<>> => Tail(ca) \in Seq(Seq(Numbered)) /\ Head(ca) \in Seq(Numbered)
  BY Taken
<1>2. TypeOK'
  <2>0. TypeBufs /\ TypeFlags /\ TypeLists /\ TypeSvc /\ TypeApp
    BY TypeGroups
  <2>1. TypeBufs'
    <3>1. CASE ca = <<>>
      BY <1>1, <1>e, <2>0, <3>1 DEF TypeBufs
    <3>2. CASE ca # <<>>
      BY <1>1, <1>e, <1>t, <2>0, <3>2 DEF TypeBufs
    <3> QED BY <3>1, <3>2
  <2>2. TypeFlags'
    BY <1>1, <2>0 DEF TypeFlags, DequeueLocal
  <2>3. TypeLists'
    BY <1>1, <2>0 DEF TypeLists
  <2>4. TypeSvc'
    BY <1>1, <2>0 DEF TypeSvc
  <2>5. TypeApp'
    BY <1>1, <2>0 DEF TypeApp, DequeueLocal
  <2> QED BY <2>1, <2>2, <2>3, <2>4, <2>5, TypeNext
<1>3. SvcSound'
  BY <1>1 DEF SvcSound, Waiting
<1>4. CommandsSound'
  BY <1>1 DEF CommandsSound
<1>5. ConnsSound'
  <2>1. \A d \in Conns : d # c => ConnSound(d)'
    BY <1>1, <1>c, <1>i DEF ConnsSound, ConnSound
  <2>2. ConnSound(c)'
    BY <1>1, <1>a, <1>b, <1>c, <1>i DEF ConnsSound, ConnSound
  <2> QED BY <2>1, <2>2 DEF ConnsSound
<1>6. AppSound'
  BY <1>1, <1>a DEF AppSound
<1>7. BoundsSound'
  <2>1. \A d \in Conns : d # c => BoundSound(d)'
    BY <1>1, <1>c, BoundStays DEF BoundsSound
  <2>2. BoundSound(c)'
    <3>1. CASE cache'[c] = ca
      BY <1>1, <1>b, <3>1, BoundStays DEF BoundsSound
    <3>2. CASE ca # <<>> /\ cache'[c] = Tail(ca)
      <4>1. PICK n \in Nat, n2 \in Nat : n = Len(ca) /\ n2 = Len(Tail(ca)) /\ n = n2 + 1
        BY <3>2, Taken, LenProperties DEF Shorter
      <4>2. n < CacheSize /\ Kept(c)' = n2
        BY <1>b, <3>2, <4>1 DEF BoundsSound, BoundSound, Kept
      <4>3. n2 < CacheSize
        BY <4>1, <4>2, Sizes
      <4>4. Waiting(c)' = Waiting(c) /\ rxRing'[c] = rxRing[c]
        BY <1>1 DEF Waiting
      <4> QED BY <1>1, <4>2, <4>3, <4>4 DEF BoundsSound, BoundSound
    <3> QED BY <1>c, <3>1, <3>2
  <2> QED BY <2>1, <2>2 DEF BoundsSound
<1>8. StreamParts'
  <2>1. ASSUME NEW d \in Conns, d # c PROVE Parts(d) => Parts(d)'
    <3>1. SameParts(d)
      BY <1>1, <1>c, <1>i, <2>1 DEF SameParts
    <3> QED BY <3>1, PartsStay
  <2>2. ASSUME attached[c] PROVE Parts(c) => Parts(c)'
    <3>1. CASE ca = <<>>
      <4>1. SameParts(c)
        BY <1>1, <1>b, <1>c, <1>i, <3>1 DEF SameParts
      <4> QED BY <4>1, PartsStay
    <3>2. CASE ca # <<>>
      <4>1. PICK lg \in Nat, lh \in Nat, ls \in Nat, lr \in Nat :
              /\ Long(got[c], lg) /\ Long(InHand(c), lh) /\ Long(Line(c), ls)
              /\ Long(backlog[c], lr) /\ \E b : PartsOf(c, lg, lh, ls, lr, b)
        BY <1>a, <2>2, PartsAt
      <4>2. lh = 0
        BY <1>i, <4>1, EmptyWaits DEF Long
      <4>0. PICK n \in Nat : n = sent[c]
        BY TypedConn
      <4>3. PICK b :
              Cut(got[c], lg, InHand(c), 0, Line(c), ls, backlog[c], lr, b, lives[c], n)
        BY <4>0, <4>1, <4>2 DEF PartsOf
      <4>4. PICK rx \in Seq(Seq(Numbered)) : rx = rxRing[c]
        BY TypedConn
      <4>5. /\ Line(c) \in Seq(Seq(Numbered)) /\ Line(c) # <<>> /\ Line(c)' = Tail(Line(c))
            /\ held' = Head(Line(c))
        <5>1. Line(c) = ca \o rx /\ Line(c)' = Tail(ca) \o rx /\ held' = Head(ca)
          BY <1>1, <1>b, <1>c, <3>2, <4>4 DEF Line
        <5>2. ca # <<>>
          BY <3>2
        <5>3. /\ Tail(ca) \o rx = Tail(ca \o rx) /\ ca \o rx # <<>> /\ Head(ca) = Head(ca \o rx)
              /\ ca \o rx \in Seq(Seq(Numbered))
          BY <1>b, <4>4, <5>2, LineShrinks
        <5> QED BY <5>1, <5>3, Zenon
      <4>6. PICK ls2 \in Nat : Long(Line(c)', ls2) /\ Shorter(Line(c), ls, Line(c)', ls2)
        BY <4>1, <4>5, Taken DEF Long
      <4>7. PICK lh2 \in Nat : Long(held', lh2)
        BY <4>5, Taken, LenProperties DEF Long
      <4>8. held' = Line(c)[1]
        BY <4>5, Taken
      <4>9. PICK b2 : Cut(got[c], lg, held', lh2, Line(c)', ls2, backlog[c], lr, b2, lives[c], n)
        BY <4>3, <4>6, <4>7, <4>8, CutTakes
      <4>10. /\ got'[c] = got[c] /\ InHand(c)' = held' /\ lives'[c] = lives[c]
             /\ n = sent'[c] /\ backlog'[c] = backlog[c]
        BY <1>1, <1>i, <4>0
      <4> QED BY <4>1, <4>6, <4>7, <4>9, <4>10, PartsMade
    <3> QED BY <3>1, <3>2
  <2> QED BY <1>1, <1>a, <2>1, <2>2, StreamStays
<1> QED BY <1>2, <1>3, <1>4, <1>5, <1>6, <1>7, <1>8

LEMMA StepDequeueBurst ==
  ASSUME RxInv, DequeueBurst
  PROVE  RxInv'
<1> USE DEF RxInv
<1>1. UNCHANGED <<readReady, commands, readyRing, datagram, fin, backlog, sent, queued,
                  parent, attached, svc, level, open, lives, got, mask, ready, cur>>
  BY DEF DequeueBurst, shared, svcVars, appVars
<1>a. PICK c \in Conns : c = cur /\ c \in open /\ at = "fill" /\ at' = "kick"
  BY TypeGroups DEF TypeApp, DequeueBurst, AppSound
<1>b. PICK ca \in Seq(Seq(Numbered)), rx \in Seq(Seq(Numbered)) : ca = cache[c] /\ rx = rxRing[c]
  BY TypedConn
<1>l. PICK lc \in Nat, lt \in Nat : /\ Long(ca, lc) /\ Long(rx, lt)
                                    /\ lc < CacheSize /\ lt < RxRingSize
  BY <1>b, Lengths DEF BoundsSound, BoundSound, Waiting, Kept, Long
<1>n. PICK k \in Nat, m \in Nat : /\ k = Lowest({Burst, Room(ca, CacheSize), Len(rx)})
                                  /\ lt = k + m /\ lc + k < CacheSize
  BY <1>l, MovedCount
<1>v. PICK u \in Seq(Seq(Numbered)), g \in Seq(Seq(Numbered)) : Moves(ca, lc, rx, lt, k, m, u, g)
  <2>1. lt = k + m /\ k \in Nat /\ m \in Nat /\ lc \in Nat /\ lt \in Nat
    BY <1>n, <1>l
  <2>2. ca \in Seq(Seq(Numbered)) /\ rx \in Seq(Seq(Numbered)) /\ Long(ca, lc) /\ Long(rx, lt)
    BY <1>b, <1>l
  <2> QED BY <2>1, <2>2, LineMoves
<1>u. /\ u = ca \o SubSeq(rx, 1, k) /\ g = SubSeq(rx, k + 1, lt)
      /\ Len(u) = lc + k /\ Len(g) = m /\ u \o g = ca \o rx
  BY <1>v DEF Moves
<1>e. /\ rxRing' = [rxRing EXCEPT ![c] = g]
      /\ \/ held = <<>> /\ u # <<>> /\ held' = Head(u) /\ cache' = [cache EXCEPT ![c] = Tail(u)]
         \/ ~(held = <<>> /\ u # <<>>) /\ held' = held /\ cache' = [cache EXCEPT ![c] = u]
  <2>1. lt = Len(rx)
    BY <1>l DEF Long
  <2> QED BY <1>a, <1>b, <1>n, <1>u, <2>1 DEF DequeueBurst
<1>c. /\ rxRing'[c] = g
      /\ \A d \in Conns : d # c => cache'[d] = cache[d] /\ rxRing'[d] = rxRing[d]
      /\ \/ held = <<>> /\ u # <<>> /\ held' = Head(u) /\ cache'[c] = Tail(u)
         \/ ~(held = <<>> /\ u # <<>>) /\ held' = held /\ cache'[c] = u
  BY <1>e, TypeGroups DEF TypeBufs
<1>i. /\ InHand(c) = held /\ InHand(c)' = held'
      /\ \A d \in Conns : d # c => InHand(d)' = InHand(d)
      /\ \A d \in Conns : ~Flushing(d)
  BY <1>1, <1>a DEF InHand, Flushing
<1>t. u # <<>> => Tail(u) \in Seq(Seq(Numbered)) /\ Head(u) \in Seq(Numbered)
  BY Taken
<1>w. Waiting(c) = lt /\ Waiting(c)' = m /\ Kept(c) = lc
  BY <1>b, <1>c, <1>l, <1>u DEF Waiting, Kept, Long
<1>2. TypeOK'
  <2>0. TypeBufs /\ TypeFlags /\ TypeLists /\ TypeSvc /\ TypeApp
    BY TypeGroups
  <2>1. TypeBufs'
    <3>1. rxRing' \in [Conns -> Seq(Seq(Numbered))]
      BY <1>e, <2>0 DEF TypeBufs
    <3>2. cache' \in [Conns -> Seq(Seq(Numbered))] /\ held' \in Seq(Numbered)
      BY <1>e, <1>t, <2>0 DEF TypeBufs
    <3> QED BY <1>1, <2>0, <3>1, <3>2 DEF TypeBufs
  <2>2. TypeFlags'
    BY <1>1, <2>0 DEF TypeFlags
  <2>3. TypeLists'
    BY <1>1, <2>0 DEF TypeLists
  <2>4. TypeSvc'
    BY <1>1, <2>0 DEF TypeSvc
  <2>5. TypeApp'
    BY <1>1, <2>0 DEF TypeApp, DequeueBurst
  <2> QED BY <2>1, <2>2, <2>3, <2>4, <2>5, TypeNext
<1>3. SvcSound'
  <2>1. ASSUME NEW d \in Conns PROVE Waiting(d)' \in Nat /\ Waiting(d)' <= Waiting(d)
    <3>1. CASE d = c
      BY <1>n, <1>w, <3>1
    <3>2. CASE d # c
      <4>1. Waiting(d)' = Waiting(d) /\ Waiting(d) \in Nat
        BY <1>c, <3>2, Lengths DEF Waiting
      <4> QED BY <4>1
    <3> QED BY <3>1, <3>2
  <2> QED BY <1>1, <2>1, SvcStays
<1>4. CommandsSound'
  BY <1>1 DEF CommandsSound
<1>5. ConnsSound'
  <2>1. \A d \in Conns : d # c => ConnSound(d)'
    BY <1>1, <1>c, <1>i DEF ConnsSound, ConnSound
  <2>2. ASSUME ~attached[c]
        PROVE  rxRing'[c] = <<>> /\ cache'[c] = <<>> /\ InHand(c)' = <<>>
    <3>1. ca = <<>> /\ rx = <<>> /\ held = <<>>
      BY <1>a, <1>b, <1>i, <2>2 DEF ConnsSound, ConnSound
    <3>2. lc = 0 /\ lt = 0
      BY <1>l, <3>1, EmptyWaits DEF Long
    <3>3. Len(u) = 0 /\ Len(g) = 0
      <4>1. lc + k = 0 /\ m = 0
        BY <1>n, <3>2
      <4> QED BY <1>u, <4>1
    <3>4. u = <<>> /\ g = <<>>
      BY <3>3, EmptySeq
    <3> QED BY <1>c, <1>i, <3>1, <3>4
  <2>3. ConnSound(c)'
    BY <1>1, <1>a, <1>c, <2>2 DEF ConnsSound, ConnSound
  <2> QED BY <2>1, <2>3 DEF ConnsSound
<1>6. AppSound'
  BY <1>1, <1>a DEF AppSound
<1>7. BoundsSound'
  <2>1. \A d \in Conns : d # c => BoundSound(d)'
    BY <1>1, <1>c, BoundStays DEF BoundsSound
  <2>2. Kept(c)' < CacheSize
    <3>1. CASE cache'[c] = u
      BY <1>n, <1>u, <3>1 DEF Kept
    <3>2. CASE u # <<>> /\ cache'[c] = Tail(u)
      <4>1. PICK n2 \in Nat : n2 = Len(Tail(u)) /\ lc + k = n2 + 1
        BY <1>u, <3>2, Taken DEF Shorter
      <4>2. n2 < CacheSize
        BY <1>n, <4>1, Sizes
      <4> QED BY <3>2, <4>1, <4>2 DEF Kept
    <3> QED BY <1>c, <3>1, <3>2
  <2>3. m < RxRingSize
    BY <1>l, <1>n, Sizes
  <2>4. ASSUME c \in datagram PROVE Single(g)
    <3>1. Single(rx) /\ DOMAIN rx = 1 .. lt
      BY <1>b, <1>l, <2>4, Indexed DEF BoundsSound, BoundSound, Long
    <3>2. DOMAIN g = 1 .. m /\ \A i \in 1 .. m : g[i] = rx[k + i]
      <4>1. PICK f \in Seq(Seq(Numbered)), g2 \in Seq(Seq(Numbered)) :
              /\ f = SubSeq(rx, 1, k) /\ g2 = SubSeq(rx, k + 1, lt)
              /\ Long(f, k) /\ Long(g2, m) /\ Splits(rx, lt, f, k, g2, m)
        BY <1>l, <1>n, Split
      <4>2. g2 = g
        BY <1>u, <4>1
      <4> QED BY <1>u, <4>1, <4>2, Indexed DEF Splits
    <3>3. \A i \in 1 .. m : k + i \in 1 .. lt
      BY <1>n
    <3> QED BY <3>1, <3>2, <3>3 DEF Single
  <2>5. BoundSound(c)'
    BY <1>1, <1>c, <1>w, <2>2, <2>3, <2>4 DEF BoundSound
  <2> QED BY <2>1, <2>5 DEF BoundsSound
<1>8. StreamParts'
  <2>1. ASSUME NEW d \in Conns, d # c PROVE Parts(d) => Parts(d)'
    <3>1. SameParts(d)
      BY <1>1, <1>c, <1>i, <2>1 DEF SameParts
    <3> QED BY <3>1, PartsStay
  <2>2. ASSUME attached[c] PROVE Parts(c) => Parts(c)'
    <3>1. CASE ~(held = <<>> /\ u # <<>>)
      <4>1. Line(c)' = Line(c)
        BY <1>b, <1>c, <1>u, <3>1 DEF Line
      <4>2. /\ backlog'[c] = backlog[c] /\ sent'[c] = sent[c] /\ got'[c] = got[c]
            /\ InHand(c)' = InHand(c) /\ lives'[c] = lives[c]
        BY <1>1, <1>c, <1>i, <3>1
      <4> QED BY <4>1, <4>2 DEF Parts, Got, Hand, Lined, Pending
    <3>2. CASE held = <<>> /\ u # <<>>
      <4>1. PICK lg \in Nat, lh \in Nat, ls \in Nat, lr \in Nat :
              /\ Long(got[c], lg) /\ Long(InHand(c), lh) /\ Long(Line(c), ls)
              /\ Long(backlog[c], lr) /\ \E b : PartsOf(c, lg, lh, ls, lr, b)
        BY <1>a, <2>2, PartsAt
      <4>2. lh = 0
        BY <1>i, <3>2, <4>1, EmptyWaits DEF Long
      <4>0. PICK n \in Nat : n = sent[c]
        BY TypedConn
      <4>3. PICK b :
              Cut(got[c], lg, InHand(c), 0, Line(c), ls, backlog[c], lr, b, lives[c], n)
        BY <4>0, <4>1, <4>2 DEF PartsOf
      <4>5. /\ Line(c) \in Seq(Seq(Numbered)) /\ Line(c) # <<>> /\ Line(c)' = Tail(Line(c))
            /\ held' = Head(Line(c))
        <5>1. Line(c) = u \o g /\ Line(c)' = Tail(u) \o g /\ held' = Head(u)
          BY <1>b, <1>c, <1>u, <3>2 DEF Line
        <5>2. u # <<>>
          BY <3>2
        <5>3. /\ Tail(u) \o g = Tail(u \o g) /\ u \o g # <<>> /\ Head(u) = Head(u \o g)
              /\ u \o g \in Seq(Seq(Numbered))
          <6>1. u \in Seq(Seq(Numbered)) /\ g \in Seq(Seq(Numbered))
            BY <1>v
          <6> QED BY <5>2, <6>1, LineShrinks, Zenon
        <5> QED BY <5>1, <5>3, Zenon
      <4>6. PICK ls2 \in Nat : Long(Line(c)', ls2) /\ Shorter(Line(c), ls, Line(c)', ls2)
        BY <4>1, <4>5, Taken DEF Long
      <4>7. PICK lh2 \in Nat : Long(held', lh2)
        BY <4>5, Taken, LenProperties DEF Long
      <4>8. held' = Line(c)[1]
        BY <4>5, Taken
      <4>9. PICK b2 : Cut(got[c], lg, held', lh2, Line(c)', ls2, backlog[c], lr, b2, lives[c], n)
        BY <4>3, <4>6, <4>7, <4>8, CutTakes
      <4>10. /\ got'[c] = got[c] /\ InHand(c)' = held' /\ lives'[c] = lives[c]
             /\ n = sent'[c] /\ backlog'[c] = backlog[c]
        BY <1>1, <1>i, <4>0
      <4> QED BY <4>1, <4>6, <4>7, <4>9, <4>10, PartsMade
    <3> QED BY <3>1, <3>2
  <2> QED BY <1>1, <1>a, <2>1, <2>2, StreamStays
<1> QED BY <1>2, <1>3, <1>4, <1>5, <1>6, <1>7, <1>8

LEMMA StepRxKick ==
  ASSUME RxInv, RxKick
  PROVE  RxInv'
<1> USE DEF RxInv
<1>1. UNCHANGED <<rxRing, readReady, readyRing, datagram, fin, backlog, sent, queued, parent,
                  attached, svc, level, open, lives, cache>>
  BY DEF RxKick, shared, svcVars, appVars
<1>a. PICK c \in Conns : c = cur /\ c \in open /\ at = "kick"
  BY TypeGroups DEF TypeApp, RxKick, AppSound
<1>b. /\ cur' = NONE /\ held' = <<>> /\ ready' \subseteq ready /\ mask' \subseteq mask
      /\ at' \in {"select", "run"}
  BY DEF RxKick
<1>c. got'[c] = got[c] \o held /\ \A d \in Conns : d # c => got'[d] = got[d]
  BY <1>a, TypeGroups DEF RxKick, TypeBufs
<1>i. /\ InHand(c) = held /\ InHand(c)' = <<>>
      /\ \A d \in Conns : d # c => InHand(d)' = InHand(d)
      /\ \A d \in Conns : ~Flushing(d)
  BY <1>a, <1>b DEF InHand, Flushing
<1>q. CommandsSound' /\ commands' \in Seq(CommandRecs)
  <2>1. CASE commands' = commands
    BY <1>1, <2>1, TypeGroups DEF TypeLists, CommandsSound
  <2>2. CASE Send("RXKICK", cur, FALSE)
    <3>1. "RXKICK" \in Ops
      BY DEF Ops
    <3>2. PICK e \in CommandRecs : /\ e = [op |-> "RXKICK", conn |-> c, sel |-> FALSE]
                                   /\ e.op = "RXKICK" /\ e.conn = c
      BY <3>1, CommandRec, Zenon
    <3>3. commands' = Append(commands, e)
      BY <1>a, <2>2, <3>2 DEF Send
    <3> QED BY <1>1, <1>a, <3>2, <3>3, CommandsGrow
  <2> QED BY <2>1, <2>2 DEF RxKick
<1>g. PICK g \in Seq(Numbered), h \in Seq(Numbered) :
        /\ g = got[c] /\ h = held /\ g \o h \in Seq(Numbered) /\ Len(g \o h) = Len(g) + Len(h)
        /\ Joins(g, Len(g), h, Len(h), g \o h)
  BY TypedConn, Joined
<1>2. TypeOK'
  <2>0. TypeBufs /\ TypeFlags /\ TypeLists /\ TypeSvc /\ TypeApp
    BY TypeGroups
  <2>1. TypeBufs'
    <3>1. <<>> \in Seq(Numbered) /\ got' = [got EXCEPT ![c] = g \o h]
      BY <1>a, <1>g DEF RxKick
    <3> QED BY <1>1, <1>b, <1>g, <2>0, <3>1 DEF TypeBufs
  <2>2. TypeFlags'
    BY <1>1, <2>0 DEF TypeFlags
  <2>3. TypeLists'
    BY <1>1, <1>q, <2>0 DEF TypeLists
  <2>4. TypeSvc'
    BY <1>1, <2>0 DEF TypeSvc
  <2>5. TypeApp'
    BY <1>1, <1>b, <2>0 DEF TypeApp
  <2> QED BY <2>1, <2>2, <2>3, <2>4, <2>5, TypeNext
<1>3. SvcSound'
  BY <1>1 DEF SvcSound, Waiting
<1>4. CommandsSound'
  BY <1>q
<1>5. ConnsSound'
  <2>1. \A d \in Conns : d # c => ConnSound(d)'
    BY <1>1, <1>b, <1>c, <1>i DEF ConnsSound, ConnSound
  <2>2. ~attached[c] => got'[c] = <<>>
    BY <1>a, <1>c, <1>i DEF ConnsSound, ConnSound
  <2>3. ConnSound(c)'
    BY <1>1, <1>a, <1>i, <2>2 DEF ConnsSound, ConnSound
  <2> QED BY <2>1, <2>3 DEF ConnsSound
<1>6. AppSound'
  BY <1>b DEF AppSound
<1>7. BoundsSound'
  BY <1>1 DEF BoundsSound, BoundSound, Waiting, Kept
<1>8. StreamParts'
  <2>1. ASSUME NEW d \in Conns, d # c PROVE Parts(d) => Parts(d)'
    <3>1. SameParts(d)
      BY <1>1, <1>c, <1>i, <2>1 DEF SameParts
    <3> QED BY <3>1, PartsStay
  <2>2. ASSUME attached[c] PROVE Parts(c)'
    <3>1. Returned(c)
      BY <1>1, <1>a, <1>c, <1>i DEF Returned
    <3> QED BY <1>a, <2>2, <3>1, PartsReturn
  <2> QED BY <1>1, <1>a, <2>1, <2>2, StreamStays
<1> QED BY <1>2, <1>3, <1>4, <1>5, <1>6, <1>7, <1>8

LEMMA StepClose ==
  ASSUME RxInv, NEW c \in Conns, Close(c)
  PROVE  RxInv'
<1> USE DEF RxInv
<1>1. UNCHANGED <<rxRing, readReady, readyRing, datagram, fin, backlog, sent, queued, parent,
                  attached, svc, level, lives, cache, got, mask, ready, held>>
  BY DEF Close, shared, svcVars, appVars
<1>a. /\ at \in {"run", "select"} /\ c \in open /\ lives[c] < MaxLives /\ held = <<>>
      /\ open' = open \ {c} /\ cur' = c /\ at' = "flush" /\ held' = <<>>
  BY <1>1 DEF Close, AppSound
<1>i. /\ \A d \in Conns : InHand(d)' = InHand(d) /\ ~Flushing(d)
      /\ Flushing(c)'
  BY <1>a DEF InHand, Flushing
<1>q. CommandsSound' /\ commands' \in Seq(CommandRecs)
  <2>1. "CLOSE" \in Ops
    BY DEF Ops
  <2>2. PICK e \in CommandRecs : /\ e = [op |-> "CLOSE", conn |-> c, sel |-> FALSE]
                                 /\ e.op = "CLOSE" /\ e.conn = c
    BY <2>1, CommandRec, Zenon
  <2>3. commands' = Append(commands, e)
    BY <2>2 DEF Close, Send
  <2> QED BY <1>1, <1>a, <2>2, <2>3, CommandsGrow
<1>2. TypeOK'
  <2>0. TypeBufs /\ TypeFlags /\ TypeLists /\ TypeSvc /\ TypeApp
    BY TypeGroups
  <2>1. TypeBufs'
    BY <1>1, <2>0 DEF TypeBufs
  <2>2. TypeFlags'
    BY <1>1, <2>0 DEF TypeFlags
  <2>3. TypeLists'
    BY <1>1, <1>q, <2>0 DEF TypeLists
  <2>4. TypeSvc'
    BY <1>1, <2>0 DEF TypeSvc
  <2>5. TypeApp'
    BY <1>1, <1>a, <2>0 DEF TypeApp
  <2> QED BY <2>1, <2>2, <2>3, <2>4, <2>5, TypeNext
<1>3. SvcSound'
  BY <1>1 DEF SvcSound, Waiting
<1>4. CommandsSound'
  BY <1>q
<1>5. ConnsSound'
  <2>1. \A d \in Conns : d # c => ConnSound(d)'
    BY <1>1, <1>a, <1>i DEF ConnsSound, ConnSound
  <2>2. ConnSound(c)'
    BY <1>1, <1>a, <1>i DEF ConnsSound, ConnSound
  <2> QED BY <2>1, <2>2 DEF ConnsSound
<1>6. AppSound'
  BY <1>a DEF AppSound
<1>7. BoundsSound'
  BY <1>1 DEF BoundsSound, BoundSound, Waiting, Kept
<1>8. StreamParts'
  <2>1. ASSUME NEW d \in Conns PROVE Parts(d) => Parts(d)'
    <3>1. SameParts(d)
      BY <1>1, <1>i DEF SameParts
    <3> QED BY <3>1, PartsStay
  <2> QED BY <1>1, <1>a, <2>1, StreamStays
<1> QED BY <1>2, <1>3, <1>4, <1>5, <1>6, <1>7, <1>8

LEMMA StepCloseFlush ==
  ASSUME RxInv, CloseFlush
  PROVE  RxInv'
<1> USE DEF RxInv
<1>1. UNCHANGED <<readReady, commands, readyRing, datagram, fin, backlog, sent, queued,
                  parent, attached, svc, level, open, lives, got, held>>
  BY DEF CloseFlush, shared, svcVars, appVars
<1>a. PICK c \in Conns : c = cur /\ c \notin open /\ at = "flush" /\ held = <<>>
  BY DEF CloseFlush, AppSound
<1>b. /\ cur' = NONE /\ ready' = ready \ {c} /\ mask' = mask \ {c} /\ at' \in {"select", "run"}
  BY <1>a DEF CloseFlush
<1>c. /\ cache'[c] = <<>> /\ rxRing'[c] = <<>>
      /\ \A d \in Conns : d # c => cache'[d] = cache[d] /\ rxRing'[d] = rxRing[d]
  BY <1>a, TypeGroups DEF CloseFlush, TypeBufs
<1>i. \A d \in Conns : InHand(d)' = InHand(d) /\ (d # c => ~Flushing(d))
  BY <1>1, <1>a, <1>b DEF InHand, Flushing
<1>w. Waiting(c)' = 0 /\ Kept(c)' = 0 /\ Single(rxRing'[c])
  BY <1>c, EmptyWaits DEF Waiting, Kept
<1>2. TypeOK'
  <2>0. TypeBufs /\ TypeFlags /\ TypeLists /\ TypeSvc /\ TypeApp
    BY TypeGroups
  <2>1. TypeBufs'
    <3>1. <<>> \in Seq(Seq(Numbered))
      OBVIOUS
    <3> QED BY <1>1, <2>0, <3>1 DEF TypeBufs, CloseFlush
  <2>2. TypeFlags'
    BY <1>1, <2>0 DEF TypeFlags
  <2>3. TypeLists'
    BY <1>1, <2>0 DEF TypeLists
  <2>4. TypeSvc'
    BY <1>1, <2>0 DEF TypeSvc
  <2>5. TypeApp'
    BY <1>1, <1>b, <2>0 DEF TypeApp
  <2> QED BY <2>1, <2>2, <2>3, <2>4, <2>5, TypeNext
<1>3. SvcSound'
  <2>1. ASSUME NEW d \in Conns PROVE Waiting(d)' \in Nat /\ Waiting(d)' <= Waiting(d)
    <3>1. Waiting(d) \in Nat
      BY Lengths
    <3>2. d # c => Waiting(d)' = Waiting(d)
      BY <1>c DEF Waiting
    <3> QED BY <1>w, <3>1, <3>2
  <2> QED BY <1>1, <2>1, SvcStays
<1>4. CommandsSound'
  BY <1>1 DEF CommandsSound
<1>5. ConnsSound'
  <2>1. \A d \in Conns : d # c => ConnSound(d)'
    BY <1>1, <1>b, <1>c, <1>i DEF ConnsSound, ConnSound
  <2>2. ConnSound(c)'
    BY <1>1, <1>a, <1>b, <1>c, <1>i DEF ConnsSound, ConnSound
  <2> QED BY <2>1, <2>2 DEF ConnsSound
<1>6. AppSound'
  BY <1>1, <1>a, <1>b DEF AppSound
<1>7. BoundsSound'
  <2>1. \A d \in Conns : d # c => BoundSound(d)'
    BY <1>1, <1>c, BoundStays DEF BoundsSound
  <2>2. BoundSound(c)'
    BY <1>w, Sizes DEF BoundSound
  <2> QED BY <2>1, <2>2 DEF BoundsSound
<1>8. StreamParts'
  <2>1. ASSUME NEW d \in Conns, d # c PROVE Parts(d) => Parts(d)'
    <3>1. SameParts(d)
      BY <1>1, <1>c, <1>i, <2>1 DEF SameParts
    <3> QED BY <3>1, PartsStay
  <2> QED BY <1>1, <1>a, <2>1, StreamStays
<1> QED BY <1>2, <1>3, <1>4, <1>5, <1>6, <1>7, <1>8

LEMMA StepOpen ==
  ASSUME RxInv, NEW c \in Conns, Open(c)
  PROVE  RxInv'
<1> USE DEF RxInv
<1>1. UNCHANGED <<rxRing, readReady, readyRing, datagram, backlog, queued, parent,
                  attached, svc, level, cache, mask, ready, at, cur, held>>
  BY DEF Open, shared, svcVars, appVars
<1>a. /\ at \in {"run", "select"} /\ c \notin open /\ held = <<>> /\ ~attached[c]
      /\ open' = open \cup {c}
  BY DEF Open, AppSound
<1>b. PICK w \in 1 .. MaxLives : w = lives[c] + 1
  <2>1. lives[c] < MaxLives
    BY <1>a DEF ConnsSound, ConnSound
  <2> QED BY <2>1, TypedConn, Sizes
<1>e. lives' = [lives EXCEPT ![c] = w]
  BY <1>b DEF Open
<1>c. /\ lives'[c] = w /\ got'[c] = <<>> /\ sent'[c] = 0
      /\ \A d \in Conns : d # c => /\ lives'[d] = lives[d] /\ got'[d] = got[d]
                                   /\ sent'[d] = sent[d]
  BY <1>e, TypeGroups DEF Open, TypeBufs
<1>i. \A d \in Conns : InHand(d)' = <<>> /\ InHand(d) = <<>> /\ ~Flushing(d)
  BY <1>1, <1>a DEF InHand, Flushing
<1>q. CommandsSound' /\ commands' \in Seq(CommandRecs)
  BY CommandsOpen
<1>2. TypeOK'
  <2>0. TypeBufs /\ TypeFlags /\ TypeLists /\ TypeSvc /\ TypeApp
    BY TypeGroups
  <2>1. TypeBufs'
    <3>1. <<>> \in Seq(Numbered) /\ 0 \in 0 .. MaxData
      BY Sizes
    <3> QED BY <1>1, <1>e, <2>0, <3>1 DEF TypeBufs, Open
  <2>2. TypeFlags'
    BY <1>1, <2>0 DEF TypeFlags, Open
  <2>3. TypeLists'
    BY <1>1, <1>q, <2>0 DEF TypeLists
  <2>4. TypeSvc'
    BY <1>1, <2>0 DEF TypeSvc
  <2>5. TypeApp'
    BY <1>1, <1>a, <2>0 DEF TypeApp
  <2> QED BY <2>1, <2>2, <2>3, <2>4, <2>5, TypeNext
<1>3. SvcSound'
  BY <1>1 DEF SvcSound, Waiting
<1>4. CommandsSound'
  BY <1>q
<1>5. ConnsSound'
  <2>1. \A d \in Conns : d # c => ConnSound(d)'
    BY <1>1, <1>a, <1>c, <1>i DEF ConnsSound, ConnSound
  <2>2. ConnSound(c)'
    BY <1>1, <1>a, <1>c, <1>i DEF ConnsSound, ConnSound
  <2> QED BY <2>1, <2>2 DEF ConnsSound
<1>6. AppSound'
  BY <1>1, <1>a DEF AppSound
<1>7. BoundsSound'
  BY <1>1 DEF BoundsSound, BoundSound, Waiting, Kept
<1>8. StreamParts'
  <2>1. ASSUME NEW d \in Conns, d # c PROVE Parts(d) => Parts(d)'
    <3>1. SameParts(d)
      BY <1>1, <1>c, <1>i, <2>1 DEF SameParts
    <3> QED BY <3>1, PartsStay
  <2> QED BY <1>1, <1>a, <2>1, StreamStays
<1> QED BY <1>2, <1>3, <1>4, <1>5, <1>6, <1>7, <1>8
---------------------------------------------------------------------------
(* The invariant.                                                          *)

LEMMA ExecCases ==
  ASSUME TypeOK, ExecCommand
  PROVE  \E c \in Conns : \/ ExecOpen(c) \/ ExecSetRing(c) \/ ExecSelect(c)
                          \/ ExecRxKick(c) \/ ExecClose(c)
<1>1. /\ svc = Idle /\ commands # <<>> /\ commands' = Tail(commands)
      /\ UNCHANGED <<readReady, readyRing, datagram, appVars>>
  BY DEF ExecCommand
<1>2. commands \in Seq(CommandRecs)
  BY TypeGroups DEF TypeLists
<1>3. 1 \in DOMAIN commands /\ Head(commands) = commands[1]
  BY <1>1, <1>2, CommandsTaken
<1>4. PICK c \in Conns : c = Head(commands).conn
  BY <1>2, <1>3, CommandConns
<1>5. Head(commands).op \in Ops /\ Head(commands).sel \in BOOLEAN
  <2>1. Head(commands) \in CommandRecs
    BY <1>1, <1>2, HeadTailProperties
  <2> QED BY <2>1 DEF CommandRecs, Ops
<1>6. CASE Head(commands).op = "OPEN"
  <2>1. ExecOpen(c)
    BY <1>1, <1>4, <1>5, <1>6 DEF ExecCommand, ExecOpen, Executes
  <2> QED BY <2>1
<1>7. CASE Head(commands).op = "SET_RING"
  <2>1. ExecSetRing(c)
    BY <1>1, <1>4, <1>7 DEF ExecCommand, ExecSetRing, Executes
  <2> QED BY <2>1
<1>8. CASE Head(commands).op = "SELECT"
  <2>1. ExecSelect(c)
    BY <1>1, <1>4, <1>8 DEF ExecCommand, ExecSelect, Executes
  <2> QED BY <2>1
<1>9. CASE Head(commands).op = "RXKICK"
  <2>1. ExecRxKick(c)
    BY <1>1, <1>4, <1>9 DEF ExecCommand, ExecRxKick, Executes
  <2> QED BY <2>1
<1>10. CASE Head(commands).op = "CLOSE"
  <2>1. ExecClose(c)
    BY <1>1, <1>4, <1>10 DEF ExecCommand, ExecClose, Executes
  <2> QED BY <2>1
<1> QED BY <1>5, <1>6, <1>7, <1>8, <1>9, <1>10 DEF Ops

LEMMA StepExecCommand ==
  ASSUME RxInv, ExecCommand
  PROVE  RxInv'
<1>1. PICK c \in Conns : \/ ExecOpen(c) \/ ExecSetRing(c) \/ ExecSelect(c)
                         \/ ExecRxKick(c) \/ ExecClose(c)
  BY ExecCases DEF RxInv
<1> QED BY <1>1, StepExecOpen, StepExecSetRing, StepExecSelect, StepExecRxKick,
           StepExecClose

LEMMA StepStutter ==
  ASSUME RxInv, UNCHANGED vars
  PROVE  RxInv'
<1> USE DEF RxInv, vars, shared, svcVars, appVars
<1>1. TypeOK'
  <2>0. TypeBufs /\ TypeFlags /\ TypeLists /\ TypeSvc /\ TypeApp
    BY TypeGroups
  <2>1. TypeBufs' /\ TypeFlags'
    BY <2>0 DEF TypeBufs, TypeFlags
  <2>2. TypeLists' /\ TypeSvc' /\ TypeApp'
    BY <2>0 DEF TypeLists, TypeSvc, TypeApp
  <2> QED BY <2>1, <2>2, TypeNext
<1>2. SvcSound' /\ CommandsSound' /\ AppSound'
  BY DEF SvcSound, Waiting, CommandsSound, AppSound
<1>3. ConnsSound'
  BY DEF ConnsSound, ConnSound, InHand, Flushing
<1>4. BoundsSound'
  BY DEF BoundsSound, BoundSound, Waiting, Kept
<1>5. StreamParts'
  BY DEF StreamParts, Parts, Got, Hand, Line, Lined, Pending, InHand
<1> QED BY <1>1, <1>2, <1>3, <1>4, <1>5

LEMMA RxStep == RxInv /\ [Next]_vars => RxInv'
<1> SUFFICES ASSUME RxInv, [Next]_vars PROVE RxInv'
  OBVIOUS
<1>1. CASE Service
  BY <1>1, StepProcessRxReady, StepExecCommand, StepSubmitRxBuf, StepLoopEnds,
     StepMarkReadable, StepPostReadable DEF Service
<1>2. CASE App
  BY <1>2, StepSelectCached, StepSelectDequeue, StepSelectEmpty, StepSelectSleep,
     StepSelectTimeout, StepDequeueLocal, StepDequeueBurst, StepRxKick, StepCloseFlush
     DEF App
<1>3. ASSUME NEW c \in Conns, SockReadable(c) \/ PeerFin(c) \/ Close(c) \/ Open(c)
      PROVE  RxInv'
  BY <1>3, StepSockReadable, StepPeerFin, StepClose, StepOpen
<1>4. CASE UNCHANGED vars
  BY <1>4, StepStutter
<1> QED BY <1>1, <1>2, <1>3, <1>4 DEF Next

LEMMA RxInit == Init => RxInv
<1> SUFFICES ASSUME Init PROVE RxInv
  OBVIOUS
<1>1. TypeOK
  <2>0. /\ <<>> \in Seq(Numbered) /\ <<>> \in Seq(Seq(Numbered)) /\ <<>> \in Seq(Conns)
        /\ <<>> \in Seq(CommandRecs) /\ 0 \in 0 .. MaxData /\ 1 \in 1 .. MaxLives
    BY Sizes
  <2>1. TypeBufs
    BY <2>0 DEF Init, TypeBufs
  <2>2. TypeFlags
    BY RxPathAssumption DEF Init, TypeFlags
  <2>3. TypeLists
    BY <2>0 DEF Init, TypeLists
  <2>4. TypeSvc
    BY SvcIdle DEF Init, TypeSvc
  <2>5. TypeApp
    BY DEF Init, TypeApp
  <2> QED BY <2>1, <2>2, <2>3, <2>4, <2>5, TypeMade
<1>2. SvcSound
  <2>1. svc.step = "idle"
    BY SvcIdle DEF Init
  <2> QED BY <2>1 DEF SvcSound
<1>3. CommandsSound
  <2>1. commands = <<>> /\ DOMAIN commands = {}
    BY DEF Init
  <2> QED BY <2>1 DEF CommandsSound, Orderly
<1>4. ConnsSound
  BY DEF Init, ConnsSound, ConnSound
<1>5. AppSound
  BY DEF Init, AppSound
<1>6. BoundsSound
  <2>1. ASSUME NEW c \in Conns PROVE BoundSound(c)
    <3>1. Waiting(c) = 0 /\ Kept(c) = 0 /\ Single(rxRing[c])
      BY EmptyWaits DEF Init, Waiting, Kept
    <3> QED BY <3>1, Sizes DEF BoundSound
  <2> QED BY <2>1 DEF BoundsSound
<1>7. StreamParts
  <2>1. ASSUME NEW c \in Conns PROVE Parts(c)
    <3>1. /\ got[c] = <<>> /\ InHand(c) = <<>> /\ cache[c] = <<>> /\ rxRing[c] = <<>>
          /\ backlog[c] = <<>> /\ sent[c] = 0
      BY DEF Init, InHand
    <3>2. Got(c) = 0 /\ Hand(c) = 0 /\ Lined(c) = 0 /\ Pending(c) = 0
      BY <3>1 DEF Got, Hand, Lined, Line, Pending
    <3>3. Run(backlog[c], 0, lives[c], 0)
      BY DEF Run
    <3>4. \E b : Cut(got[c], 0, InHand(c), 0, Line(c), 0, backlog[c], 0, b, lives[c], 0)
      BY <3>3, CutFresh
    <3> QED BY <3>1, <3>2, <3>4 DEF Parts
  <2> QED BY <2>1 DEF StreamParts
<1> QED BY <1>1, <1>2, <1>3, <1>4, <1>5, <1>6, <1>7 DEF RxInv

\* The inductive invariant.
THEOREM RxInvariant == Spec => []RxInv
  BY RxInit, RxStep, PTL DEF Spec

\* TypeOK holds in every reachable state, whatever the sizes of the rings: no free
\* count that user_data_available_cbk works with leaves its range.
THEOREM RxTypeCorrect == Spec => []TypeOK
<1>1. RxInv => TypeOK
  BY DEF RxInv
<1> QED BY <1>1, RxInvariant, PTL

\* A stream cut chain by chain is the whole stream.
LEMMA PartsWhole ==
  ASSUME TypeOK, NEW c \in Conns, Parts(c)
  PROVE  got[c] \o OnTheWay(c) = Buffers(lives[c], sent[c])
<1>1. PICK g \in Seq(Numbered), h \in Seq(Numbered), r \in Seq(Numbered) :
        g = got[c] /\ h = InHand(c) /\ r = backlog[c]
  BY TypedConn
<1>2. PICK s \in Seq(Seq(Numbered)), t \in Seq(Seq(Numbered)) :
        s = cache[c] /\ t = rxRing[c]
  BY TypedConn
<1>3. PICK n \in Nat : n = sent[c]
  BY TypedConn
<1>4. PICK w : w = lives[c]
  OBVIOUS
<1>5. PICK b : Pieces(g, h, s, t, r, b, w, n)
  BY <1>1, <1>2, <1>3, <1>4, Zenon DEF Pieces, Parts, Got, Hand, Line, Lined, Pending
<1>6. AllOf(g, h, s, t, r, w, n)
  BY <1>5, Whole
<1> QED BY <1>1, <1>2, <1>3, <1>4, <1>6, Zenon DEF OnTheWay, AllOf

\* StreamIntact holds in every reachable state, for any number of connections,
\* sizes of rx_ring and local_cache, burst and lives of an index: what arrived is
\* received, in hand, in local_cache, in rx_ring or in the receive queue, once and
\* in order, though the free count and the rings' contents are read at different
\* moments; no ring overflows and no datagram is joined with another.
THEOREM RxStreamStaysIntact == Spec => []StreamIntact
<1>1. ASSUME RxInv PROVE StreamIntact
  <2> USE <1>1 DEF RxInv
  <2>1. ASSUME NEW c \in Conns, c \in open, attached[c]
        PROVE  got[c] \o OnTheWay(c) = Buffers(lives[c], sent[c])
    <3>1. Parts(c)
      BY <2>1 DEF StreamParts
    <3> QED BY <3>1, PartsWhole
  <2>2. ASSUME NEW c \in open
        PROVE  /\ c \in datagram => \A i \in DOMAIN rxRing[c] : Len(rxRing[c][i]) = 1
               /\ Len(rxRing[c]) < RxRingSize /\ Len(cache[c]) < CacheSize
    <3>1. BoundSound(c)
      BY TypeGroups DEF TypeApp, BoundsSound
    <3> QED BY <3>1 DEF BoundSound, Single, Waiting, Kept
  <2>3. open \subseteq Conns
    BY TypeGroups DEF TypeApp
  <2> QED BY <2>1, <2>2, <2>3, Zenon DEF StreamIntact
<1> QED BY <1>1, RxInvariant, PTL

---------------------------------------------------------------------------
(* The refinement of Stream.                                               *)

LEMMA Stutters ==
  ASSUME UNCHANGED <<lives, sent, got>>
  PROVE  UNCHANGED ST!svars
  BY DEF ST!svars

\* More has arrived.
LEMMA Gives ==
  ASSUME TypeOK, NEW c \in Conns, NEW n \in Nat, sent' = [sent EXCEPT ![c] = n], n >= sent[c],
         UNCHANGED <<lives, got>>
  PROVE  ST!SNext \/ UNCHANGED ST!svars
<1>1. sent \in [Conns -> 0 .. MaxData] /\ sent[c] \in Nat
  BY TypeGroups, TypedConn DEF TypeBufs
<1>2. sent'[c] = n /\ \A d \in Conns \ {c} : sent'[d] = sent[d]
  BY <1>1
<1>3. CASE n = sent[c]
  <2>1. sent' = sent
    BY <1>1, <1>3
  <2> QED BY <2>1, Stutters
<1>4. CASE n > sent[c]
  <2>1. ST!Give(c)
    BY <1>2, <1>4 DEF ST!Give, ST!Others
  <2> QED BY <2>1 DEF ST!SNext
<1> QED BY <1>1, <1>3, <1>4

LEMMA ReadableGives ==
  ASSUME RxInv, NEW c \in Conns, SockReadable(c)
  PROVE  ST!SNext \/ UNCHANGED ST!svars
<1>1. PICK k \in Nat : k = sent[c]
  BY TypedConn DEF RxInv
<1>2. PICK n \in Nat : n = k + 1 /\ n >= k
  OBVIOUS
<1>3. sent' = [sent EXCEPT ![c] = n] /\ UNCHANGED <<lives, got>>
  BY <1>1, <1>2 DEF SockReadable, appVars
<1>4. TypeOK /\ n >= sent[c]
  BY <1>1, <1>2 DEF RxInv
<1> QED BY <1>2, <1>3, <1>4, Gives

LEMMA CommandGives ==
  ASSUME RxInv, ExecCommand
  PROVE  ST!SNext \/ UNCHANGED ST!svars
<1>1. UNCHANGED <<lives, got>>
  BY DEF ExecCommand, appVars
<1>2. PICK c \in Conns : \/ ExecOpen(c) \/ ExecSetRing(c) \/ ExecSelect(c)
                         \/ ExecRxKick(c) \/ ExecClose(c)
  BY ExecCases DEF RxInv
<1>3. CASE ExecSetRing(c)
  <2>1. PICK n \in 0 .. MaxData : sent' = [sent EXCEPT ![c] = n]
    BY <1>3 DEF ExecSetRing
  <2>2. sent[c] = 0
    <3>1. 1 \in DOMAIN commands /\ commands[1].op = "SET_RING" /\ commands[1].conn = c
      BY <1>3, HeadOfCommands DEF ExecSetRing, RxInv
    <3> QED BY <3>1 DEF RxInv, CommandsSound, Orderly, Attaches
  <2>3. n \in Nat /\ n >= sent[c]
    BY <2>2, Sizes
  <2> QED BY <1>1, <2>1, <2>3, Gives DEF RxInv
<1>4. CASE ExecOpen(c) \/ ExecSelect(c) \/ ExecRxKick(c) \/ ExecClose(c)
  <2>1. sent' = sent
    BY <1>4 DEF ExecOpen, ExecSelect, ExecRxKick, ExecClose
  <2> QED BY <1>1, <2>1, Stutters
<1> QED BY <1>2, <1>3, <1>4

LEMMA KickDelivers ==
  ASSUME RxInv, RxKick
  PROVE  ST!SNext \/ UNCHANGED ST!svars
<1>1. UNCHANGED <<lives, sent, cache, rxRing, backlog>>
  BY DEF RxKick, svcVars
<1>2. PICK c \in Conns : c = cur /\ c \in open /\ got' = [got EXCEPT ![c] = got[c] \o held]
  BY TypeGroups DEF RxInv, TypeApp, RxKick, AppSound
<1>3. got \in [Conns -> Seq(Numbered)] /\ got[c] \in Seq(Numbered) /\ held \in Seq(Numbered)
  BY TypeGroups, TypedConn DEF RxInv, TypeBufs
<1>4. got'[c] = got[c] \o held /\ \A d \in Conns \ {c} : got'[d] = got[d]
  BY <1>2, <1>3
<1>5. CASE held = <<>>
  <2>1. got[c] \o held = got[c]
    BY <1>3, <1>5
  <2>2. got' = got
    BY <1>2, <1>3, <2>1
  <2> QED BY <1>1, <2>2, Stutters
<1>6. CASE held # <<>>
  <2>1. attached[c]
    BY <1>2, <1>6 DEF RxInv, ConnsSound, ConnSound, InHand
  <2>2. Returned(c)
    BY <1>1, <1>2, <1>4 DEF Returned, RxKick, InHand
  <2>3. PICK lg \in Nat, lg2 \in Nat :
          /\ lg = Len(got[c]) /\ lg2 = Len(got'[c]) /\ lg2 = lg + Len(held)
          /\ lg2 <= sent[c] /\ Run(got[c], lg, lives[c], 0) /\ Run(got'[c], lg2, lives[c], 0)
    BY <1>2, <2>1, <2>2, PartsReturn DEF RxInv
  <2>4. PICK lh \in Nat, n \in Nat : lh = Len(held) /\ lh > 0 /\ n = sent[c]
    <3>1. PICK l \in Nat : l = Len(held)
      BY <1>3, LenProperties
    <3>2. l # 0
      BY <1>3, <1>6, <3>1, EmptySeq
    <3>3. PICK n \in Nat : n = sent[c]
      BY TypedConn DEF RxInv
    <3>4. l > 0
      BY <3>2
    <3> QED BY <3>1, <3>3, <3>4, Zenon
  <2>5. lg2 = lg + lh /\ lg2 <= n
    BY <2>3, <2>4
  <2>6. lg2 \in lg + 1 .. n
    BY <2>4, <2>5
  <2>7. ASSUME NEW i \in 1 .. lg2 PROVE got'[c][i] = <<lives[c], i>> /\ i \in 1 .. n
    <3>1. 0 + i = i /\ i \in 1 .. n
      BY <2>5
    <3>2. got'[c][i] = <<lives[c], 0 + i>>
      BY <2>3 DEF Run
    <3> QED BY <3>1, <3>2, Zenon
  <2>8. ASSUME NEW i \in 1 .. lg PROVE got'[c][i] = got[c][i]
    <3>1. i \in 1 .. lg2 /\ 0 + i = i
      BY <2>4, <2>5
    <3>2. got[c][i] = <<lives[c], 0 + i>> /\ got'[c][i] = <<lives[c], 0 + i>>
      BY <2>3, <3>1 DEF Run
    <3> QED BY <3>2
  <2>9. ST!Deliver(c)
    <3>1. Len(got'[c]) \in Len(got[c]) + 1 .. sent[c]
      BY <2>3, <2>4, <2>6, Zenon
    <3>2. \A i \in 1 .. Len(got[c]) : got'[c][i] = got[c][i]
      BY <2>3, <2>8, Zenon
    <3>3. \A i \in 1 .. Len(got'[c]) : \E k \in 1 .. sent[c] :
            /\ got'[c][i] = <<lives[c], k>>
            /\ IF c \notin {} THEN k = i ELSE i > 1 => k > got'[c][i - 1][2]
      BY <2>3, <2>4, <2>7, Zenon
    <3> QED BY <1>1, <1>4, <3>1, <3>2, <3>3, Zenon DEF ST!Deliver, ST!Unit, ST!Others
  <2> QED BY <2>9 DEF ST!SNext
<1> QED BY <1>5, <1>6

LEMMA OpenRestarts ==
  ASSUME RxInv, NEW c \in Conns, Open(c)
  PROVE  ST!SNext
<1>1. /\ lives \in [Conns -> 1 .. MaxLives] /\ got \in [Conns -> Seq(Numbered)]
      /\ sent \in [Conns -> 0 .. MaxData]
  BY TypeGroups DEF RxInv, TypeBufs
<1>2. /\ lives'[c] = lives[c] + 1 /\ got'[c] = <<>> /\ sent'[c] = 0
      /\ \A d \in Conns \ {c} : lives'[d] = lives[d] /\ got'[d] = got[d] /\ sent'[d] = sent[d]
  BY <1>1 DEF Open
<1>3. ST!Restart(c)
  BY <1>2 DEF ST!Restart, ST!Others
<1> QED BY <1>3 DEF ST!SNext

LEMMA RxSimulates ==
  ASSUME RxInv, [Next]_vars
  PROVE  [ST!SNext]_(ST!svars)
<1>1. CASE Service
  <2> USE DEF appVars
  <2>1. CASE ExecCommand
    BY <2>1, CommandGives
  <2>2. ASSUME NEW c \in Conns, ProcessRxReady(c) PROVE UNCHANGED ST!svars
    BY <2>2, Stutters DEF ProcessRxReady
  <2>3. CASE SubmitRxBuf \/ LoopEnds
    BY <2>3, Stutters DEF SubmitRxBuf, LoopEnds
  <2>4. CASE MarkReadable
    BY <2>4, Stutters DEF MarkReadable, WakeUp
  <2>5. CASE PostReadable
    BY <2>5, Stutters DEF PostReadable, WakeUp
  <2> QED BY <1>1, <2>1, <2>2, <2>3, <2>4, <2>5 DEF Service
<1>2. CASE App
  <2> USE DEF svcVars
  <2>1. CASE RxKick
    BY <2>1, KickDelivers
  <2>2. CASE SelectCached \/ SelectDequeue \/ SelectEmpty \/ SelectSleep \/ SelectTimeout
    BY <2>2, Stutters DEF SelectCached, SelectDequeue, SelectEmpty, SelectSleep, SelectTimeout
  <2>3. ASSUME NEW c \in Conns, DequeueLocal(c) PROVE UNCHANGED ST!svars
    BY <2>3, Stutters DEF DequeueLocal
  <2>4. CASE DequeueBurst \/ CloseFlush
    BY <2>4, Stutters DEF DequeueBurst, CloseFlush
  <2> QED BY <1>2, <2>1, <2>2, <2>3, <2>4 DEF App
<1>3. ASSUME NEW c \in Conns, SockReadable(c) \/ PeerFin(c) \/ Close(c) \/ Open(c)
      PROVE  [ST!SNext]_(ST!svars)
  <2>1. CASE SockReadable(c)
    BY <2>1, ReadableGives
  <2>4. CASE PeerFin(c)
    BY <2>4, Stutters DEF PeerFin, appVars
  <2>2. CASE Close(c)
    BY <2>2, Stutters DEF Close, svcVars
  <2>3. CASE Open(c)
    BY <2>3, OpenRestarts
  <2> QED BY <1>3, <2>1, <2>2, <2>3, <2>4
<1>4. CASE UNCHANGED vars
  BY <1>4, Stutters DEF vars, svcVars, appVars
<1> QED BY <1>1, <1>2, <1>3, <1>4 DEF Next

\* The receive path implements a stream for any number of connections, ring sizes
\* and lives of an index: what ipaugenblick_receive returns arrived for this
\* connection, in this life of its index, comes in order and at most once, a close
\* and a new use of the index at any moment included.
THEOREM RxImplementsStream == Spec => ImplementsStream
<1>1. Init => ST!SInit
  BY DEF Init, ST!SInit
<1>2. RxInv /\ [Next]_vars => [ST!SNext]_(ST!svars)
  BY RxSimulates
<1> QED BY <1>1, <1>2, RxInvariant, PTL DEF Spec, ImplementsStream, ST!SSpec

---------------------------------------------------------------------------
(* What is readable is announced.                                          *)

\* The application has an event of the connection, or will not forget it.
Listed(c) == \E i \in DOMAIN readyRing : readyRing[i] = c
Known(c) == Listed(c) \/ c \in ready \/ (level /\ c \in mask)

\* The service has set the connection's flag and is about to post its event, or will
\* look at the flag.
Posting(c) == svc.step = "post" /\ svc.conn = c
Marking(c) ==
  svc.conn = c /\ (svc.step \in {"mark", "post"} \/ (svc.step = "read" /\ svc.final = 1))

\* A set flag stands for an event, and so does a chain in rx_ring.  A receive under
\* way counts on events only: it cleared the flag before it looked at rx_ring, and
\* once it has found nothing select will not return the connection without a new one.
Noticed(c) ==
  /\ readReady[c] => Known(c) \/ Posting(c)
  /\ rxRing[c] # <<>> /\ parent[c] => Known(c) \/ Marking(c)
  /\ at \in {"fill", "kick"} /\ cur = c /\ readReady[c] => Listed(c) \/ Posting(c)
  /\ at = "kick" /\ cur = c /\ held = <<>> /\ rxRing[c] # <<>> /\ parent[c] =>
       Listed(c) \/ Marking(c)

Filled(s) == \A i \in DOMAIN s : s[i] # <<>>
ChainsFilled == \A c \in Conns : Filled(rxRing[c]) /\ Filled(cache[c])

ReadySound ==
  /\ at \in {"select", "presleep", "sleep"} => ready = {}
  /\ ready \subseteq mask

NoticeInv == (\A c \in open : Noticed(c)) /\ ChainsFilled /\ ReadySound

\* The two conditions: the event of a connection fits into ready_connections unless
\* it has one there already, and an index is given out again with its flag clear.
EventFits ==
  svc.step = "post" /\ RingFull(readyRing, ReadyRingSize) => Listed(svc.conn)
FlagIsFresh == \A c \in open' \ open : ~readReady[c]

LEMMA NoticeSame ==
  ASSUME NEW c, Noticed(c), rxRing'[c] = rxRing[c], readReady'[c] = readReady[c],
         parent'[c] = parent[c], UNCHANGED <<readyRing, svc, ready, level, mask, at, cur, held>>
  PROVE  Noticed(c)'
  BY DEF Noticed, Listed, Known, Posting, Marking

LEMMA FilledSeqs ==
  ASSUME NEW S, NEW s \in Seq(S), Filled(s)
  PROVE  /\ s # <<>> => Filled(Tail(s)) /\ Head(s) # <<>>
         /\ \A x \in S : x # <<>> => Filled(Append(s, x))
         /\ \A t \in Seq(S) : Filled(t) => Filled(s \o t)
         /\ \A m, n \in Nat : m >= 1 /\ n <= Len(s) => Filled(SubSeq(s, m, n))
<1>1. s # <<>> => Filled(Tail(s)) /\ Head(s) # <<>>
  BY DEF Filled
<1>2. ASSUME NEW x \in S, x # <<>> PROVE Filled(Append(s, x))
  BY <1>2 DEF Filled
<1>3. ASSUME NEW t \in Seq(S), Filled(t) PROVE Filled(s \o t)
  <2>1. \A i \in DOMAIN s : s[i] # <<>>
    BY DEF Filled
  <2>2. \A i \in DOMAIN t : t[i] # <<>>
    BY <1>3 DEF Filled
  <2> SUFFICES ASSUME NEW i \in DOMAIN (s \o t) PROVE (s \o t)[i] # <<>>
    BY DEF Filled
  <2>3. /\ Len(s) \in Nat /\ Len(t) \in Nat /\ i \in 1 .. Len(s) + Len(t)
        /\ (s \o t)[i] = IF i <= Len(s) THEN s[i] ELSE t[i - Len(s)]
    BY ConcatProperties
  <2>4. CASE i <= Len(s)
    BY <2>1, <2>3, <2>4
  <2>5. CASE ~(i <= Len(s))
    <3>1. i - Len(s) \in DOMAIN t
      BY <2>3, <2>5
    <3> QED BY <2>2, <2>3, <2>5, <3>1
  <2> QED BY <2>4, <2>5
<1>4. ASSUME NEW m \in Nat, NEW n \in Nat, m >= 1, n <= Len(s) PROVE Filled(SubSeq(s, m, n))
  <2>1. PICK l \in Nat : l = Len(s) /\ \A i \in 1 .. l : s[i] # <<>>
    BY DEF Filled
  <2>2. PICK u : u = SubSeq(s, m, n)
    OBVIOUS
  <2>3. \A i \in DOMAIN u : i + m - 1 \in 1 .. l /\ u[i] = s[i + m - 1]
    BY <1>4, <2>1, <2>2
  <2> QED BY <2>1, <2>2, <2>3 DEF Filled
<1> QED BY <1>1, <1>2, <1>3, <1>4
LEMMA NoticeInit == Init => NoticeInv
<1> SUFFICES ASSUME Init PROVE NoticeInv
  OBVIOUS
<1>1. Filled(<<>>)
  BY DEF Filled
<1>2. ChainsFilled
  BY <1>1 DEF Init, ChainsFilled
<1>3. ReadySound
  BY DEF Init, ReadySound
<1>4. \A c \in open : Noticed(c)
  BY DEF Init, Noticed
<1> QED BY <1>2, <1>3, <1>4 DEF NoticeInv

\* The service takes up a connection: nobody is being marked.
LEMMA NoticeTurns ==
  ASSUME NEW c, Noticed(c), svc = Idle, rxRing'[c] = rxRing[c], readReady'[c] = readReady[c],
         parent'[c] = parent[c] \/ rxRing[c] = <<>> \/ Marking(c)',
         UNCHANGED <<readyRing, ready, level, mask, at, cur, held>>
  PROVE  Noticed(c)'
<1>1. svc.step = "idle"
  BY DEF Idle
<1>2. ~Posting(c) /\ ~Marking(c)
  BY <1>1 DEF Posting, Marking
<1>3. Listed(c)' = Listed(c) /\ Known(c)' = Known(c)
  BY DEF Listed, Known
<1>4. readReady[c] => Known(c)
  BY <1>2 DEF Noticed
<1>5. rxRing[c] # <<>> /\ parent[c] => Known(c)
  BY <1>2 DEF Noticed
<1>6. at \in {"fill", "kick"} /\ cur = c /\ readReady[c] => Listed(c)
  BY <1>2 DEF Noticed
<1>7. at = "kick" /\ cur = c /\ held = <<>> /\ rxRing[c] # <<>> /\ parent[c] => Listed(c)
  BY <1>2 DEF Noticed
<1> QED BY <1>3, <1>4, <1>5, <1>6, <1>7 DEF Noticed

LEMMA NoticeCommand ==
  ASSUME RxInv, NoticeInv, ExecCommand
  PROVE  NoticeInv'
<1> USE DEF RxInv
<1>0. TypeFlags /\ TypeBufs /\ TypeSvc
  BY TypeGroups
<1>1. PICK c \in Conns : \/ ExecOpen(c) \/ ExecSetRing(c) \/ ExecSelect(c)
                         \/ ExecRxKick(c) \/ ExecClose(c)
  BY ExecCases
<1>2. /\ svc = Idle /\ UNCHANGED <<readReady, readyRing, level, open, cache, mask, ready, at, cur, held>>
  BY DEF ExecCommand, appVars
<1>3. ReadySound'
  BY <1>2 DEF NoticeInv, ReadySound
<1>4. CASE ExecOpen(c)
  <2>1. ~attached[c]
    <3>1. Executes("OPEN", c)
      BY <1>4 DEF ExecOpen
    <3>2. 1 \in DOMAIN commands /\ commands[1].op = "OPEN" /\ commands[1].conn = c
      BY <3>1, HeadOfCommands
    <3> QED BY <3>2 DEF CommandsSound, Orderly, Attaches
  <2>2. rxRing[c] = <<>>
    BY <2>1 DEF ConnsSound, ConnSound
  <2>3. rxRing' = rxRing /\ \A d \in Conns : d # c => parent'[d] = parent[d]
    BY <1>0, <1>4 DEF ExecOpen, TypeFlags
  <2>4. ASSUME NEW d \in open PROVE Noticed(d)'
    <3>1. d \in Conns
      BY <1>0, TypeGroups DEF TypeApp
    <3> QED BY <1>2, <2>2, <2>3, <2>4, <3>1, NoticeTurns DEF NoticeInv
  <2>5. ChainsFilled'
    BY <1>2, <2>3 DEF NoticeInv, ChainsFilled
  <2> QED BY <1>2, <1>3, <2>4, <2>5 DEF NoticeInv
<1>5. CASE ExecSetRing(c) \/ ExecRxKick(c)
  <2>1. rxRing' = rxRing /\ parent' = parent
    BY <1>5 DEF ExecSetRing, ExecRxKick
  <2>2. \A d \in open : Noticed(d)'
    BY <1>2, <2>1, NoticeTurns DEF NoticeInv
  <2>3. ChainsFilled'
    BY <1>2, <2>1 DEF NoticeInv, ChainsFilled
  <2> QED BY <1>2, <1>3, <2>2, <2>3 DEF NoticeInv
<1>6. CASE ExecSelect(c)
  <2>1. rxRing' = rxRing /\ \A d \in Conns : d # c => parent'[d] = parent[d]
    BY <1>0, <1>6 DEF ExecSelect, TypeFlags
  <2>2. Marking(c)'
    BY <1>6 DEF ExecSelect, DataAvailable, Marking
  <2>3. ASSUME NEW d \in open PROVE Noticed(d)'
    <3>1. d \in Conns
      BY <1>0, TypeGroups DEF TypeApp
    <3> QED BY <1>2, <2>1, <2>2, <2>3, <3>1, NoticeTurns DEF NoticeInv
  <2>4. ChainsFilled'
    BY <1>2, <2>1 DEF NoticeInv, ChainsFilled
  <2> QED BY <1>2, <1>3, <2>3, <2>4 DEF NoticeInv
<1>7. CASE ExecClose(c)
  <2>1. c \notin open
    <3>1. Executes("CLOSE", c)
      BY <1>7 DEF ExecClose
    <3>2. 1 \in DOMAIN commands /\ commands[1].op = "CLOSE" /\ commands[1].conn = c
      BY <3>1, HeadOfCommands
    <3> QED BY <3>2 DEF CommandsSound, Orderly
  <2>2. /\ \A d \in Conns : d # c => parent'[d] = parent[d] /\ rxRing'[d] = rxRing[d]
        /\ rxRing'[c] = <<>>
    BY <1>0, <1>7 DEF ExecClose, TypeFlags, TypeBufs
  <2>3. ASSUME NEW d \in open PROVE Noticed(d)'
    <3>1. d \in Conns /\ d # c
      BY <1>0, <2>1, TypeGroups DEF TypeApp
    <3> QED BY <1>2, <2>2, <2>3, <3>1, NoticeTurns DEF NoticeInv
  <2>4. ChainsFilled'
    <3>1. Filled(<<>>)
      BY DEF Filled
    <3> QED BY <1>2, <2>2, <3>1 DEF NoticeInv, ChainsFilled
  <2> QED BY <1>2, <1>3, <2>3, <2>4 DEF NoticeInv
<1> QED BY <1>1, <1>4, <1>5, <1>6, <1>7

LEMMA NoticeReads ==
  ASSUME RxInv, NoticeInv, (\E c \in Conns : ProcessRxReady(c)) \/ LoopEnds
  PROVE  NoticeInv'
<1>1. UNCHANGED <<rxRing, parent, readReady, readyRing, level, open, cache, mask, ready, at, cur, held>>
  BY DEF ProcessRxReady, LoopEnds, shared, appVars
<1>2. ReadySound' /\ ChainsFilled'
  BY <1>1 DEF NoticeInv, ReadySound, ChainsFilled
<1>3. CASE \E c \in Conns : ProcessRxReady(c)
  <2>1. svc = Idle
    BY <1>3 DEF ProcessRxReady
  <2> QED BY <1>1, <1>2, <2>1, NoticeTurns DEF NoticeInv
<1>4. CASE LoopEnds
  <2>1. svc \in SvcRecs /\ svc.step = "read"
    BY <1>4, TypeGroups DEF RxInv, TypeSvc, LoopEnds
  <2>2. PICK z : z = IF svc.free = 0 THEN 1 ELSE 0
    OBVIOUS
  <2>3. /\ z \in {0, 1} /\ svc.final \in {0, 1} /\ svc.conn \in Conns \cup {NONE}
    BY <2>1, <2>2 DEF SvcRecs
  <2>4. svc' = IF svc.final + z = 0 THEN Idle ELSE [svc EXCEPT !.step = "mark", !.marks = svc.final + z]
    BY <1>4, <2>2 DEF LoopEnds
  <2>5. svc.final = 1 => svc'.step = "mark" /\ svc'.conn = svc.conn
    BY <2>1, <2>3, <2>4 DEF SvcRecs
  <2>6. \A c : ~Posting(c) /\ (Marking(c) => Marking(c)')
    BY <2>1, <2>5 DEF Posting, Marking
  <2>7. \A c : Listed(c)' = Listed(c) /\ Known(c)' = Known(c)
    BY <1>1 DEF Listed, Known
  <2>8. ASSUME NEW c \in open PROVE Noticed(c)'
    BY <1>1, <2>6, <2>7, <2>8 DEF NoticeInv, Noticed
  <2> QED BY <1>1, <1>2, <2>8 DEF NoticeInv
<1> QED BY <1>3, <1>4

LEMMA NoticeSubmits ==
  ASSUME RxInv, NoticeInv, SubmitRxBuf
  PROVE  NoticeInv'
<1>0. TypeFlags /\ TypeBufs /\ TypeSvc /\ TypeApp
  BY TypeGroups DEF RxInv
<1>1. UNCHANGED <<parent, readReady, readyRing, level, open, cache, mask, ready, at, cur, held>>
  BY DEF SubmitRxBuf, appVars
<1>2. PICK c \in Conns : c = svc.conn /\ svc.step = "read" /\ backlog[c] # <<>>
  BY DEF RxInv, SvcSound, SubmitRxBuf
<1>3. PICK x : x = Recvmsg(c) /\ rxRing' = [rxRing EXCEPT ![c] = Append(rxRing[c], x)]
  BY <1>2 DEF SubmitRxBuf
<1>4. x \in Seq(Numbered) /\ x # <<>>
  <2>1. backlog[c] \in Seq(Numbered)
    BY <1>0 DEF TypeBufs
  <2>2. Head(backlog[c]) \in Numbered
    BY <1>2, <2>1
  <2> QED BY <1>2, <1>3, <2>1, <2>2 DEF Recvmsg
<1>5. rxRing[c] \in Seq(Seq(Numbered))
  BY <1>0 DEF TypeBufs
<1>6. rxRing'[c] = Append(rxRing[c], x) /\ \A d \in Conns : d # c => rxRing'[d] = rxRing[d]
  BY <1>0, <1>3 DEF TypeBufs
<1>7. ChainsFilled'
  <2>1. Filled(rxRing[c])
    BY DEF NoticeInv, ChainsFilled
  <2>2. Filled(rxRing'[c])
    BY <1>4, <1>5, <1>6, <2>1, FilledSeqs
  <2>3. ASSUME NEW d \in Conns PROVE Filled(rxRing'[d]) /\ Filled(cache'[d])
    BY <1>1, <1>6, <2>2, <2>3 DEF NoticeInv, ChainsFilled
  <2> QED BY <2>3 DEF ChainsFilled
<1>8. ReadySound'
  BY <1>1 DEF NoticeInv, ReadySound
<1>9. svc'.step = "mark" /\ svc'.conn = c
  BY <1>0, <1>2 DEF SubmitRxBuf, TypeSvc, SvcRecs
<1>10. \A d : Listed(d)' = Listed(d) /\ Known(d)' = Known(d)
  BY <1>1 DEF Listed, Known
<1>11. ASSUME NEW d \in open PROVE Noticed(d)'
  <2>1. ~Posting(d) /\ (Marking(d) => d = c) /\ Marking(c)'
    BY <1>2, <1>9 DEF Posting, Marking
  <2>2. d \in Conns
    BY <1>0, <1>11 DEF TypeApp
  <2> QED BY <1>1, <1>6, <1>10, <1>11, <2>1, <2>2 DEF NoticeInv, Noticed
<1> QED BY <1>1, <1>7, <1>8, <1>11 DEF NoticeInv

LEMMA NoticeMarks ==
  ASSUME RxInv, NoticeInv, EventFits, MarkReadable \/ PostReadable
  PROVE  NoticeInv'
<1>0. TypeFlags /\ TypeBufs /\ TypeSvc /\ TypeApp /\ TypeLists
  BY TypeGroups DEF RxInv
<1>1. UNCHANGED <<parent, rxRing, level, open, cache, mask, ready, cur, held>>
  BY DEF MarkReadable, PostReadable, appVars, WakeUp
<1>2. at' = at \/ (at = "sleep" /\ at' = "select")
  BY DEF MarkReadable, PostReadable, appVars, WakeUp
<1>3. PICK c \in Conns : c = svc.conn /\ svc.step \in {"mark", "post"}
  BY DEF RxInv, SvcSound, MarkReadable, PostReadable
<1>4. ChainsFilled' /\ ReadySound'
  BY <1>1, <1>2 DEF NoticeInv, ChainsFilled, ReadySound
<1>5. /\ at' \in {"fill", "kick"} => at' = at
      /\ at' = "kick" => at = "kick"
  BY <1>2
<1>6. ASSUME NEW d \in open, d # c,
             Listed(d) => Listed(d)', readReady'[d] = readReady[d]
      PROVE  Noticed(d)'
  <2>1. ~Posting(d) /\ ~Marking(d)
    BY <1>3, <1>6 DEF Posting, Marking
  <2>2. Known(d) => Known(d)'
    BY <1>1, <1>6 DEF Known
  <2> QED BY <1>1, <1>2, <1>6, <2>1, <2>2 DEF NoticeInv, Noticed
<1>7. CASE MarkReadable /\ ~parent[c]
  <2>1. UNCHANGED <<readReady, readyRing>> /\ svc.step = "mark"
    BY <1>3, <1>7 DEF MarkReadable
  <2>2. \A d : Listed(d)' = Listed(d) /\ Known(d)' = Known(d)
    BY <1>1, <2>1 DEF Listed, Known
  <2>3. Noticed(c) => Noticed(c)'
    <3>1. ~Posting(c)
      BY <2>1 DEF Posting
    <3> QED BY <1>1, <1>2, <1>7, <2>1, <2>2, <3>1 DEF Noticed
  <2>4. \A d \in open : Noticed(d)'
    BY <1>6, <2>1, <2>2, <2>3 DEF NoticeInv
  <2> QED BY <1>1, <1>4, <2>4 DEF NoticeInv
<1>8. CASE MarkReadable /\ parent[c] /\ readReady[c]
  <2>1. UNCHANGED <<readReady, readyRing>> /\ svc.step = "mark"
    BY <1>3, <1>8 DEF MarkReadable
  <2>2. \A d : Listed(d)' = Listed(d) /\ Known(d)' = Known(d)
    BY <1>1, <2>1 DEF Listed, Known
  <2>3. Noticed(c) => Noticed(c)'
    <3>1. ~Posting(c)
      BY <2>1 DEF Posting
    <3> QED BY <1>1, <1>2, <1>8, <2>1, <2>2, <3>1 DEF Noticed
  <2>4. \A d \in open : Noticed(d)'
    BY <1>6, <2>1, <2>2, <2>3 DEF NoticeInv
  <2> QED BY <1>1, <1>4, <2>4 DEF NoticeInv
<1>9. CASE MarkReadable /\ parent[c] /\ ~readReady[c]
  <2>1. /\ UNCHANGED <<readyRing>> /\ svc.step = "mark" /\ svc' = [svc EXCEPT !.step = "post"]
        /\ readReady' = [readReady EXCEPT ![c] = TRUE]
    BY <1>3, <1>9 DEF MarkReadable
  <2>2. \A d : Listed(d)' = Listed(d) /\ Known(d)' = Known(d)
    BY <1>1, <2>1 DEF Listed, Known
  <2>3. Posting(c)' /\ Marking(c)'
    BY <1>0, <1>3, <2>1 DEF Posting, Marking, TypeSvc, SvcRecs
  <2>4. Noticed(c)'
    BY <2>3 DEF Noticed
  <2>5. \A d \in Conns : d # c => readReady'[d] = readReady[d]
    BY <1>0, <2>1 DEF TypeFlags
  <2>6. \A d \in open : Noticed(d)'
    BY <1>0, <1>6, <2>2, <2>4, <2>5 DEF TypeApp
  <2> QED BY <1>1, <1>4, <2>6 DEF NoticeInv
<1>10. CASE PostReadable
  <2>1. UNCHANGED readReady
    BY <1>10 DEF PostReadable
  <2>2. \A d \in Conns : Listed(d) => Listed(d)'
    <3>1. CASE readyRing' = readyRing
      BY <3>1 DEF Listed
    <3>2. CASE readyRing' = Append(readyRing, c)
      <4>1. readyRing \in Seq(Conns)
        BY <1>0 DEF TypeLists
      <4>2. \A i \in DOMAIN readyRing : i \in DOMAIN readyRing' /\ readyRing'[i] = readyRing[i]
        BY <3>2, <4>1
      <4> QED BY <4>2 DEF Listed
    <3> QED BY <1>3, <1>10, <3>1, <3>2 DEF PostReadable
  <2>3. Listed(c)'
    <3>1. CASE RingFull(readyRing, ReadyRingSize)
      <4>1. readyRing' = readyRing /\ svc.step = "post"
        BY <1>10, <3>1 DEF PostReadable
      <4> QED BY <1>3, <3>1, <4>1 DEF EventFits, Listed
    <3>2. CASE ~RingFull(readyRing, ReadyRingSize)
      <4>1. readyRing' = Append(readyRing, c) /\ readyRing \in Seq(Conns)
        BY <1>0, <1>3, <1>10, <3>2 DEF PostReadable, TypeLists
      <4>2. Len(readyRing) + 1 \in DOMAIN readyRing' /\ readyRing'[Len(readyRing) + 1] = c
        BY <4>1
      <4> QED BY <4>2 DEF Listed
    <3> QED BY <3>1, <3>2
  <2>4. Noticed(c)'
    BY <2>3 DEF Noticed, Known
  <2>5. \A d \in open : Noticed(d)'
    BY <1>0, <1>6, <2>1, <2>2, <2>4 DEF TypeApp
  <2> QED BY <1>1, <1>4, <2>5 DEF NoticeInv
<1> QED BY <1>3, <1>7, <1>8, <1>9, <1>10 DEF MarkReadable
LEMMA NoticeSelects ==
  ASSUME RxInv, NoticeInv,
         SelectCached \/ SelectDequeue \/ SelectEmpty \/ SelectSleep \/ SelectTimeout
  PROVE  NoticeInv'
<1>0. TypeApp /\ TypeLists
  BY TypeGroups DEF RxInv
<1>1. UNCHANGED <<rxRing, readReady, parent, svc, level, open, cache, cur, held>>
  BY DEF SelectCached, SelectDequeue, SelectEmpty, SelectSleep, SelectTimeout, shared, svcVars
<1>2. /\ at \in {"select", "presleep", "sleep"} /\ ready = {} /\ ready \subseteq mask
      /\ at' \notin {"fill", "kick"}
  BY DEF SelectCached, SelectDequeue, SelectEmpty, SelectSleep, SelectTimeout, NoticeInv, ReadySound
<1>3. ChainsFilled'
  BY <1>1 DEF NoticeInv, ChainsFilled
<1>4. ReadySound'
  BY <1>2 DEF SelectCached, SelectDequeue, SelectEmpty, SelectSleep, SelectTimeout, ReadySound
<1>5. ASSUME NEW c \in open PROVE Known(c) => Known(c)'
  <2>1. CASE SelectCached
    BY <1>1, <1>2, <2>1 DEF SelectCached, Known, Listed, shared
  <2>2. CASE SelectDequeue
    <3>1. PICK s : s = {readyRing[i] : i \in DOMAIN readyRing} \cap open
      OBVIOUS
    <3>2. ready' = s /\ mask' = mask \cup s
      BY <2>2, <3>1 DEF SelectDequeue
    <3>3. Listed(c) => c \in s
      BY <1>5, <3>1 DEF Listed
    <3> QED BY <1>1, <1>2, <3>2, <3>3 DEF Known
  <2>3. CASE SelectEmpty \/ SelectSleep \/ SelectTimeout
    <3>1. UNCHANGED <<readyRing, ready, level, mask>>
      BY <2>3 DEF SelectEmpty, SelectSleep, SelectTimeout, shared
    <3> QED BY <3>1 DEF Known, Listed
  <2> QED BY <2>1, <2>2, <2>3
<1>6. \A c : Posting(c)' = Posting(c) /\ Marking(c)' = Marking(c)
  BY <1>1 DEF Posting, Marking
<1>7. ASSUME NEW c \in open PROVE Noticed(c)'
  BY <1>1, <1>2, <1>5, <1>6, <1>7 DEF NoticeInv, Noticed
<1> QED BY <1>1, <1>3, <1>4, <1>7 DEF NoticeInv

LEMMA NoticeDequeues ==
  ASSUME RxInv, NoticeInv, NEW c \in Conns, DequeueLocal(c)
  PROVE  NoticeInv'
<1>0. TypeFlags /\ TypeBufs /\ TypeApp
  BY TypeGroups DEF RxInv
<1>1. /\ UNCHANGED <<rxRing, parent, readyRing, svc, level, open, mask, ready>>
      /\ at = "run" /\ at' = "fill" /\ cur' = c /\ c \in ready
      /\ readReady' = [readReady EXCEPT ![c] = FALSE]
      /\ cache' = IF cache[c] = <<>> THEN cache ELSE [cache EXCEPT ![c] = Tail(cache[c])]
  BY DEF DequeueLocal, svcVars
<1>2. ReadySound'
  BY <1>1 DEF NoticeInv, ReadySound
<1>3. ChainsFilled'
  <2>1. cache[c] \in Seq(Seq(Numbered)) /\ Filled(cache[c])
    BY <1>0 DEF TypeBufs, NoticeInv, ChainsFilled
  <2>2. cache[c] # <<>> => Filled(Tail(cache[c]))
    BY <2>1, FilledSeqs
  <2>3. ASSUME NEW d \in Conns PROVE Filled(cache'[d])
    BY <1>0, <1>1, <2>2, <2>3 DEF TypeBufs, NoticeInv, ChainsFilled
  <2> QED BY <1>1, <2>3 DEF NoticeInv, ChainsFilled
<1>4. ~readReady'[c] /\ \A d \in Conns : d # c => readReady'[d] = readReady[d]
  BY <1>0, <1>1 DEF TypeFlags
<1>5. \A d : /\ Listed(d)' = Listed(d) /\ Known(d)' = Known(d)
             /\ Posting(d)' = Posting(d) /\ Marking(d)' = Marking(d)
  BY <1>1 DEF Listed, Known, Posting, Marking
<1>6. Known(c)'
  BY <1>1 DEF Known
<1>7. ASSUME NEW d \in open PROVE Noticed(d)'
  <2>1. CASE d = c
    BY <1>1, <1>4, <1>6, <2>1 DEF Noticed
  <2>2. CASE d # c
    <3>1. d \in Conns
      BY <1>0, <1>7 DEF TypeApp
    <3> QED BY <1>1, <1>4, <1>5, <1>7, <2>2, <3>1 DEF NoticeInv, Noticed
  <2> QED BY <2>1, <2>2
<1> QED BY <1>1, <1>2, <1>3, <1>7 DEF NoticeInv

\* A burst takes at least one chain if there is one and local_cache is empty.
LEMMA MovesSome ==
  ASSUME NEW ca \in Seq(Seq(Numbered)), ca = <<>>, NEW rx \in Seq(Seq(Numbered)), rx # <<>>
  PROVE  Lowest({Burst, Room(ca, CacheSize), Len(rx)}) >= 1
<1>1. PICK a \in Nat, b \in Nat, l \in Nat :
        /\ a = Burst /\ a >= 1 /\ b = Room(ca, CacheSize) /\ b >= 1 /\ l = Len(rx) /\ l >= 1
  <2>1. Burst \in Nat /\ Burst >= 1
    BY RxPathAssumption
  <2>2. Room(ca, CacheSize) \in Nat /\ Room(ca, CacheSize) >= 1
    BY Sizes DEF Room
  <2>3. Len(rx) \in Nat /\ Len(rx) >= 1
    OBVIOUS
  <2> QED BY <2>1, <2>2, <2>3
<1>2. \E n \in {a, b, l} : \A m \in {a, b, l} : n <= m
  OBVIOUS
<1>3. Lowest({a, b, l}) \in {a, b, l}
  BY <1>2, Zenon DEF Lowest
<1> QED BY <1>1, <1>3

LEMMA NoticeBursts ==
  ASSUME RxInv, NoticeInv, DequeueBurst
  PROVE  NoticeInv'
<1>0. TypeBufs /\ TypeApp
  BY TypeGroups DEF RxInv
<1>1. /\ UNCHANGED <<readReady, readyRing, parent, svc, level, open, mask, ready, cur>>
      /\ at = "fill" /\ at' = "kick"
  BY DEF DequeueBurst, svcVars
<1>2. PICK c \in Conns : c = cur /\ c \in open
  BY <1>0, <1>1 DEF TypeApp, RxInv, AppSound
<1>3. PICK ca \in Seq(Seq(Numbered)), rx \in Seq(Seq(Numbered)) :
        ca = cache[c] /\ rx = rxRing[c] /\ Filled(ca) /\ Filled(rx)
  BY TypedConn DEF RxInv, NoticeInv, ChainsFilled
<1>4. PICK lc \in Nat, lt \in Nat : Long(ca, lc) /\ Long(rx, lt) /\ lc < CacheSize
  BY <1>3, Lengths DEF RxInv, BoundsSound, BoundSound, Kept, Long
<1>5. PICK k \in Nat, m \in Nat : /\ k = Lowest({Burst, Room(ca, CacheSize), Len(rx)})
                                  /\ lt = k + m /\ lc + k < CacheSize
  BY <1>4, MovedCount
<1>m. PICK u \in Seq(Seq(Numbered)), g \in Seq(Seq(Numbered)) : Moves(ca, lc, rx, lt, k, m, u, g)
  <2>1. lt = k + m /\ k \in Nat /\ m \in Nat /\ lc \in Nat /\ lt \in Nat
    BY <1>4, <1>5
  <2>2. ca \in Seq(Seq(Numbered)) /\ rx \in Seq(Seq(Numbered)) /\ Long(ca, lc) /\ Long(rx, lt)
    BY <1>3, <1>4
  <2> QED BY <2>1, <2>2, LineMoves
<1>6. u = ca \o SubSeq(rx, 1, k) /\ g = SubSeq(rx, k + 1, lt) /\ Len(u) = lc + k
  BY <1>m DEF Moves
<1>7. lt = Len(rx)
  BY <1>4 DEF Long
<1>8. PICK f \in Seq(Seq(Numbered)) : f = SubSeq(rx, 1, k)
  <2>1. \E f \in Seq(Seq(Numbered)), h \in Seq(Seq(Numbered)) :
          /\ f = SubSeq(rx, 1, k) /\ h = SubSeq(rx, k + 1, lt)
          /\ Long(f, k) /\ Long(h, m) /\ Splits(rx, lt, f, k, h, m)
    BY <1>4, <1>5, Split
  <2> QED BY <2>1
<1>9. u \in Seq(Seq(Numbered)) /\ Filled(u) /\ Filled(g)
  <2>1. k <= lt /\ k + 1 \in Nat /\ k + 1 >= 1
    BY <1>5
  <2>2. \A i, j \in Nat : i >= 1 /\ j <= lt => Filled(SubSeq(rx, i, j))
    BY <1>3, <1>7, FilledSeqs
  <2>3. Filled(f)
    <3>1. 1 \in Nat /\ k \in Nat /\ 1 >= 1
      OBVIOUS
    <3> QED BY <1>8, <2>1, <2>2, <3>1
  <2>4. Filled(g)
    <3>1. lt <= lt
      OBVIOUS
    <3> QED BY <1>6, <2>1, <2>2, <3>1
  <2>5. Filled(ca \o f)
    BY <1>3, <1>8, <2>3, FilledSeqs
  <2> QED BY <1>6, <1>8, <2>4, <2>5
<1>10. /\ rxRing' = [rxRing EXCEPT ![c] = g]
       /\ \/ held = <<>> /\ u # <<>> /\ held' = Head(u) /\ cache' = [cache EXCEPT ![c] = Tail(u)]
          \/ ~(held = <<>> /\ u # <<>>) /\ held' = held /\ cache' = [cache EXCEPT ![c] = u]
  BY <1>2, <1>3, <1>5, <1>6, <1>7 DEF DequeueBurst
<1>11. /\ rxRing'[c] = g /\ (cache'[c] = u \/ (u # <<>> /\ cache'[c] = Tail(u)))
       /\ \A d \in Conns : d # c => rxRing'[d] = rxRing[d] /\ cache'[d] = cache[d]
  BY <1>0, <1>10 DEF TypeBufs
<1>12. ChainsFilled'
  <2>1. u # <<>> => Filled(Tail(u))
    BY <1>9, FilledSeqs
  <2>2. ASSUME NEW d \in Conns PROVE Filled(rxRing'[d]) /\ Filled(cache'[d])
    BY <1>9, <1>11, <2>1, <2>2 DEF NoticeInv, ChainsFilled
  <2> QED BY <2>2 DEF ChainsFilled
<1>13. held' = <<>> => rx = <<>>
  <2> SUFFICES ASSUME held' = <<>>, rx # <<>> PROVE FALSE
    OBVIOUS
  <2>1. u # <<>> => Head(u) # <<>>
    BY <1>9, FilledSeqs
  <2>2. u = <<>>
    BY <1>10, <2>1
  <2>3. lc = 0 /\ k = 0
    <3>1. lc + k = 0
      BY <1>6, <2>2
    <3> QED BY <3>1
  <2>4. ca = <<>> /\ k = 0
    BY <1>3, <1>4, <2>3, EmptySeq DEF Long
  <2>5. k >= 1
    BY <1>5, <2>4, MovesSome
  <2> QED BY <2>4, <2>5
<1>14. rx = <<>> => g = <<>>
  <2> SUFFICES ASSUME rx = <<>> PROVE g = <<>>
    OBVIOUS
  <2>1. lt = 0 /\ k = 0
    BY <1>5, <1>7
  <2> QED BY <1>6, <2>1
<1>15. ReadySound'
  BY <1>1 DEF NoticeInv, ReadySound
<1>16. \A d : /\ Listed(d)' = Listed(d) /\ Known(d)' = Known(d)
              /\ Posting(d)' = Posting(d) /\ Marking(d)' = Marking(d)
  BY <1>1 DEF Listed, Known, Posting, Marking
<1>17. ASSUME NEW d \in open PROVE Noticed(d)'
  <2>0. Noticed(d) /\ d \in Conns
    BY <1>0, <1>17 DEF NoticeInv, TypeApp
  <2>1. CASE d = c
    <3>1. rxRing'[d] # <<>> => rxRing[d] # <<>>
      BY <1>3, <1>11, <1>14, <2>1
    <3>2. held' = <<>> => rxRing'[d] = <<>>
      BY <1>11, <1>13, <1>14, <2>1
    <3> QED BY <1>1, <1>16, <2>0, <3>1, <3>2 DEF Noticed
  <2>2. CASE d # c
    BY <1>1, <1>2, <1>11, <1>16, <2>0, <2>2 DEF Noticed
  <2> QED BY <2>1, <2>2
<1> QED BY <1>1, <1>12, <1>15, <1>17 DEF NoticeInv

LEMMA NoticeKicks ==
  ASSUME RxInv, NoticeInv, RxKick
  PROVE  NoticeInv'
<1>0. TypeBufs /\ TypeApp
  BY TypeGroups DEF RxInv
<1>1. /\ UNCHANGED <<rxRing, cache, readReady, readyRing, parent, svc, level, open>>
      /\ at = "kick" /\ at' = (IF ready' = {} THEN "select" ELSE "run")
      /\ cur' = NONE
      /\ mask' = IF held # <<>> THEN mask ELSE mask \ {cur}
  BY DEF RxKick, svcVars
<1>2. PICK c \in Conns : c = cur /\ c \in open
  BY <1>0, <1>1 DEF TypeApp, RxInv, AppSound
<1>3. \/ held # <<>> /\ ready' = ready
      \/ (held = <<>> \/ level) /\ ready' = ready \ {c}
  BY <1>2 DEF RxKick
<1>4. ready \subseteq mask
  BY DEF NoticeInv, ReadySound
<1>5. ReadySound'
  BY <1>1, <1>2, <1>3, <1>4 DEF ReadySound
<1>6. ChainsFilled'
  BY <1>1 DEF NoticeInv, ChainsFilled
<1>7. \A d : Listed(d)' = Listed(d) /\ Posting(d)' = Posting(d) /\ Marking(d)' = Marking(d)
  BY <1>1 DEF Listed, Posting, Marking
<1>8. at' \notin {"fill", "kick"}
  BY <1>1
<1>9. ASSUME NEW d \in open PROVE Noticed(d)'
  <2>0. Noticed(d) /\ d \in Conns
    BY <1>0, <1>9 DEF NoticeInv, TypeApp
  <2>1. CASE d # c
    <3>1. Known(d) => Known(d)'
      BY <1>1, <1>2, <1>3, <1>7, <2>1 DEF Known
    <3> QED BY <1>1, <1>7, <1>8, <2>0, <3>1 DEF Noticed
  <2>2. CASE d = c /\ held # <<>>
    <3>1. Known(d) => Known(d)'
      BY <1>1, <1>2, <1>3, <1>4, <1>7, <2>2 DEF Known
    <3> QED BY <1>1, <1>7, <1>8, <2>0, <3>1 DEF Noticed
  <2>3. CASE d = c /\ held = <<>>
    <3>1. /\ readReady[d] => Listed(d) \/ Posting(d)
          /\ rxRing[d] # <<>> /\ parent[d] => Listed(d) \/ Marking(d)
      BY <1>1, <1>2, <2>0, <2>3 DEF Noticed
    <3>2. Listed(d) => Known(d)'
      BY <1>7 DEF Known
    <3> QED BY <1>1, <1>7, <1>8, <3>1, <3>2 DEF Noticed
  <2> QED BY <2>1, <2>2, <2>3
<1> QED BY <1>1, <1>5, <1>6, <1>9 DEF NoticeInv

LEMMA NoticeCloses ==
  ASSUME RxInv, NoticeInv, (\E c \in Conns : Close(c)) \/ CloseFlush
  PROVE  NoticeInv'
<1>0. TypeBufs /\ TypeApp
  BY TypeGroups DEF RxInv
<1>1. UNCHANGED <<readReady, readyRing, parent, svc, level, held>> /\ at' \notin {"fill", "kick"}
  BY DEF Close, CloseFlush, svcVars
<1>2. CASE \E c \in Conns : Close(c)
  <2>1. PICK c \in Conns : Close(c)
    BY <1>2
  <2>2. UNCHANGED <<rxRing, cache, mask, ready>> /\ open' = open \ {c} /\ at' = "flush"
    BY <2>1 DEF Close
  <2>3. \A d : /\ Listed(d)' = Listed(d) /\ Known(d)' = Known(d)
               /\ Posting(d)' = Posting(d) /\ Marking(d)' = Marking(d)
    BY <1>1, <2>2 DEF Listed, Known, Posting, Marking
  <2>4. ASSUME NEW d \in open' PROVE Noticed(d)'
    BY <1>1, <2>2, <2>3, <2>4 DEF NoticeInv, Noticed
  <2>5. ReadySound' /\ ChainsFilled'
    BY <2>2 DEF NoticeInv, ReadySound, ChainsFilled
  <2> QED BY <2>4, <2>5 DEF NoticeInv
<1>3. CASE CloseFlush
  <2>1. PICK c \in Conns : c = cur /\ c \notin open
    BY <1>3 DEF CloseFlush, RxInv, AppSound
  <2>2. /\ rxRing'[c] = <<>> /\ cache'[c] = <<>> /\ mask' = mask \ {c} /\ ready' = ready \ {c}
        /\ \A d \in Conns : d # c => rxRing'[d] = rxRing[d] /\ cache'[d] = cache[d]
        /\ at' = (IF ready' = {} THEN "select" ELSE "run") /\ open' = open
    BY <1>0, <1>3, <2>1 DEF CloseFlush, TypeBufs
  <2>3. ReadySound'
    BY <2>2 DEF NoticeInv, ReadySound
  <2>4. ChainsFilled'
    <3>1. Filled(<<>>)
      BY DEF Filled
    <3> QED BY <2>2, <3>1 DEF NoticeInv, ChainsFilled
  <2>5. ASSUME NEW d \in open PROVE Noticed(d)'
    <3>1. d # c /\ d \in Conns
      BY <1>0, <2>1, <2>5 DEF TypeApp
    <3>2. /\ Listed(d)' = Listed(d) /\ Known(d)' = Known(d)
          /\ Posting(d)' = Posting(d) /\ Marking(d)' = Marking(d)
      BY <1>1, <2>2, <3>1 DEF Listed, Known, Posting, Marking
    <3> QED BY <1>1, <2>2, <2>5, <3>1, <3>2 DEF NoticeInv, Noticed
  <2> QED BY <2>2, <2>3, <2>4, <2>5 DEF NoticeInv
<1> QED BY <1>2, <1>3

LEMMA NoticeOpens ==
  ASSUME RxInv, NoticeInv, FlagIsFresh, NEW c \in Conns, Open(c)
  PROVE  NoticeInv'
<1>1. /\ UNCHANGED <<rxRing, cache, readReady, readyRing, parent, svc, level, mask, ready, at, cur, held>>
      /\ open' = open \cup {c} /\ c \notin open /\ ~attached[c] /\ at \in {"run", "select"}
  BY DEF Open
<1>2. rxRing[c] = <<>>
  BY <1>1 DEF RxInv, ConnsSound, ConnSound
<1>3. ~readReady[c]
  BY <1>1 DEF FlagIsFresh
<1>4. Noticed(c)'
  BY <1>1, <1>2, <1>3 DEF Noticed
<1>5. ASSUME NEW d \in open PROVE Noticed(d)'
  BY <1>1, <1>5, NoticeSame DEF NoticeInv
<1>6. ReadySound' /\ ChainsFilled'
  BY <1>1 DEF NoticeInv, ReadySound, ChainsFilled
<1> QED BY <1>1, <1>4, <1>5, <1>6 DEF NoticeInv

LEMMA NoticeStep ==
  ASSUME RxInv, NoticeInv, EventFits, [Next]_vars, [FlagIsFresh]_vars
  PROVE  NoticeInv'
<1>1. CASE Service
  BY <1>1, NoticeCommand, NoticeReads, NoticeSubmits, NoticeMarks DEF Service
<1>2. CASE App
  BY <1>2, NoticeSelects, NoticeDequeues, NoticeBursts, NoticeKicks, NoticeCloses DEF App
<1>3. ASSUME NEW c \in Conns, SockReadable(c) \/ PeerFin(c) \/ Close(c) \/ Open(c)
      PROVE  NoticeInv'
  <2>1. CASE SockReadable(c) \/ PeerFin(c)
    <3>1. UNCHANGED <<rxRing, cache, readReady, readyRing, parent, svc, level, open, mask, ready, at,
                      cur, held>>
      BY <2>1 DEF SockReadable, PeerFin, shared, appVars
    <3>2. \A d \in open : Noticed(d)'
      BY <3>1, NoticeSame DEF NoticeInv
    <3>3. ReadySound' /\ ChainsFilled'
      BY <3>1 DEF NoticeInv, ReadySound, ChainsFilled
    <3> QED BY <3>1, <3>2, <3>3 DEF NoticeInv
  <2>2. CASE Close(c)
    BY <2>2, NoticeCloses
  <2>3. CASE Open(c)
    <3>1. FlagIsFresh
      BY <2>3 DEF Open, FlagIsFresh, vars, appVars
    <3> QED BY <2>3, <3>1, NoticeOpens
  <2> QED BY <1>3, <2>1, <2>2, <2>3
<1>4. CASE UNCHANGED vars
  <2>1. UNCHANGED <<rxRing, cache, readReady, readyRing, parent, svc, level, open, mask, ready, at,
                    cur, held>>
    BY <1>4 DEF vars, shared, svcVars, appVars
  <2>2. \A d \in open : Noticed(d)'
    BY <2>1, NoticeSame DEF NoticeInv
  <2>3. ReadySound' /\ ChainsFilled'
    BY <2>1 DEF NoticeInv, ReadySound, ChainsFilled
  <2> QED BY <2>1, <2>2, <2>3 DEF NoticeInv
<1> QED BY <1>1, <1>2, <1>3, <1>4 DEF Next

\* A connection with something in its rx_ring is in ready_connections, returned by
\* ipaugenblick_select, remembered in level mode, or being marked, for any number of
\* connections, ring sizes, lives and failing kicks, under two conditions the code does
\* not ensure: mark_readable never drops the event of a connection that has none in
\* ready_connections, and open_socket and accept get an index with read_ready_to_app
\* clear.
THEOREM RxReadableStaysAnnounced ==
  Spec /\ []EventFits /\ [][FlagIsFresh]_vars => []ReadableIsAnnounced
<1>1. RxInv /\ NoticeInv => ReadableIsAnnounced
  <2> SUFFICES ASSUME NoticeInv, NEW c \in open, rxRing[c] # <<>> PROVE Announced(c)
    BY DEF ReadableIsAnnounced
  <2>1. parent[c] => Known(c) \/ Marking(c)
    BY DEF NoticeInv, Noticed
  <2> QED BY <2>1 DEF Known, Listed, Marking, Announced
<1>2. RxInv /\ NoticeInv /\ EventFits /\ [Next]_vars /\ [FlagIsFresh]_vars => NoticeInv'
  BY NoticeStep
<1> QED BY <1>1, <1>2, NoticeInit, RxInvariant, PTL DEF Spec
=============================================================================
