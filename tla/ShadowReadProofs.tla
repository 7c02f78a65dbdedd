-------------------------- MODULE ShadowReadProofs --------------------------
(***************************************************************************)
(* The theorems about partial reads, for any buffers, chains and lengths   *)
(* asked for: what is left of a chain is announced, the lengths reported   *)
(* are those of the returned chain, the bytes come in order, and every     *)
(* buffer goes back once.  ShadowChainProofs has the lemmas about chains.  *)
(***************************************************************************)
EXTENDS ShadowChainProofs

\* The fields of a socket's shadow are all there, whatever they hold.
Fields == {"shadow", "next", "remainder", "delivered"}
IsSock(k) == DOMAIN k = Fields

AnnInv == events \in Nat /\ IsSock(sock) /\ RestIsAnnounced

-----------------------------------------------------------------------------
(* The operators of a read.                                                *)

LEMMA ShadowTaken ==
  ASSUME NEW m, NEW k, IsSock(k)
  PROVE  LET g == GetFromShadow(m, k) IN IsSock(g.k) /\ g.k.shadow = NULL
<1>1. CASE k.shadow = NULL
  BY <1>1 DEF GetFromShadow
<1>2. CASE k.shadow # NULL
  <2>1. GetFromShadow(m, k).k = [k EXCEPT !.shadow = NULL, !.next = NULL]
    BY <1>2 DEF GetFromShadow
  <2> QED BY <2>1 DEF IsSock, Fields
<1> QED BY <1>1, <1>2

LEMMA EndKeepsSock ==
  ASSUME NEW m, NEW k, IsSock(k), NEW s
  PROVE  IsSock(EndAt(m, k, s)) /\ \A t, left : IsSock(EndInside(m, t, left))
<1>1. IsSock(EndAt(m, k, s))
  BY DEF IsSock, Fields, EndAt
<1>2. ASSUME NEW t, NEW left PROVE IsSock(EndInside(m, t, left))
  BY DEF IsSock, Fields, EndInside
<1> QED BY <1>1, <1>2

LEMMA ExactKeepsSock ==
  ASSUME NEW m, NEW k, IsSock(k), NEW p, NEW n
  PROVE  IsSock(TryReadExactAmount(m, k, p, n).k)
<1>1. CASE Size(m, p) < n
  BY <1>1 DEF TryReadExactAmount, ReadShort
<1>2. CASE ~(Size(m, p) < n)
  <2>1. PICK t, s, left :
          TryReadExactAmount(m, k, p, n).k = IF left > 0 THEN EndInside(m, t, left)
                                                         ELSE EndAt(m, k, s)
    BY <1>2 DEF TryReadExactAmount
  <2>2. IsSock(EndInside(m, t, left)) /\ IsSock(EndAt(m, k, s))
    BY EndKeepsSock
  <2> QED BY <2>1, <2>2
<1> QED BY <1>1, <1>2

LEMMA ReadsKeepSock ==
  ASSUME NEW m, NEW k, IsSock(k), NEW p, NEW n, NEW q
  PROVE  /\ IsSock(ReadShadow(m, k, p, n, q).k)
         /\ ReadAllShadow(m, k, p, q).k = k
         /\ IsSock(ReadRing(m, k, q, n).k)
         /\ n = 0 => ReadRing(m, k, q, n).k = k
<1>1. IsSock(ReadShadow(m, k, p, n, q).k)
  <2>1. PICK r : r = TryReadExactAmount(m, k, p, n)
    OBVIOUS
  <2>2. PICK r2 : r2 = TryReadExactAmount(r.m, r.k, q, n - r.total)
    OBVIOUS
  <2>3. IsSock(r.k)
    BY <2>1, ExactKeepsSock
  <2>4. IsSock(r2.k)
    BY <2>2, <2>3, ExactKeepsSock
  <2>5. ReadShadow(m, k, p, n, q).k = r.k \/ ReadShadow(m, k, p, n, q).k = r2.k
    <3>1. DOMAIN r = {"m", "k", "total", "first", "cut", "at"}
      BY <2>1 DEF TryReadExactAmount, ReadShort
    <3>2. ReadNothing(r, n).k = r.k
      BY <3>1 DEF ReadNothing
    <3> QED BY <2>1, <2>2, <3>2 DEF ReadShadow
  <2> QED BY <2>3, <2>4, <2>5
<1>2. ReadAllShadow(m, k, p, q).k = k
  BY DEF ReadAllShadow
<1>3. IsSock(ReadRing(m, k, q, n).k)
  <2>1. CASE n > 0
    BY <2>1, ExactKeepsSock DEF ReadRing
  <2>2. CASE ~(n > 0)
    BY <2>2 DEF ReadRing
  <2> QED BY <2>1, <2>2
<1>4. n = 0 => ReadRing(m, k, q, n).k = k
  BY DEF ReadRing
<1> QED BY <1>1, <1>2, <1>3, <1>4

-----------------------------------------------------------------------------
(* The steps.                                                              *)

\* What a successful read does to the socket and its events.
LEMMA ReadAnnounces ==
  ASSUME AnnInv, NEW n \in 0 .. MaxAsk, Receive(n)
  PROVE  AnnInv'
<1> DEFINE g == GetFromShadow(mbuf, sock)
           p == sock.shadow
<1>1. IsSock(g.k) /\ g.k.shadow = NULL
  BY ShadowTaken DEF AnnInv
<1>2. UNCHANGED <<selects, open>> /\ (selects => awake) /\ open
  BY DEF Receive
<1>3. CASE UNCHANGED <<sock, events, unheard>> /\ sock.shadow = NULL
  BY <1>3 DEF AnnInv, RestIsAnnounced
<1>4. CASE \E q : \E r :
             /\ r = IF p = NULL THEN ReadRing(g.m, g.k, q, n)
                    ELSE IF n > 0 THEN ReadShadow(g.m, g.k, p, n, q)
                    ELSE ReadAllShadow(g.m, g.k, p, q)
             /\ sock' = r.k
             /\ \E room \in BOOLEAN :
                  /\ events' = IF Announces(r.k, n, p) /\ room THEN events + 1 ELSE events
                  /\ unheard' = (Announces(r.k, n, p) /\ ~room)
  <2>1. PICK q, r :
             /\ r = IF p = NULL THEN ReadRing(g.m, g.k, q, n)
                    ELSE IF n > 0 THEN ReadShadow(g.m, g.k, p, n, q)
                    ELSE ReadAllShadow(g.m, g.k, p, q)
             /\ sock' = r.k
             /\ \E room \in BOOLEAN :
                  /\ events' = IF Announces(r.k, n, p) /\ room THEN events + 1 ELSE events
                  /\ unheard' = (Announces(r.k, n, p) /\ ~room)
    BY <1>4
  <2> HIDE DEF g, p
  <2>2. /\ IsSock(ReadShadow(g.m, g.k, p, n, q).k)
        /\ ReadAllShadow(g.m, g.k, p, q).k = g.k
        /\ IsSock(ReadRing(g.m, g.k, q, n).k)
        /\ n = 0 => ReadRing(g.m, g.k, q, n).k = g.k
    BY <1>1, ReadsKeepSock
  <2>3. IsSock(sock')
    BY <1>1, <2>1, <2>2
  <2>4. events' \in Nat
    BY <2>1 DEF AnnInv
  <2>5. CASE n = 0
    <3>1. sock'.shadow = NULL
      BY <1>1, <2>1, <2>2, <2>5
    <3> QED BY <2>3, <2>4, <3>1 DEF AnnInv, IsSock, RestIsAnnounced
  <2>6. CASE n > 0
    <3>1. PICK room \in BOOLEAN :
             /\ events' = IF Announces(r.k, n, p) /\ room THEN events + 1 ELSE events
             /\ unheard' = (Announces(r.k, n, p) /\ ~room)
      BY <2>1
    <3>2. ASSUME selects, sock'.shadow # NULL PROVE events' > 0 \/ unheard'
      <4>1. Announces(r.k, n, p)
        BY <2>1, <2>6, <3>2 DEF Announces
      <4>2. CASE room
        <5>1. events' = events + 1
          BY <3>1, <4>1, <4>2
        <5> QED BY <5>1 DEF AnnInv
      <4>3. CASE ~room
        BY <3>1, <4>1, <4>3, Zenon
      <4> QED BY <4>2, <4>3
    <3> QED BY <1>2, <2>3, <2>4, <3>2 DEF AnnInv, IsSock, RestIsAnnounced
  <2> QED BY <2>5, <2>6
<1>5. \/ UNCHANGED <<sock, events, unheard>> /\ sock.shadow = NULL
      \/ \E q : \E r :
             /\ r = IF p = NULL THEN ReadRing(g.m, g.k, q, n)
                    ELSE IF n > 0 THEN ReadShadow(g.m, g.k, p, n, q)
                    ELSE ReadAllShadow(g.m, g.k, p, q)
             /\ sock' = r.k
             /\ \E room \in BOOLEAN :
                  /\ events' = IF Announces(r.k, n, p) /\ room THEN events + 1 ELSE events
                  /\ unheard' = (Announces(r.k, n, p) /\ ~room)
  BY Zenon DEF Receive
<1> QED BY <1>3, <1>4, <1>5

LEMMA AnnStep == AnnInv /\ [Next]_vars => AnnInv'
<1> SUFFICES ASSUME AnnInv, [Next]_vars PROVE AnnInv'
  OBVIOUS
<1> USE DEF AnnInv, IsSock, RestIsAnnounced
<1>1. ASSUME NEW lens, Deliver(lens) PROVE AnnInv'
  <2>1. /\ UNCHANGED <<sock, selects, unheard, awake, open>>
        /\ events' = events \/ events' = events + 1
    BY <1>1, Zenon DEF Deliver
  <2> QED BY <2>1
<1>2. CASE Select
  BY <1>2 DEF Select
<1>3. ASSUME NEW n \in 0 .. MaxAsk, Receive(n) PROVE AnnInv'
  BY <1>3, ReadAnnounces
<1>4. ASSUME NEW p \in held, ReleaseRxBuffer(p) PROVE AnnInv'
  BY <1>4 DEF ReleaseRxBuffer, signals
<1>5. CASE Close
  BY <1>5 DEF Close, signals, Fields
<1>6. CASE UNCHANGED vars
  BY <1>6 DEF vars, signals
<1> QED BY <1>1, <1>2, <1>3, <1>4, <1>5, <1>6 DEF Next

\* RestIsAnnounced holds in every reachable state, for any number and length of
\* buffers, chains and reads: whichever way ipaugenblick_receive ends with bytes
\* left in the shadow, the socket of an application with a selector is in
\* ready_connections once more, the application has yet to act on an entry, or this
\* one enqueue found ready_connections full; earlier losses do no harm.
THEOREM RestIsAlwaysAnnounced == Spec => []RestIsAnnounced
<1>1. Init => AnnInv
  BY DEF Init, AnnInv, IsSock, Fields, RestIsAnnounced
<1>2. AnnInv => RestIsAnnounced
  BY DEF AnnInv
<1> QED BY <1>1, <1>2, AnnStep, PTL DEF Spec

-----------------------------------------------------------------------------
(* The invariant: where the chains lie.                                    *)

HeldAt(H, k, u) == \A h \in H : h < u /\ (k.shadow # NULL => h <= k.shadow)

Sound(m, q, d, k, H) ==
  /\ Links(m) /\ q \in Seq(Bufs) /\ d \in Pointers /\ k \in Socks /\ H \subseteq Bufs
  /\ Queued(m, q, d) /\ (Start(q, d) > 1 => m[Start(q, d) - 1].next = NULL)
  /\ ShadowAt(m, k, Start(q, d)) /\ HeldAt(H, k, Start(q, d))

LEMMA SoundStart ==
  ASSUME NEW m, NEW q, NEW d, NEW k, NEW H, Sound(m, q, d, k, H)
  PROVE  /\ Start(q, d) \in Nat /\ 1 <= Start(q, d) /\ Start(q, d) - 1 <= d
         /\ d \in Nat /\ d <= MaxBufs /\ Start(q, d) - 1 <= MaxBufs
<1>1. d \in Nat /\ d <= MaxBufs
  BY BufsAre DEF Sound
<1>2. Start(q, d) \in Nat /\ 1 <= Start(q, d) /\ Start(q, d) <= d + 1
  BY QueuedStart DEF Sound
<1> QED BY <1>1, <1>2, BufsAre

\* The buffers X are given back: what lies behind them is as before.
Cleared(m, X) == [b \in Bufs |-> IF b \in X THEN [m[b] EXCEPT !.next = NULL] ELSE m[b]]

LEMMA ClearedIs ==
  ASSUME NEW m, Links(m), NEW X
  PROVE  /\ Links(Cleared(m, X)) /\ \A b \in Bufs : Bytes(Cleared(m, X), b) = Bytes(m, b)
         /\ \A b \in Bufs : /\ Cleared(m, X)[b].next \in {m[b].next, NULL}
                            /\ Cleared(m, X)[b].off = m[b].off
                            /\ Cleared(m, X)[b].len = m[b].len
         /\ \A b \in Bufs \ X : Cleared(m, X)[b].next = m[b].next
<1>1. PICK c : c = Cleared(m, X)
  OBVIOUS
<1>2. c = [b \in Bufs |-> IF b \in X THEN [m[b] EXCEPT !.next = NULL] ELSE m[b]]
  BY <1>1 DEF Cleared
<1>3. ASSUME NEW b \in Bufs
      PROVE  /\ c[b] \in Mbuf /\ c[b].next \in {m[b].next, NULL} /\ (b \notin X => c[b].next = m[b].next)
             /\ c[b].off = m[b].off /\ c[b].len = m[b].len
  <2>1. m[b] \in Mbuf /\ NULL \in Pointers
    BY BufsAre DEF Links
  <2> QED BY <1>2, <2>1 DEF Mbuf
<1>4. c \in [Bufs -> Mbuf]
  BY <1>2, <1>3
<1>5. \A b \in Bufs : Bytes(c, b) = Bytes(m, b)
  BY <1>3 DEF Bytes
<1>6. Links(c)
  BY <1>3, <1>4 DEF Links
<1> QED BY <1>1, <1>3, <1>5, <1>6

LEMMA SoundCleared ==
  ASSUME NEW m, NEW q, NEW d, NEW k, NEW H, Sound(m, q, d, k, H), NEW X, NEW I,
         I \subseteq H,
         \A b \in X : b \in Nat /\ b < Start(q, d) /\ (k.shadow # NULL => b < k.shadow)
  PROVE  Sound(Cleared(m, X), q, d, k, I)
<1>1. PICK c : c = Cleared(m, X)
  OBVIOUS
<1>2. PICK u \in Nat : u = Start(q, d) /\ 1 <= u /\ u - 1 <= MaxBufs
  BY SoundStart
<1>3. /\ Links(m) /\ q \in Seq(Bufs) /\ d \in Pointers /\ k \in Socks /\ H \subseteq Bufs
      /\ Queued(m, q, d) /\ (u > 1 => m[u - 1].next = NULL)
      /\ ShadowAt(m, k, u) /\ HeldAt(H, k, u)
  BY <1>2 DEF Sound
<1>4. /\ Links(c) /\ \A b \in Bufs : c[b].next \in {m[b].next, NULL}
      /\ \A b \in Bufs \ X : c[b].next = m[b].next
  BY <1>1, <1>3, ClearedIs
<1>5. Queued(c, q, d)
  <2>1. ASSUME NEW b \in Bufs, Start(q, d) <= b, b <= d PROVE c[b].next = m[b].next
    <3>1. b \in Nat /\ b \notin X
      BY <1>2, <2>1, BufsAre
    <3> QED BY <1>4, <3>1
  <2> QED BY <1>3, <2>1, QueuedKept
<1>6. u > 1 => c[u - 1].next = NULL
  <2>1. u > 1 => u - 1 \in Bufs
    BY <1>2, BufsAre
  <2> QED BY <1>3, <1>4, <2>1
<1>7. ShadowAt(c, k, u)
  <2>1. ASSUME k.shadow # NULL, k.shadow < u - 1 PROVE Row(c, k.shadow + 1, u - 1)
    <3>1. Row(m, k.shadow + 1, u - 1)
      BY <1>3, <2>1 DEF ShadowAt
    <3>2. k.shadow \in Nat
      BY <1>3, BufsAre DEF Socks
    <3>3. k.shadow + 1 .. u - 1 \subseteq Bufs
      BY <3>1, RowBounds
    <3>4. ASSUME NEW b \in k.shadow + 1 .. u - 1 PROVE c[b].next = m[b].next
      <4>1. b \in Bufs /\ b \notin X
        BY <2>1, <3>2, <3>3
      <4> QED BY <1>4, <4>1
    <3> QED BY <3>1, <3>4, RowKept
  <2> QED BY <1>3, <2>1 DEF ShadowAt
<1>8. HeldAt(I, k, u) /\ I \subseteq Bufs
  BY <1>3 DEF HeldAt
<1> QED BY <1>1, <1>2, <1>3, <1>4, <1>5, <1>6, <1>7, <1>8 DEF Sound

\* A read: the queue loses at most its first chain, and of s .. f some stays
\* with the socket.
LEMMA SoundRead ==
  ASSUME NEW m, NEW q, NEW d, NEW k, NEW H, Sound(m, q, d, k, H),
         NEW h, Links(h), NEW s \in Bufs, NEW f \in Bufs, s <= f,
         NEW q2 \in Seq(Bufs), Queued(m, q2, d), Start(q2, d) = f + 1,
         s = IF k.shadow = NULL THEN Start(q, d) ELSE k.shadow,
         \A b \in Bufs : f < b => h[b] = m[b],
         NEW n, NEW r, After(h, s, f, n, r)
  PROVE  Sound(r.m, q2, d, r.k, H \cup {s})
<1>0. f \in Nat /\ f \in Bufs /\ s \in Nat
  BY BufsAre
<1>1. PICK u \in Nat : u = Start(q, d) /\ 1 <= u /\ u - 1 <= MaxBufs /\ d \in Nat
  BY SoundStart
<1>2. /\ q \in Seq(Bufs) /\ d \in Pointers /\ k \in Socks /\ H \subseteq Bufs /\ HeldAt(H, k, u)
  BY <1>1 DEF Sound
<1>3. /\ Links(r.m) /\ r.k \in Socks
      /\ \A b \in Bufs : b < s \/ f < b => r.m[b] = h[b]
      /\ r.m[f].next = NULL
      /\ ShadowAt(r.m, r.k, f + 1) /\ (r.k.shadow # NULL => s <= r.k.shadow)
  BY DEF After
<1>4. Queued(r.m, q2, d)
  <2>1. ASSUME NEW b \in Bufs, Start(q2, d) <= b, b <= d PROVE r.m[b].next = m[b].next
    <3>1. f < b
      BY <1>0, <2>1, BufsAre
    <3>2. r.m[b] = m[b]
      BY <1>3, <3>1
    <3> QED BY <3>2
  <2> QED BY <1>2, <2>1, QueuedKept
<1>5. (f + 1) - 1 = f
  BY <1>0
<1>6. HeldAt(H \cup {s}, r.k, f + 1)
  <2> SUFFICES ASSUME NEW x \in H \cup {s}
               PROVE  x < f + 1 /\ (r.k.shadow # NULL => x <= r.k.shadow)
    BY DEF HeldAt
  <2>1. x \in Nat /\ r.k.shadow \in Nat
    BY <1>0, <1>2, <1>3, BufsAre DEF Socks
  <2>2. x <= s
    <3>1. CASE x = s
      BY <1>0, <3>1
    <3>2. CASE x \in H
      BY <1>0, <1>1, <1>2, <2>1, <3>2 DEF HeldAt
    <3> QED BY <3>1, <3>2
  <2> QED BY <1>0, <1>3, <2>1, <2>2
<1>7. H \cup {s} \subseteq Bufs
  BY <1>2
<1> QED BY <1>2, <1>3, <1>4, <1>5, <1>6, <1>7 DEF Sound

-----------------------------------------------------------------------------
(* ipaugenblick_receive: from which buffers it reads.                      *)

Unread == Start(queue, made)
Short(n) == /\ sock.shadow # NULL /\ n > 0
            /\ Size(GetFromShadow(mbuf, sock).m, sock.shadow) \in 1 .. n - 1
Asks(n) == sock.shadow = NULL \/ n = 0 \/ Short(n)
Wanted(n) == IF Asks(n) /\ queue # <<>> THEN Head(queue) ELSE NULL
Returned(n) == IF sock.shadow # NULL THEN sock.shadow ELSE Wanted(n)
ResultOf(n) ==
  LET g == GetFromShadow(mbuf, sock)
  IN IF sock.shadow = NULL THEN ReadRing(g.m, g.k, Wanted(n), n)
     ELSE IF n > 0 THEN ReadShadow(g.m, g.k, sock.shadow, n, Wanted(n))
     ELSE ReadAllShadow(g.m, g.k, sock.shadow, Wanted(n))

Sets(n, s, r) ==
  /\ mbuf' = r.m /\ sock' = r.k /\ held' = held \cup {s} /\ got' = got \o Contents(r.m, s)
  /\ last' = [asked |-> n, total |-> r.total, first |-> r.first, head |-> r.m[s].len,
              size |-> Size(r.m, s), cut |-> r.cut]
  /\ boundary' = (boundary \/ r.at)

LEMMA ReceiveUnfolds ==
  ASSUME NEW n, Receive(n)
  PROVE  /\ queue' = IF Wanted(n) = NULL THEN queue ELSE Tail(queue)
         /\ \/ Returned(n) # NULL /\ Sets(n, Returned(n), ResultOf(n))
            \/ Returned(n) = NULL /\ UNCHANGED <<mbuf, sock, held, got, last, boundary>>
<1>1. queue' = IF Wanted(n) = NULL THEN queue ELSE Tail(queue)
  BY Zenon DEF Receive, Wanted, Asks, Short
<1>2. CASE Returned(n) # NULL
  <2>1. Sets(n, Returned(n), ResultOf(n))
    BY <1>2, Zenon DEF Receive, Wanted, Asks, Short, Returned, ResultOf, Sets
  <2> QED BY <1>1, <1>2, <2>1
<1>3. CASE Returned(n) = NULL
  <2>1. UNCHANGED <<mbuf, sock, held, got, last, boundary>>
    BY <1>3, Zenon DEF Receive, Wanted, Asks, Short, Returned
  <2> QED BY <1>1, <1>3, <2>1
<1> QED BY <1>2, <1>3

\* The read returns buffers of the chain s .. f and leaves the queue q.
Reads(n, s, f, r, q) ==
  LET g == GetFromShadow(mbuf, sock)
  IN /\ s \in Bufs /\ f \in Bufs /\ s <= f
     /\ s = IF sock.shadow = NULL THEN Unread ELSE sock.shadow
     /\ Unread <= f + 1
     /\ q \in Seq(Bufs) /\ Queued(mbuf, q, made) /\ Start(q, made) = f + 1
     /\ Links(g.m) /\ NoShadow(g.k) /\ (\A b \in Bufs : f < b => g.m[b] = mbuf[b])
     /\ Returns(g.m, s, f, g.k, n, r)

LEMMA ReceiveReads ==
  ASSUME Sound(mbuf, queue, made, sock, held), NEW n \in Nat, Receive(n)
  PROVE  \/ UNCHANGED <<queue, mbuf, sock, held, got, last, boundary>>
         \/ \E s, f, r : Reads(n, s, f, r, queue') /\ Sets(n, s, r)
<1>1. PICK u \in Nat : u = Unread /\ 1 <= u /\ u - 1 <= MaxBufs
  BY SoundStart DEF Unread
<1>2. /\ Links(mbuf) /\ queue \in Seq(Bufs) /\ made \in Pointers /\ sock \in Socks
      /\ Queued(mbuf, queue, made) /\ (u > 1 => mbuf[u - 1].next = NULL)
      /\ ShadowAt(mbuf, sock, u)
  BY <1>1 DEF Sound, Unread
<1>3. PICK g : g = GetFromShadow(mbuf, sock)
  OBVIOUS
<1>4. /\ Links(g.m) /\ NoShadow(g.k)
      /\ \A b \in Bufs \ {sock.shadow} : g.m[b] = mbuf[b]
      /\ sock.shadow # NULL => Row(g.m, sock.shadow, u - 1)
  BY <1>1, <1>2, <1>3, GetIs
<1>5. PICK w : w = Wanted(n)
  OBVIOUS
<1>6. PICK v : v = queue'
  OBVIOUS
<1>7. ASSUME w # NULL
      PROVE  /\ v \in Seq(Bufs) /\ Queued(mbuf, v, made) /\ w = u
             /\ \E f \in Bufs : u <= f /\ Start(v, made) = f + 1 /\ Row(g.m, u, f)
  <2>1. queue # <<>> /\ w = Head(queue) /\ v = Tail(queue)
    <3>1. queue # <<>> /\ w = Head(queue)
      BY <1>5, <1>7 DEF Wanted
    <3>2. v = Tail(queue)
      BY <1>5, <1>6, <1>7, ReceiveUnfolds, Zenon
    <3> QED BY <3>1, <3>2
  <2>2. /\ Queued(mbuf, v, made) /\ v \in Seq(Bufs) /\ w = u
        /\ Row(mbuf, w, Start(v, made) - 1)
    BY <1>1, <1>2, <2>1, QueuedTail DEF Unread
  <2>3. PICK f : f = Start(v, made) - 1
    OBVIOUS
  <2>4. Start(v, made) \in Nat
    BY <1>2, <2>2, QueuedStart
  <2>5. f \in Bufs /\ u <= f /\ u .. f \subseteq Bufs /\ Start(v, made) = f + 1 /\ Row(mbuf, u, f)
    BY <2>2, <2>3, <2>4, RowBounds, BufsAre
  <2>6. Row(g.m, u, f)
    <3>1. sock.shadow \notin u .. f
      <4>1. sock.shadow # NULL => sock.shadow < u
        BY <1>2 DEF ShadowAt
      <4>2. sock.shadow \in Nat
        BY <1>2, BufsAre DEF Socks
      <4> QED BY <1>1, <4>1, <4>2, BufsAre
    <3>2. \A b \in u .. f : g.m[b] = mbuf[b]
      BY <1>4, <2>5, <3>1
    <3>3. \A b \in u .. f : g.m[b].next = mbuf[b].next
      BY <3>2
    <3> QED BY <2>5, <3>3, RowKept
  <2> QED BY <2>2, <2>5, <2>6
<1>8. ASSUME w = NULL PROVE v = queue
  BY <1>5, <1>6, <1>8, ReceiveUnfolds, Zenon
<1>9. CASE Returned(n) = NULL
  <2>1. w = NULL
    BY <1>5, <1>9, Zenon DEF Returned
  <2>2. UNCHANGED <<mbuf, sock, held, got, last, boundary>>
    BY <1>9, ReceiveUnfolds
  <2> QED BY <1>6, <1>8, <2>1, <2>2
<1>10. CASE Returned(n) # NULL
  <2>0. Sets(n, Returned(n), ResultOf(n))
    BY <1>10, ReceiveUnfolds
  <2>1. CASE sock.shadow = NULL
    <3>1. w = Returned(n) /\ w # NULL /\ ResultOf(n) = ReadRing(g.m, g.k, w, n)
      BY <1>3, <1>5, <1>10, <2>1 DEF Returned, ResultOf
    <3>2. PICK f \in Bufs : u <= f /\ Start(v, made) = f + 1 /\ Row(g.m, u, f)
      BY <1>7, <3>1
    <3>3. v \in Seq(Bufs) /\ Queued(mbuf, v, made) /\ w = u
      BY <1>7, <3>1
    <3>4. Returns(g.m, u, f, g.k, n, ResultOf(n))
      BY <1>4, <3>1, <3>2, <3>3, RingReturns
    <3>5. \A b \in Bufs : f < b => g.m[b] = mbuf[b]
      BY <1>4, <2>1, BufsAre
    <3>6. u \in Bufs
      BY <3>2 DEF Row
    <3>7. Reads(n, u, f, ResultOf(n), v)
      <4>1. Unread <= f + 1
        BY <1>1, <3>2, BufsAre
      <4> QED BY <4>1, <1>1, <1>3, <1>4, <2>1, <3>2, <3>3, <3>4, <3>5, <3>6 DEF Reads
    <3>8. Sets(n, u, ResultOf(n))
      BY <2>0, <3>1, <3>3
    <3> QED BY <1>6, <3>7, <3>8
  <2>2. CASE sock.shadow # NULL
    <3>1. PICK p : p = sock.shadow
      OBVIOUS
    <3>2. p = Returned(n) /\ Row(g.m, p, u - 1) /\ p # NULL
      BY <1>4, <2>2, <3>1 DEF Returned
    <3>3. p \in Bufs /\ p \in Nat /\ p <= u - 1 /\ u - 1 \in Bufs
      BY <3>2, RowBounds DEF Row
    <3>4. ResultOf(n) = IF n > 0 THEN ReadShadow(g.m, g.k, p, n, w) ELSE ReadAllShadow(g.m, g.k, p, w)
      BY <1>3, <1>5, <2>2, <3>1, Zenon DEF ResultOf
    <3>5. \A b \in Bufs : u - 1 < b => g.m[b] = mbuf[b]
      <4> TAKE b \in Bufs
      <4>1. u - 1 < b => b # sock.shadow
        BY <1>1, <3>1, <3>3, BufsAre
      <4> QED BY <1>4, <4>1
    <3>6. CASE w = NULL
      <4>1. Returns(g.m, p, u - 1, g.k, n, ResultOf(n))
        <5>1. CASE n > 0
          BY <1>4, <3>2, <3>4, <3>6, <5>1, ShadowReturns
        <5>2. CASE ~(n > 0)
          <6>1. n = 0
            BY <5>2
          <6> QED BY <1>4, <3>2, <3>4, <3>6, <6>1, AllReturns
        <5> QED BY <5>1, <5>2
      <4>2. Start(v, made) = (u - 1) + 1
        BY <1>1, <1>8, <3>6 DEF Unread
      <4>3. Reads(n, p, u - 1, ResultOf(n), v)
        <5>1. Unread <= (u - 1) + 1
          BY <1>1
        <5> QED BY <5>1, <1>2, <1>3, <1>4, <1>8, <2>2, <3>1, <3>3, <3>5, <3>6, <4>1, <4>2 DEF Reads
      <4> QED BY <1>6, <2>0, <3>2, <4>3
    <3>7. CASE w # NULL
      <4>1. PICK f \in Bufs : u <= f /\ Start(v, made) = f + 1 /\ Row(g.m, u, f)
        BY <1>7, <3>7
      <4>2. v \in Seq(Bufs) /\ Queued(mbuf, v, made) /\ w = u /\ w = (u - 1) + 1
        BY <1>1, <1>7, <3>7
      <4>3. Returns(g.m, p, f, g.k, n, ResultOf(n))
        <5>1. CASE n > 0
          <6>1. Short(n)
            BY <1>5, <2>2, <3>7, <5>1 DEF Wanted, Asks
          <6>2. Size(g.m, p) \in 1 .. n - 1
            BY <1>3, <3>1, <6>1 DEF Short
          <6> QED BY <1>4, <3>2, <3>4, <4>1, <4>2, <5>1, <6>2, ShadowAndRingReturn
        <5>2. CASE ~(n > 0)
          <6>1. n = 0
            BY <5>2
          <6> QED BY <1>4, <3>2, <3>4, <4>1, <4>2, <6>1, AllReturns
        <5> QED BY <5>1, <5>2
      <4>4. p <= f /\ \A b \in Bufs : f < b => g.m[b] = mbuf[b]
        BY <1>1, <3>3, <3>5, <4>1, BufsAre
      <4>5. Reads(n, p, f, ResultOf(n), v)
        <5>1. Unread <= f + 1
          BY <1>1, <4>1, BufsAre
        <5> QED BY <5>1, <1>3, <1>4, <2>2, <3>1, <3>3, <4>1, <4>2, <4>3, <4>4 DEF Reads
      <4> QED BY <1>6, <2>0, <3>2, <4>5
    <3> QED BY <3>6, <3>7
  <2> QED BY <2>1, <2>2
<1> QED BY <1>9, <1>10

-----------------------------------------------------------------------------
(* The service delivers a chain.                                           *)

\* The chain is made + 1 .. e.
Delivers(e) ==
  /\ e \in Bufs /\ made' = e /\ open
  /\ queue' = Append(queue, made + 1) /\ stream' = stream \o Contents(mbuf', made + 1)
  /\ Links(mbuf') /\ Row(mbuf', made + 1, e)
  /\ \A b \in Bufs : b <= made => mbuf'[b] = mbuf[b]
  /\ \A b \in made + 1 .. e : mbuf'[b].len > 0

LEMMA DeliverIs ==
  ASSUME Links(mbuf), made \in Pointers,
         NEW lens \in BoundedSeq(1 .. MaxLen, MaxChain), lens # <<>>, Deliver(lens)
  PROVE  \E e : Delivers(e)
<1>0. made \in Nat /\ MaxLen \in Nat /\ MaxChain \in Nat
  BY ShadowReadAssumption, BufsAre
<1>1. PICK l \in Nat : l = Len(lens) /\ lens \in [1 .. l -> 1 .. MaxLen] /\ l >= 1
  <2>1. PICK l \in 0 .. MaxChain : lens \in [1 .. l -> 1 .. MaxLen]
    BY DEF BoundedSeq, SeqOf
  <2>2. l \in Nat /\ lens \in Seq(1 .. MaxLen) /\ Len(lens) = l
    BY <1>0, <2>1
  <2>3. l # 0
    BY <2>2
  <2> QED BY <2>1, <2>2, <2>3
<1> DEFINE new == made + 1 .. made + l
           m == [b \in Bufs |->
              IF b \notin new THEN mbuf[b]
              ELSE [off |-> 0, len |-> lens[b - made], pkt |-> lens[b - made],
                    next |-> IF b + 1 \in new THEN b + 1 ELSE NULL]]
<1>2. /\ open /\ made + l <= MaxBufs /\ made' = made + l
      /\ mbuf' = [m EXCEPT ![made + 1].pkt = Size(m, made + 1)]
      /\ queue' = Append(queue, made + 1) /\ stream' = stream \o Contents(mbuf', made + 1)
  BY <1>1, Zenon DEF Deliver
<1>n. made + l <= MaxBufs
  BY <1>2
<1>3. PICK e : e = made + l /\ e \in Nat /\ e \in Bufs /\ made + 1 \in Bufs /\ made + 1 <= e
               /\ new = made + 1 .. e
  BY <1>0, <1>1, <1>n, BufsAre
<1>4. mbuf \in [Bufs -> Mbuf] /\ \A b \in Bufs : mbuf[b].next \in {NULL, b + 1}
  BY DEF Links
<1>5. ASSUME NEW b \in Bufs
      PROVE  /\ m[b] \in Mbuf /\ m[b].next \in {NULL, b + 1}
             /\ b \notin new => m[b] = mbuf[b]
             /\ b \in new => m[b].next = IF b + 1 \in new THEN b + 1 ELSE NULL
             /\ b \in new => m[b].len > 0
  <2>1. CASE b \notin new
    <3>1. m[b] = mbuf[b]
      BY <2>1
    <3> HIDE DEF m
    <3> QED BY <1>4, <2>1, <3>1
  <2>2. CASE b \in new
    <3>1. m[b] = [off |-> 0, len |-> lens[b - made], pkt |-> lens[b - made],
                  next |-> IF b + 1 \in new THEN b + 1 ELSE NULL]
      BY <2>2
    <3>2. b - made \in 1 .. l
      BY <1>0, <1>1, <2>2
    <3>3. lens[b - made] \in Nat /\ lens[b - made] > 0
      BY <1>0, <1>1, <3>2
    <3>4. (IF b + 1 \in new THEN b + 1 ELSE NULL) \in Pointers
      BY <1>0, <1>1, <1>n, BufsAre
    <3> HIDE DEF m
    <3> QED BY <2>2, <3>1, <3>3, <3>4 DEF Mbuf
  <2> QED BY <2>1, <2>2
<1>6. m = [b \in Bufs |-> m[b]]
  OBVIOUS
<1> HIDE DEF m
<1>7. Links(m)
  BY <1>5, <1>6 DEF Links
<1>8. PICK z \in Nat : z = Size(m, made + 1)
  <2>1. made + 1 \in Pointers
    BY <1>3, BufsAre
  <2> QED BY <1>7, <2>1, SizeUnfolds
<1>9. PICK x \in Bufs : x = made + 1
  BY <1>3
<1>10. PICK h : h = mbuf'
  OBVIOUS
<1>11. h = [m EXCEPT ![x].pkt = z]
  BY <1>2, <1>8, <1>9, <1>10
<1>12. /\ h \in [Bufs -> Mbuf] /\ (\A b \in Bufs \ {x} : h[b] = m[b])
       /\ h[x].next = m[x].next /\ h[x].len = m[x].len
  <2>1. m \in [Bufs -> Mbuf]
    BY <1>7 DEF Links
  <2> QED BY <1>11, <2>1 DEF Mbuf
<1>13. \A b \in Bufs : h[b].next = m[b].next
  BY <1>12
<1>14. Links(h)
  BY <1>7, <1>12, <1>13 DEF Links
<1>15. Row(h, x, e)
  <2>1. \A b \in x .. e - 1 : h[b].next = b + 1
    <3> TAKE b \in x .. e - 1
    <3>1. b \in Bufs /\ b \in new /\ b + 1 \in new
      BY <1>0, <1>3, <1>9, BufsAre
    <3> HIDE DEF new
    <3> QED BY <1>5, <1>13, <3>1
  <2>2. h[e].next = NULL
    <3>1. e \in new /\ e + 1 \notin new
      BY <1>0, <1>3
    <3> HIDE DEF new
    <3> QED BY <1>3, <1>5, <1>13, <3>1
  <2> QED BY <1>3, <1>9, <2>1, <2>2 DEF Row
<1>16. ASSUME NEW b \in Bufs, b <= made PROVE h[b] = mbuf[b]
  <2>1. b \notin new /\ b # x
    BY <1>0, <1>3, <1>9, <1>16, BufsAre
  <2> HIDE DEF new
  <2> QED BY <1>5, <1>12, <2>1
<1>17. ASSUME NEW b \in made + 1 .. e PROVE h[b].len > 0
  <2>1. b \in new /\ b \in Bufs
    BY <1>0, <1>3, BufsAre
  <2> HIDE DEF new
  <2>2. m[b].len > 0
    BY <1>5, <2>1
  <2> QED BY <1>12, <2>1, <2>2
<1>18. Delivers(e)
  BY <1>2, <1>3, <1>9, <1>10, <1>14, <1>15, <1>16, <1>17 DEF Delivers
<1> QED BY <1>18

LEMMA SoundDeliver ==
  ASSUME NEW m, NEW q, NEW d, NEW k, NEW H, Sound(m, q, d, k, H),
         NEW h, Links(h), NEW e \in Bufs, Row(h, d + 1, e),
         \A b \in Bufs : b <= d => h[b] = m[b]
  PROVE  /\ Sound(h, Append(q, d + 1), e, k, H)
         /\ Start(Append(q, d + 1), e) = Start(q, d)
<1>1. PICK u \in Nat : u = Start(q, d) /\ 1 <= u /\ u - 1 <= d /\ d \in Nat /\ d <= MaxBufs
  BY SoundStart
<1>2. /\ Links(m) /\ q \in Seq(Bufs) /\ d \in Pointers /\ k \in Socks /\ H \subseteq Bufs
      /\ Queued(m, q, d) /\ (u > 1 => m[u - 1].next = NULL)
      /\ ShadowAt(m, k, u) /\ HeldAt(H, k, u)
  BY <1>1 DEF Sound
<1>3. /\ Queued(h, Append(q, d + 1), e) /\ Append(q, d + 1) \in Seq(Bufs)
      /\ Start(Append(q, d + 1), e) = u
  <2>1. \A b \in Bufs : b <= d => h[b].next = m[b].next
    OBVIOUS
  <2>2. /\ Queued(h, Append(q, d + 1), e) /\ Append(q, d + 1) \in Seq(Bufs)
        /\ Start(Append(q, d + 1), e) = Start(q, d)
    <3>1. Queued(m, q, d) /\ q \in Seq(Bufs) /\ d \in Pointers /\ Row(h, d + 1, e)
      BY <1>2
    <3>2. Queued(h, Append(q, d + 1), e) /\ Append(q, d + 1) \in Seq(Bufs)
      BY <2>1, <3>1, QueuedMore
    <3>3. Start(Append(q, d + 1), e) = Start(q, d)
      BY <2>1, <3>1, QueuedMore
    <3> QED BY <3>2, <3>3
  <2> QED BY <1>1, <2>2, Zenon
<1>4. u > 1 => h[u - 1].next = NULL
  <2>1. u > 1 => u - 1 \in Bufs
    BY <1>1, BufsAre
  <2> QED BY <1>1, <1>2, <2>1
<1>5. ShadowAt(h, k, u)
  <2>1. ASSUME k.shadow # NULL, k.shadow < u - 1 PROVE Row(h, k.shadow + 1, u - 1)
    <3>1. Row(m, k.shadow + 1, u - 1)
      BY <1>2, <2>1 DEF ShadowAt
    <3>2. k.shadow + 1 .. u - 1 \subseteq Bufs
      BY <3>1, RowBounds
    <3>3. ASSUME NEW b \in k.shadow + 1 .. u - 1 PROVE h[b].next = m[b].next
      <4>1. b \in Bufs /\ b <= d
        BY <1>1, <3>2
      <4> QED BY <4>1
    <3> QED BY <3>1, <3>3, RowKept
  <2> QED BY <1>2, <2>1 DEF ShadowAt
<1>6. e \in Pointers
  BY BufsAre
<1> QED BY <1>1, <1>2, <1>3, <1>4, <1>5, <1>6 DEF Sound

-----------------------------------------------------------------------------
(* ipaugenblick_release_rx_buffer and ipaugenblick_close.                  *)

\* The buffers of a chain c before the shadow v.
Before(c, v) == {c[i] : i \in {j \in DOMAIN c : v \notin {c[l] : l \in 1 .. j}}}

LEMMA BeforeIs ==
  ASSUME NEW p \in Nat, NEW e \in Nat, 1 <= p, p <= e, NEW v \in Nat, v = 0 \/ p <= v
  PROVE  Before(Ints(p, e), v) = {b \in p .. e : v = 0 \/ b < v}
<1>1. PICK l \in Nat : l = e - p + 1
  OBVIOUS
<1>2. PICK c : c = [i \in 1 .. l |-> p + i - 1]
  OBVIOUS
<1>3. Ints(p, e) = c /\ DOMAIN c = 1 .. l /\ \A i \in 1 .. l : c[i] = p + i - 1
  BY <1>1, <1>2 DEF Ints
<1>4. ASSUME NEW i \in 1 .. l PROVE v \notin {c[n] : n \in 1 .. i} <=> v = 0 \/ c[i] < v
  <2>1. \A n \in 1 .. i : c[n] = p + n - 1
    BY <1>3
  <2>2. c[i] = p + i - 1
    BY <1>3
  <2>3. ASSUME NEW n \in 1 .. i, v = c[n] PROVE ~(v = 0 \/ c[i] < v)
    <3>1. v = p + n - 1
      BY <2>1, <2>3
    <3> QED BY <2>2, <3>1
  <2>4. ASSUME ~(v = 0 \/ c[i] < v) PROVE \E n \in 1 .. i : v = c[n]
    <3>1. v - p + 1 \in 1 .. i /\ p + (v - p + 1) - 1 = v
      BY <2>2, <2>4
    <3> QED BY <2>1, <3>1
  <2> QED BY <2>3, <2>4
<1>5. ASSUME NEW x, x \in Before(c, v) PROVE x \in {b \in p .. e : v = 0 \/ b < v}
  <2>1. PICK i \in 1 .. l : x = c[i] /\ v \notin {c[n] : n \in 1 .. i}
    BY <1>3, <1>5 DEF Before
  <2>2. v = 0 \/ c[i] < v
    BY <1>4, <2>1
  <2>3. c[i] \in p .. e
    BY <1>1, <1>3
  <2> QED BY <2>1, <2>2, <2>3
<1>6. ASSUME NEW x \in p .. e, v = 0 \/ x < v PROVE x \in Before(c, v)
  <2>1. PICK i \in 1 .. l : i = x - p + 1
    BY <1>1
  <2>2. c[i] = x
    BY <1>3, <2>1
  <2>3. v \notin {c[n] : n \in 1 .. i}
    BY <1>4, <1>6, <2>2
  <2>4. i \in {j \in DOMAIN c : v \notin {c[n] : n \in 1 .. j}}
    BY <1>3, <2>3
  <2> QED BY <2>2, <2>4 DEF Before
<1> QED BY <1>3, <1>5, <1>6

LEMMA ReleasedIs ==
  ASSUME Sound(mbuf, queue, made, sock, held), NEW p \in held
  PROVE  \E e \in Bufs : /\ Row(mbuf, p, e) /\ e < Unread
                         /\ Released(p) = {b \in p .. e : sock.shadow = NULL \/ b < sock.shadow}
<1>1. PICK u \in Nat : u = Unread /\ 1 <= u /\ u - 1 <= MaxBufs
  BY SoundStart DEF Unread
<1>2. /\ Links(mbuf) /\ sock \in Socks /\ p \in Bufs /\ (u > 1 => mbuf[u - 1].next = NULL)
      /\ p < u /\ (sock.shadow # NULL => p <= sock.shadow)
  BY <1>1 DEF Sound, HeldAt, Unread
<1>3. PICK e \in Bufs : Row(mbuf, p, e)
  BY <1>2, RowExists
<1>4. p \in Nat /\ e \in Nat /\ 1 <= p /\ p <= e /\ NULL = 0
  BY <1>3, RowBounds, BufsAre
<1>5. e < u
  <2> SUFFICES ASSUME ~(e < u) PROVE FALSE
    OBVIOUS
  <2>1. u - 1 \in p .. e - 1 /\ u > 1
    BY <1>1, <1>2, <1>4
  <2>2. mbuf[u - 1].next = (u - 1) + 1
    BY <1>3, <2>1 DEF Row
  <2> QED BY <1>1, <1>2, <1>4, <2>1, <2>2
<1>6. PICK v \in Nat : v = sock.shadow
  BY <1>2, BufsAre DEF Socks
<1>7. Released(p) = Before(Ints(p, e), v)
  <2>1. Chain(mbuf, p) = Ints(p, e)
    BY <1>2, <1>3, RowChain
  <2> QED BY <1>6, <2>1 DEF Released, Before
<1>8. v = 0 \/ p <= v
  BY <1>2, <1>4, <1>6
<1>9. Before(Ints(p, e), v) = {b \in p .. e : v = 0 \/ b < v}
  BY <1>4, <1>8, BeforeIs
<1> QED BY <1>1, <1>3, <1>4, <1>5, <1>6, <1>7, <1>9

\* The last buffer filled ends a chain.
LEMMA LastEnds ==
  ASSUME NEW m, NEW q, NEW d, NEW k, NEW H, Sound(m, q, d, k, H), d # 0
  PROVE  m[d].next = NULL
<1>1. /\ q \in Seq(Bufs) /\ d \in Nat /\ Queued(m, q, d)
      /\ (Start(q, d) > 1 => m[Start(q, d) - 1].next = NULL)
  BY SoundStart DEF Sound
<1>2. CASE q = <<>>
  <2>1. Start(q, d) = d + 1 /\ d + 1 > 1 /\ (d + 1) - 1 = d
    BY <1>1, <1>2 DEF Start
  <2> QED BY <1>1, <2>1
<1>3. CASE q # <<>>
  <2>1. Len(q) \in Nat /\ Len(q) # 0
    BY <1>1, <1>3, EmptySeq
  <2>2. Len(q) \in 1 .. Len(q) /\ ~(Len(q) < Len(q))
    BY <2>1
  <2>3. Row(m, q[Len(q)], EndOf(q, d, Len(q))) /\ EndOf(q, d, Len(q)) = d
    BY <1>1, <2>2 DEF Queued, EndOf
  <2> QED BY <2>3 DEF Row
<1> QED BY <1>2, <1>3

LEMMA SoundClosed ==
  ASSUME NEW m, NEW q, NEW d, NEW k, NEW H, Sound(m, q, d, k, H), NEW X,
         NEW n \in Socks, n.shadow = NULL, n.next = NULL
  PROVE  Sound(Cleared(m, X), <<>>, d, n, H)
<1>1. PICK c : c = Cleared(m, X)
  OBVIOUS
<1>2. PICK u \in Nat : u = Start(q, d) /\ 1 <= u /\ u - 1 <= d /\ d \in Nat /\ d <= MaxBufs
  BY SoundStart
<1>3. Links(m) /\ d \in Pointers /\ H \subseteq Bufs /\ HeldAt(H, k, u)
  BY <1>2 DEF Sound
<1>4. Links(c) /\ \A b \in Bufs : c[b].next \in {m[b].next, NULL}
  BY <1>1, <1>3, ClearedIs
<1>5. Start(<<>>, d) = d + 1
  BY DEF Start
<1>6. d + 1 > 1 => c[d].next = NULL
  <2> SUFFICES ASSUME d + 1 > 1 PROVE c[d].next = NULL
    OBVIOUS
  <2>1. d \in Bufs /\ m[d].next = NULL
    BY <1>2, LastEnds, BufsAre
  <2> QED BY <1>4, <2>1
<1>7. Queued(c, <<>>, d) /\ <<>> \in Seq(Bufs)
  BY DEF Queued
<1>8. ShadowAt(c, n, d + 1)
  BY DEF ShadowAt
<1>9. HeldAt(H, n, d + 1)
  <2> SUFFICES ASSUME NEW x \in H PROVE x < d + 1
    BY DEF HeldAt
  <2>1. x \in Nat /\ x < u
    BY <1>3, BufsAre DEF HeldAt
  <2> QED BY <1>2, <2>1
<1>10. Start(<<>>, d) > 1 => c[Start(<<>>, d) - 1].next = NULL
  <2>1. PICK x : x = Start(<<>>, d)
    OBVIOUS
  <2>2. x = d + 1 /\ x - 1 = d
    BY <1>2, <1>5, <2>1
  <2>3. x > 1 => c[x - 1].next = NULL
    BY <1>6, <2>2
  <2> QED BY <2>1, <2>3
<1>11. ShadowAt(c, n, Start(<<>>, d)) /\ HeldAt(H, n, Start(<<>>, d))
  BY <1>5, <1>8, <1>9
<1> QED BY <1>1, <1>3, <1>4, <1>7, <1>10, <1>11, Zenon DEF Sound

-----------------------------------------------------------------------------
(* The shape of the state, and what a read reports, step by step.          *)

Shaped == Sound(mbuf, queue, made, sock, held)
Reported ==
  last.asked > 0 =>
    /\ last.total = last.size \/ last.size = 0
    /\ last.total <= last.asked
    /\ last.total < last.asked => sock.shadow = NULL
    /\ ~last.cut => last.first = last.head
Shape == TypeOK /\ Shaped /\ Reported

LEMMA ShapeInit == Init => Shape
<1> SUFFICES ASSUME Init PROVE Shape
  OBVIOUS
<1>1. /\ mbuf = [b \in Bufs |-> [off |-> 0, len |-> 0, next |-> NULL, pkt |-> 0]]
      /\ made = 0 /\ queue = <<>> /\ held = {}
      /\ sock = [shadow |-> NULL, next |-> NULL, remainder |-> 0, delivered |-> 0]
  BY DEF Init
<1>2. NULL \in Pointers /\ NULL = 0 /\ 0 \in Nat /\ MaxAsk \in Nat
  BY ShadowReadAssumption, BufsAre
<1>3. Links(mbuf)
  <2>1. mbuf \in [Bufs -> Mbuf]
    BY <1>1, <1>2 DEF Mbuf
  <2>2. \A b \in Bufs : mbuf[b].next = NULL
    BY <1>1
  <2> QED BY <2>1, <2>2 DEF Links
<1>4. sock \in Socks /\ sock.shadow = NULL /\ sock.next = NULL
  BY <1>1, <1>2 DEF Socks
<1>5. Queued(mbuf, <<>>, 0) /\ <<>> \in Seq(Bufs)
  BY DEF Queued
<1>6. ~(Start(<<>>, 0) > 1)
  BY DEF Start
<1>7. ShadowAt(mbuf, sock, Start(<<>>, 0)) /\ HeldAt({}, sock, Start(<<>>, 0))
  BY <1>4 DEF ShadowAt, HeldAt
<1>8. {} \subseteq Bufs /\ 0 \in Pointers
  BY <1>2
<1>9. Shaped
  BY <1>1, <1>3, <1>4, <1>5, <1>6, <1>7, <1>8, Zenon DEF Shaped, Sound
<1>10. last = [asked |-> 0, total |-> 0, first |-> 0, head |-> NULL, size |-> 0, cut |-> FALSE]
  BY DEF Init
<1>11. /\ last \in [asked : 0 .. MaxAsk, total : Nat, first : Nat, head : Nat, size : Nat, cut : BOOLEAN]
       /\ last.asked = 0
  BY <1>2, <1>10
<1>12. Reported
  BY <1>11 DEF Reported
<1>13. TypeOK
  <2>1. freed = {} /\ twice = {} /\ events = 0 /\ unheard = FALSE
        /\ selects \in BOOLEAN /\ ready = FALSE /\ awake = FALSE /\ open = TRUE /\ boundary = FALSE
    BY DEF Init
  <2>2. queue \in Seq(Bufs) /\ made \in Pointers /\ held \subseteq Bufs
    BY <1>1, <1>2
  <2> QED BY <1>3, <1>4, <1>11, <2>1, <2>2 DEF TypeOK, Links, Mbuf, Socks
<1> QED BY <1>9, <1>12, <1>13 DEF Shape

LEMMA ShapeDeliver ==
  ASSUME Shape, NEW lens \in BoundedSeq(1 .. MaxLen, MaxChain), lens # <<>>, Deliver(lens)
  PROVE  Shape'
<1>1. Links(mbuf) /\ made \in Pointers /\ Sound(mbuf, queue, made, sock, held)
  BY DEF Shape, Shaped, Sound
<1>2. PICK e : Delivers(e)
  BY <1>1, DeliverIs
<1>3. /\ UNCHANGED <<sock, held, last, selects, unheard, awake, freed, twice, open, boundary>>
      /\ ready' = TRUE /\ (events' = events \/ events' = events + 1)
  BY Zenon DEF Deliver
<1>4. PICK h, v, d : h = mbuf' /\ v = queue' /\ d = made'
  OBVIOUS
<1>5. /\ e \in Bufs /\ d = e /\ v = Append(queue, made + 1) /\ Links(h) /\ Row(h, made + 1, e)
      /\ \A b \in Bufs : b <= made => h[b] = mbuf[b]
  BY <1>2, <1>4 DEF Delivers
<1>6. Sound(h, v, d, sock, held)
  BY <1>1, <1>5, SoundDeliver
<1>7. Shaped'
  BY <1>3, <1>4, <1>6 DEF Shaped
<1>8. Reported'
  BY <1>3 DEF Shape, Reported
<1>9. TypeOK'
  <2>1. /\ h \in [Bufs -> Mbuf] /\ v \in Seq(Bufs) /\ d \in Pointers
    BY <1>6 DEF Sound, Links
  <2>2. events' \in Nat
    BY <1>3 DEF Shape, TypeOK
  <2> QED BY <1>3, <1>4, <2>1, <2>2 DEF Shape, TypeOK, Mbuf
<1> QED BY <1>7, <1>8, <1>9 DEF Shape

LEMMA ShapeReceive ==
  ASSUME Shape, NEW n \in 0 .. MaxAsk, Receive(n)
  PROVE  Shape'
<1>1. Sound(mbuf, queue, made, sock, held) /\ n \in Nat
  BY ShadowReadAssumption DEF Shape, Shaped
<1>2. /\ UNCHANGED <<made, selects, freed, twice, open>>
      /\ ready' \in BOOLEAN /\ awake' \in BOOLEAN /\ (events' = events \/ events' = events + 1)
      /\ unheard' \in BOOLEAN
  <2>0. unheard' = unheard \/ \E k, p : \E room \in BOOLEAN : unheard' = (Announces(k, n, p) /\ ~room)
    BY Zenon DEF Receive
  <2>1. UNCHANGED <<made, selects, freed, twice, open>> /\ ready' \in BOOLEAN
    BY Zenon DEF Receive
  <2>2. events' = events \/ events' = events + 1
    BY Zenon DEF Receive
  <2>3. awake' = FALSE \/ awake' = awake
    BY Zenon DEF Receive
  <2>4. awake \in BOOLEAN /\ unheard \in BOOLEAN
    BY DEF Shape, TypeOK
  <2> QED BY <2>0, <2>1, <2>2, <2>3, <2>4
<1>3. events' \in Nat
  BY <1>2 DEF Shape, TypeOK
<1>4. CASE UNCHANGED <<queue, mbuf, sock, held, got, last, boundary>>
  <2>1. Shaped'
    BY <1>2, <1>4 DEF Shape, Shaped
  <2>2. Reported'
    BY <1>4 DEF Shape, Reported
  <2>3. TypeOK'
    BY <1>2, <1>3, <1>4 DEF Shape, TypeOK
  <2> QED BY <2>1, <2>2, <2>3 DEF Shape
<1>5. CASE \E s, f, r : Reads(n, s, f, r, queue') /\ Sets(n, s, r)
  <2>1. PICK s, f, r : Reads(n, s, f, r, queue') /\ Sets(n, s, r)
    BY <1>5
  <2>2. PICK g : g = GetFromShadow(mbuf, sock)
    OBVIOUS
  <2>3. PICK v : v = queue'
    OBVIOUS
  <2>4. /\ s \in Bufs /\ f \in Bufs /\ s <= f
        /\ s = IF sock.shadow = NULL THEN Start(queue, made) ELSE sock.shadow
        /\ v \in Seq(Bufs) /\ Queued(mbuf, v, made) /\ Start(v, made) = f + 1
        /\ Links(g.m) /\ NoShadow(g.k) /\ (\A b \in Bufs : f < b => g.m[b] = mbuf[b])
        /\ Returns(g.m, s, f, g.k, n, r)
    BY <2>1, <2>2, <2>3 DEF Reads, Unread
  <2>5. After(g.m, s, f, n, r)
    BY <1>1, <2>4, ReturnsAfter
  <2>6. Sound(r.m, v, made, r.k, held \cup {s})
    <3>1. PICK h : h = g.m
      OBVIOUS
    <3>2. Links(h) /\ (\A b \in Bufs : f < b => h[b] = mbuf[b]) /\ After(h, s, f, n, r)
      BY <2>4, <2>5, <3>1
    <3>3. /\ s \in Bufs /\ f \in Bufs /\ s <= f
          /\ s = IF sock.shadow = NULL THEN Start(queue, made) ELSE sock.shadow
          /\ v \in Seq(Bufs) /\ Queued(mbuf, v, made) /\ Start(v, made) = f + 1
      BY <2>4
    <3> QED BY <1>1, <3>2, <3>3, SoundRead, Zenon
  <2>7. /\ mbuf' = r.m /\ sock' = r.k /\ held' = held \cup {s}
        /\ last' = [asked |-> n, total |-> r.total, first |-> r.first, head |-> r.m[s].len,
                    size |-> Size(r.m, s), cut |-> r.cut]
        /\ boundary' = (boundary \/ r.at)
    BY <2>1 DEF Sets
  <2>8. Shaped'
    BY <1>2, <2>3, <2>6, <2>7 DEF Shaped
  <2>9. /\ r.total \in Nat /\ r.first \in Nat /\ r.cut \in BOOLEAN /\ r.at \in BOOLEAN
        /\ Size(r.m, s) \in Nat /\ r.m[s].len \in Nat
        /\ n > 0 => /\ r.total = Size(r.m, s) \/ Size(r.m, s) = 0
                    /\ r.total <= n
                    /\ r.total < n => r.k.shadow = NULL
                    /\ ~r.cut => r.first = r.m[s].len
    BY <2>5 DEF After
  <2>10. last' \in [asked : 0 .. MaxAsk, total : Nat, first : Nat, head : Nat, size : Nat, cut : BOOLEAN]
    BY <2>7, <2>9
  <2>11. Reported'
    BY <2>7, <2>9 DEF Reported
  <2>12. TypeOK'
    <3>1. boundary' \in BOOLEAN
      BY <2>7, <2>9 DEF Shape, TypeOK
    <3>2. /\ mbuf' \in [Bufs -> Mbuf] /\ queue' \in Seq(Bufs) /\ sock' \in Socks
          /\ held' \subseteq Bufs
      BY <2>3, <2>6, <2>7 DEF Sound, Links
    <3> QED BY <1>2, <1>3, <2>10, <3>1, <3>2 DEF Shape, TypeOK, Mbuf, Socks
  <2> QED BY <2>8, <2>11, <2>12 DEF Shape
<1> QED BY <1>1, <1>4, <1>5, ReceiveReads

LEMMA ShapeRelease ==
  ASSUME Shape, NEW p \in held, ReleaseRxBuffer(p)
  PROVE  Shape'
<1>1. Sound(mbuf, queue, made, sock, held)
  BY DEF Shape, Shaped
<1>2. PICK e \in Bufs : /\ Row(mbuf, p, e) /\ e < Unread
                        /\ Released(p) = {b \in p .. e : sock.shadow = NULL \/ b < sock.shadow}
  BY <1>1, ReleasedIs
<1>3. PICK X : X = Released(p)
  OBVIOUS
<1>4. /\ held' = held \ {p} /\ freed' = freed \cup X /\ twice' = twice \cup (X \cap freed)
      /\ mbuf' = Cleared(mbuf, X)
      /\ UNCHANGED <<made, queue, last, boundary, sock, selects, ready, events, unheard, awake, open>>
  BY <1>3 DEF ReleaseRxBuffer, FreeBufs, Cleared, history, signals
<1>5. p .. e \subseteq Bufs /\ p \in Nat /\ e \in Nat
  BY <1>2, RowBounds
<1>6. X \subseteq Bufs
  BY <1>2, <1>3, <1>5
<1>7. ASSUME NEW b \in X
      PROVE  b \in Nat /\ b < Start(queue, made) /\ (sock.shadow # NULL => b < sock.shadow)
  <2>1. b \in p .. e /\ (sock.shadow = NULL \/ b < sock.shadow)
    BY <1>2, <1>3
  <2>2. Start(queue, made) \in Nat /\ e < Start(queue, made)
    BY <1>1, <1>2, SoundStart DEF Unread
  <2> QED BY <1>5, <2>1, <2>2
<1>8. Sound(Cleared(mbuf, X), queue, made, sock, held \ {p})
  <2>1. held \ {p} \subseteq held
    OBVIOUS
  <2> QED BY <1>1, <1>7, <2>1, SoundCleared
<1>9. Shaped'
  BY <1>4, <1>8 DEF Shaped
<1>10. Reported'
  BY <1>4 DEF Shape, Reported
<1>11. TypeOK'
  <2>1. mbuf' \in [Bufs -> Mbuf]
    BY <1>4, <1>8 DEF Sound, Links
  <2>2. freed' \subseteq Bufs /\ twice' \subseteq freed' /\ held' \subseteq Bufs
    BY <1>4, <1>6 DEF Shape, TypeOK
  <2> QED BY <1>4, <2>1, <2>2 DEF Shape, TypeOK, Mbuf
<1> QED BY <1>9, <1>10, <1>11 DEF Shape

\* What ipaugenblick_close frees, and what of it twice.
Queueds == UNION {Linked(mbuf, queue[i]) : i \in DOMAIN queue}
Shadoweds == Linked(mbuf, sock.shadow)
Nexts == IF sock.next \in Shadoweds THEN {sock.next} ELSE Linked(mbuf, sock.next)

LEMMA CloseUnfolds ==
  ASSUME Close
  PROVE  /\ open' = FALSE /\ queue' = <<>> /\ (ReleaseFirst => held = {})
         /\ sock' = [shadow |-> NULL, next |-> NULL, remainder |-> 0, delivered |-> 0]
         /\ freed' = freed \cup (Queueds \cup Shadoweds \cup Nexts)
         /\ twice' = twice \cup ((Queueds \cup Shadoweds \cup Nexts) \cap freed)
                           \cup (Shadoweds \cap Nexts)
         /\ mbuf' = Cleared(mbuf, Queueds \cup Shadoweds \cup Nexts)
         /\ UNCHANGED <<made, stream, got, last, boundary, held, selects, ready, events, unheard, awake>>
<1>1. FreeBufs(Queueds \cup Shadoweds \cup Nexts, Shadoweds \cap Nexts)
  BY Zenon DEF Close, Queueds, Shadoweds, Nexts
<1>2. /\ open' = FALSE /\ queue' = <<>> /\ (ReleaseFirst => held = {})
      /\ sock' = [shadow |-> NULL, next |-> NULL, remainder |-> 0, delivered |-> 0]
      /\ UNCHANGED <<made, stream, got, last, boundary, held, selects, ready, events, unheard, awake>>
  BY Zenon DEF Close, history, signals
<1> QED BY <1>1, <1>2, Zenon DEF FreeBufs, Cleared

LEMMA ShapeClose ==
  ASSUME Shape, Close
  PROVE  Shape'
<1>1. Sound(mbuf, queue, made, sock, held) /\ Links(mbuf) /\ sock \in Socks
      /\ queue \in Seq(Bufs) /\ made \in Pointers /\ Queued(mbuf, queue, made)
  BY DEF Shape, Shaped, Sound
<1>2. PICK X : X = Queueds \cup Shadoweds \cup Nexts
  OBVIOUS
<1>3. /\ open' = FALSE /\ queue' = <<>>
      /\ sock' = [shadow |-> NULL, next |-> NULL, remainder |-> 0, delivered |-> 0]
      /\ freed' = freed \cup X
      /\ twice' = twice \cup (X \cap freed) \cup (Shadoweds \cap Nexts)
      /\ mbuf' = Cleared(mbuf, X)
      /\ UNCHANGED <<made, last, boundary, held, selects, ready, events, unheard, awake>>
  BY <1>2, CloseUnfolds
<1>4. X \subseteq Bufs /\ Shadoweds \cap Nexts \subseteq X
  <2>1. Queueds \subseteq Bufs
    <3>1. Queueds = Start(queue, made) .. made
      BY <1>1, QueuedLinked DEF Queueds
    <3>2. Start(queue, made) \in Nat /\ 1 <= Start(queue, made) /\ made \in Nat /\ made <= MaxBufs
      BY <1>1, SoundStart
    <3> QED BY <3>1, <3>2, BufsAre
  <2>2. sock.shadow \in Pointers /\ sock.next \in Pointers
    BY <1>1 DEF Socks
  <2>3. Shadoweds \subseteq Bufs /\ Linked(mbuf, sock.next) \subseteq Bufs
    BY <1>1, <2>2, LinkedAre DEF Shadoweds
  <2>4. Nexts \subseteq Bufs
    BY <2>3 DEF Nexts
  <2> QED BY <1>2, <2>1, <2>3, <2>4
<1>5. sock' \in Socks /\ sock'.shadow = NULL /\ sock'.next = NULL
  BY <1>3, BufsAre DEF Socks
<1>6. Sound(Cleared(mbuf, X), <<>>, made, sock', held)
  BY <1>1, <1>5, SoundClosed
<1>7. Shaped'
  BY <1>3, <1>6 DEF Shaped
<1>8. Reported'
  BY <1>3, <1>5 DEF Shape, Reported
<1>9. TypeOK'
  <2>1. mbuf' \in [Bufs -> Mbuf] /\ queue' \in Seq(Bufs)
    BY <1>3, <1>6 DEF Sound, Links
  <2>2. freed' \subseteq Bufs /\ twice' \subseteq freed'
    BY <1>3, <1>4 DEF Shape, TypeOK
  <2> QED BY <1>3, <1>5, <2>1, <2>2 DEF Shape, TypeOK, Mbuf, Socks
<1> QED BY <1>7, <1>8, <1>9 DEF Shape

LEMMA ShapeStep == Shape /\ [Next]_vars => Shape'
<1> SUFFICES ASSUME Shape, [Next]_vars PROVE Shape'
  OBVIOUS
<1>1. ASSUME NEW lens \in BoundedSeq(1 .. MaxLen, MaxChain), lens # <<>>, Deliver(lens)
      PROVE  Shape'
  BY <1>1, ShapeDeliver
<1>2. CASE Select
  <2>1. /\ UNCHANGED <<mbuf, freed, twice, made, queue, last, boundary, sock, held, selects, ready, unheard, open>>
        /\ events' = events - 1 /\ events > 0 /\ awake' = TRUE
    BY <1>2 DEF Select, buffers, history
  <2>2. Shaped' /\ Reported'
    BY <2>1 DEF Shape, Shaped, Reported
  <2>3. TypeOK'
    BY <2>1 DEF Shape, TypeOK
  <2> QED BY <2>2, <2>3 DEF Shape
<1>3. ASSUME NEW n \in 0 .. MaxAsk, Receive(n) PROVE Shape'
  BY <1>3, ShapeReceive
<1>4. ASSUME NEW p \in held, ReleaseRxBuffer(p) PROVE Shape'
  BY <1>4, ShapeRelease
<1>5. CASE Close
  BY <1>5, ShapeClose
<1>6. CASE UNCHANGED vars
  BY <1>6 DEF vars, buffers, history, signals, Shape, Shaped, Reported, TypeOK
<1> QED BY <1>1, <1>2, <1>3, <1>4, <1>5, <1>6 DEF Next

\* ipaugenblick_get_from_shadow and ipaugenblick_try_read_exact_amount keep every
\* pointer, offset and length within its type, whatever lengths are asked for and
\* in whatever order chains are delivered, read, released and flushed.
THEOREM TypesHold == Spec => []TypeOK
<1>1. Spec => []Shape
  BY ShapeInit, ShapeStep, PTL DEF Spec
<1>2. Shape => TypeOK
  BY DEF Shape
<1> QED BY <1>1, <1>2, PTL

\* Buffers that wait have data, and so has what a read left inside a buffer.
Filled ==
  /\ \A b \in Bufs : Unread <= b /\ b <= made => mbuf[b].len > 0
  /\ ~boundary /\ sock.shadow # NULL => sock.remainder > 0
  /\ last.asked > 0 /\ last.size = 0 => boundary

LEMMA FilledInit == Init => Filled
<1> SUFFICES ASSUME Init PROVE Filled
  OBVIOUS
<1>1. made = 0 /\ sock.shadow = NULL /\ last.asked = 0
  BY DEF Init
<1>2. \A b \in Bufs : ~(b <= made)
  BY <1>1, BufsAre
<1> QED BY <1>1, <1>2 DEF Filled

LEMMA FilledDeliver ==
  ASSUME Shape, Filled, NEW lens \in BoundedSeq(1 .. MaxLen, MaxChain), lens # <<>>, Deliver(lens)
  PROVE  Filled'
<1>1. Links(mbuf) /\ made \in Pointers /\ Sound(mbuf, queue, made, sock, held)
  BY DEF Shape, Shaped, Sound
<1>2. PICK e : Delivers(e)
  BY <1>1, DeliverIs
<1>3. UNCHANGED <<sock, last, boundary>>
  BY Zenon DEF Deliver
<1>4. PICK h, v, d, z : h = mbuf' /\ v = queue' /\ d = made' /\ z = Unread'
  OBVIOUS
<1>5. /\ e \in Bufs /\ d = e /\ v = Append(queue, made + 1) /\ Links(h) /\ Row(h, made + 1, e)
      /\ \A b \in Bufs : b <= made => h[b] = mbuf[b]
      /\ \A b \in made + 1 .. e : h[b].len > 0
  BY <1>2, <1>4 DEF Delivers
<1>6. z = Start(queue, made)
  <2>1. z = Start(v, d)
    BY <1>4 DEF Unread
  <2> QED BY <1>1, <1>5, <2>1, SoundDeliver
<1>7. ASSUME NEW b \in Bufs, z <= b, b <= d PROVE h[b].len > 0
  <2>1. CASE b <= made
    <3>1. mbuf[b].len > 0
      BY <1>6, <1>7, <2>1 DEF Filled, Unread
    <3> QED BY <1>5, <2>1, <3>1
  <2>2. CASE ~(b <= made)
    <3>1. b \in made + 1 .. e
      BY <1>1, <1>5, <1>7, <2>2, BufsAre
    <3> QED BY <1>5, <3>1
  <2> QED BY <2>1, <2>2
<1>8. \A b \in Bufs : z <= b /\ b <= d => h[b].len > 0
  BY <1>7
<1> QED BY <1>3, <1>4, <1>8 DEF Filled

LEMMA FilledReceive ==
  ASSUME Shape, Filled, NEW n \in 0 .. MaxAsk, Receive(n)
  PROVE  Filled'
<1>1. Sound(mbuf, queue, made, sock, held) /\ n \in Nat
  BY ShadowReadAssumption DEF Shape, Shaped
<1>2. UNCHANGED made
  BY Zenon DEF Receive
<1>3. CASE UNCHANGED <<queue, mbuf, sock, held, got, last, boundary>>
  BY <1>2, <1>3 DEF Filled, Unread
<1>4. CASE \E s, f, r : Reads(n, s, f, r, queue') /\ Sets(n, s, r)
  <2>1. PICK s, f, r : Reads(n, s, f, r, queue') /\ Sets(n, s, r)
    BY <1>4
  <2>2. PICK g : g = GetFromShadow(mbuf, sock)
    OBVIOUS
  <2>3. PICK v, z : v = queue' /\ z = Unread'
    OBVIOUS
  <2>4. /\ s \in Bufs /\ f \in Bufs /\ s <= f
        /\ s = IF sock.shadow = NULL THEN Unread ELSE sock.shadow
        /\ Start(v, made) = f + 1
        /\ Links(g.m) /\ NoShadow(g.k) /\ (\A b \in Bufs : f < b => g.m[b] = mbuf[b])
        /\ Returns(g.m, s, f, g.k, n, r)
    BY <2>1, <2>2, <2>3 DEF Reads
  <2>5. After(g.m, s, f, n, r)
    BY <1>1, <2>4, ReturnsAfter
  <2>6. /\ mbuf' = r.m /\ sock' = r.k
        /\ last'.asked = n /\ last'.size = Size(r.m, s)
        /\ boundary' = (boundary \/ r.at)
    BY <2>1 DEF Sets
  <2>7. z = f + 1
    BY <1>2, <2>3, <2>4 DEF Unread
  <2>8. PICK u \in Nat : u = Unread /\ 1 <= u /\ u - 1 <= MaxBufs
    BY <1>1, SoundStart DEF Unread
  <2>9. mbuf \in [Bufs -> Mbuf] /\ ShadowAt(mbuf, sock, u) /\ sock \in Socks
    BY <1>1, <2>8 DEF Sound, Links, Unread
  <2>10. ASSUME NEW b \in Bufs, z <= b, b <= made PROVE r.m[b].len > 0
    <3>1. r.m[b] = mbuf[b] /\ f < b
      BY <2>4, <2>5, <2>7, <2>10, BufsAre DEF After
    <3>2. u <= b
      <4>1. u <= f + 1
        BY <2>1, <2>8 DEF Reads
      <4> QED BY <2>4, <2>8, <3>1, <4>1, BufsAre
    <3> QED BY <2>8, <2>10, <3>1, <3>2 DEF Filled
  <2>11. ASSUME ~boundary PROVE g.m[s].len > 0
    <3>1. CASE sock.shadow = NULL
      <4>1. g.m = mbuf
        BY <2>2, <3>1 DEF GetFromShadow
      <4>2. s <= made
        <5>1. Queued(mbuf, v, made) /\ v \in Seq(Bufs) /\ made \in Pointers
          BY <1>1, <2>1, <2>3 DEF Reads, Sound
        <5>2. f + 1 <= made + 1
          BY <2>4, <5>1, QueuedStart
        <5>3. s \in Nat /\ f \in Nat /\ made \in Nat /\ s <= f
          BY <2>4, <5>1, BufsAre
        <5> QED BY <5>2, <5>3
      <4> QED BY <2>4, <3>1, <4>1, <4>2, BufsAre DEF Filled
    <3>2. CASE sock.shadow # NULL
      <4>1. g.m[s].len = sock.remainder
        BY <2>2, <2>4, <2>9, <3>2 DEF GetFromShadow
      <4> QED BY <2>11, <3>2, <4>1 DEF Filled
    <3> QED BY <3>1, <3>2
  <2>12. ASSUME ~boundary
         PROVE  (n > 0 => Size(r.m, s) # 0) /\ (~r.at /\ r.k.shadow # NULL => r.k.remainder > 0)
    BY <1>1, <2>4, <2>11, <2>12, ReturnsFills
  <2>13. boundary \in BOOLEAN /\ r.at \in BOOLEAN
    BY <2>5 DEF Shape, TypeOK, After
  <2>14. \A b \in Bufs : z <= b /\ b <= made => r.m[b].len > 0
    BY <2>10
  <2>15. (~boundary' /\ sock'.shadow # NULL => sock'.remainder > 0)
         /\ (last'.asked > 0 /\ last'.size = 0 => boundary')
    BY <2>6, <2>12, <2>13
  <2> QED BY <1>2, <2>3, <2>6, <2>14, <2>15 DEF Filled
<1> QED BY <1>1, <1>3, <1>4, ReceiveReads

LEMMA FilledStep == Shape /\ Filled /\ [Next]_vars => Filled'
<1> SUFFICES ASSUME Shape, Filled, [Next]_vars PROVE Filled'
  OBVIOUS
<1>1. ASSUME NEW lens \in BoundedSeq(1 .. MaxLen, MaxChain), lens # <<>>, Deliver(lens)
      PROVE  Filled'
  BY <1>1, FilledDeliver
<1>2. CASE Select
  BY <1>2 DEF Select, buffers, history, Filled, Unread
<1>3. ASSUME NEW n \in 0 .. MaxAsk, Receive(n) PROVE Filled'
  BY <1>3, FilledReceive
<1>4. ASSUME NEW p \in held, ReleaseRxBuffer(p) PROVE Filled'
  <2>1. /\ mbuf' = Cleared(mbuf, Released(p)) /\ Links(mbuf)
        /\ UNCHANGED <<made, queue, sock, last, boundary>>
    BY <1>4 DEF ReleaseRxBuffer, FreeBufs, Cleared, history, Shape, Shaped, Sound
  <2>2. \A b \in Bufs : mbuf'[b].len = mbuf[b].len
    BY <2>1, ClearedIs
  <2> QED BY <2>1, <2>2 DEF Filled, Unread
<1>5. CASE Close
  <2>1. /\ queue' = <<>> /\ sock'.shadow = NULL /\ UNCHANGED <<made, last, boundary>>
    BY <1>5, CloseUnfolds
  <2>2. made \in Nat /\ Unread' = made + 1
    BY <2>1, BufsAre DEF Unread, Start, Shape, TypeOK
  <2>3. \A b \in Bufs : ~(Unread' <= b /\ b <= made)
    BY <2>2, BufsAre
  <2> QED BY <2>1, <2>3 DEF Filled
<1>6. CASE UNCHANGED vars
  BY <1>6 DEF vars, buffers, history, signals, Filled, Unread
<1> QED BY <1>1, <1>2, <1>3, <1>4, <1>5, <1>6 DEF Next

\* What ipaugenblick_receive writes to *total_len and *first_segment_len is what the
\* returned chain holds, and a read returns less than asked only if it leaves no
\* shadow: for every number and length of buffers.  Only a read that returns nothing
\* misstates its length, and only after a read that ended with a buffer.
THEOREM LengthsReported == Spec => []ReportsLength
<1>1. Spec => [](Shape /\ Filled)
  BY ShapeInit, ShapeStep, FilledInit, FilledStep, PTL DEF Spec
<1>2. Shape /\ Filled => ReportsLength
  BY DEF Shape, Filled, Reported, ReportsLength
<1> QED BY <1>1, <1>2, PTL

-----------------------------------------------------------------------------
(* The order of the bytes.  Until a read ends with a buffer, what the      *)
(* application has not read of the stream is the rest of the shadow        *)
(* buffer, then the buffers behind it up to the last one filled.           *)

LEMMA RestTyped ==
  ASSUME NEW m, NEW q, NEW d, NEW k, NEW H, Sound(m, q, d, k, H)
  PROVE  /\ RestOf(m, k, Start(q, d), d) \in Seq(Byte)
         /\ k.shadow # NULL =>
              /\ k.shadow \in Bufs /\ k.shadow + 1 <= Start(q, d)
              /\ Piece(k.shadow, m[k.shadow].off + k.delivered, k.remainder) \in Seq(Byte)
<1>1. PICK u \in Nat : u = Start(q, d) /\ 1 <= u /\ d \in Nat
  BY SoundStart
<1>2. Links(m) /\ d \in Pointers /\ k \in Socks /\ ShadowAt(m, k, u)
  BY <1>1 DEF Sound
<1>3. CASE k.shadow = NULL
  <2>1. Span(m, u, d) \in Seq(Byte)
    BY <1>1, <1>2, SpanUnfolds
  <2> QED BY <1>1, <1>3, <2>1 DEF RestOf
<1>4. CASE k.shadow # NULL
  <2>1. PICK s \in Bufs : s = k.shadow /\ s \in Nat /\ s >= 1 /\ s < u
    BY <1>2, <1>4, BufsAre DEF Socks, ShadowAt
  <2>2. PICK o \in Nat : o = m[s].off + k.delivered
    BY <1>2, <2>1, NextOf DEF Socks
  <2>3. k.remainder \in Nat
    BY <1>2 DEF Socks
  <2>4. Piece(s, o, k.remainder) \in Seq(Byte)
    BY <2>2, <2>3, PieceTyped
  <2>5. s + 1 \in Nat /\ s + 1 >= 1 /\ s + 1 <= u
    BY <1>1, <2>1
  <2>6. Span(m, s + 1, d) \in Seq(Byte)
    BY <1>2, <2>5, SpanUnfolds
  <2>7. Cat(Piece(s, o, k.remainder), Span(m, s + 1, d)) \in Seq(Byte)
    BY <2>4, <2>6, CatTyped
  <2> QED BY <1>1, <1>4, <2>1, <2>2, <2>4, <2>5, <2>7 DEF RestOf
<1> QED BY <1>3, <1>4

\* A delivered chain comes last.
LEMMA RestGrows ==
  ASSUME NEW m, NEW q, NEW d, NEW k, NEW H, Sound(m, q, d, k, H),
         NEW h, Links(h), NEW e \in Bufs, Row(h, d + 1, e),
         \A b \in Bufs : b <= d => h[b] = m[b]
  PROVE  RestOf(h, k, Start(q, d), e) = Cat(RestOf(m, k, Start(q, d), d), Contents(h, d + 1))
<1>1. PICK u \in Nat : u = Start(q, d) /\ 1 <= u /\ u - 1 <= d /\ d \in Nat /\ d <= MaxBufs
  BY SoundStart
<1>2. Links(m) /\ d \in Pointers
  BY DEF Sound
<1>3. e \in Pointers /\ e \in Nat /\ d + 1 <= e /\ d + 1 \in Nat /\ d + 1 >= 1
  BY <1>1, RowBounds, BufsAre
<1>4. Contents(h, d + 1) = Span(h, d + 1, e) /\ Span(h, d + 1, e) \in Seq(Byte)
  BY <1>3, RowContents, SpanUnfolds
<1>5. ASSUME NEW a \in Nat, 1 <= a, a <= u
      PROVE  /\ Span(h, a, e) = Cat(Span(m, a, d), Span(h, d + 1, e))
             /\ Span(m, a, d) \in Seq(Byte)
  <2>1. a <= d + 1 /\ (d + 1) - 1 <= e /\ (d + 1) - 1 = d /\ a >= 1
    BY <1>1, <1>3, <1>5
  <2>2. Span(h, a, e) = Cat(Span(h, a, (d + 1) - 1), Span(h, d + 1, e))
    BY <1>3, <2>1, SpanSplits
  <2>3. \A b \in a .. d : Bytes(h, b) = Bytes(m, b)
    <3> SUFFICES ASSUME NEW b \in a .. d PROVE Bytes(h, b) = Bytes(m, b)
      OBVIOUS
    <3>1. b \in Bufs /\ b <= d
      BY <1>1, <2>1, BufsAre
    <3>2. h[b] = m[b]
      BY <3>1
    <3> QED BY <3>2 DEF Bytes
  <2>4. Span(h, a, d) = Span(m, a, d)
    BY <1>2, <2>1, <2>3, SpanSame
  <2>5. Span(m, a, d) \in Seq(Byte)
    BY <1>2, <2>1, SpanUnfolds
  <2> QED BY <2>1, <2>2, <2>4, <2>5
<1>6. CASE k.shadow = NULL
  BY <1>1, <1>4, <1>5, <1>6 DEF RestOf
<1>7. CASE k.shadow # NULL
  <2>1. PICK s \in Bufs : s = k.shadow /\ s \in Nat /\ s + 1 <= u /\ 1 <= s + 1 /\ s + 1 \in Nat
    BY <1>1, <1>7, RestTyped, BufsAre
  <2>2. PICK p \in Seq(Byte) : p = Piece(s, m[s].off + k.delivered, k.remainder)
    BY <1>7, <2>1, RestTyped
  <2>3. h[s] = m[s]
    BY <1>1, <2>1
  <2>4. PICK t \in Seq(Byte) : t = Span(m, s + 1, d) /\ Span(h, s + 1, e) = Cat(t, Span(h, d + 1, e))
    BY <1>5, <2>1
  <2>5. Cat(Cat(p, t), Span(h, d + 1, e)) = Cat(p, Cat(t, Span(h, d + 1, e)))
    BY <1>4, <2>2, <2>4, CatAssociates
  <2>6. RestOf(h, k, u, e) = Cat(p, Cat(t, Span(h, d + 1, e)))
    BY <1>7, <2>1, <2>2, <2>3, <2>4 DEF RestOf
  <2>7. RestOf(m, k, u, d) = Cat(p, t)
    BY <1>7, <2>1, <2>2, <2>4 DEF RestOf
  <2> QED BY <1>1, <1>4, <2>5, <2>6, <2>7
<1> QED BY <1>6, <1>7

\* ipaugenblick_get_from_shadow makes the rest a chain again.
LEMMA RestRead ==
  ASSUME NEW m, NEW q, NEW d, NEW k, NEW H, Sound(m, q, d, k, H),
         NEW h, Links(h), \A b \in Bufs \ {k.shadow} : h[b] = m[b],
         k.shadow # NULL => Bytes(h, k.shadow) = Piece(k.shadow, m[k.shadow].off + k.delivered, k.remainder),
         NEW s, s = IF k.shadow = NULL THEN Start(q, d) ELSE k.shadow
  PROVE  RestOf(m, k, Start(q, d), d) = Span(h, s, d)
<1>1. PICK u \in Nat : u = Start(q, d) /\ 1 <= u /\ u - 1 <= d /\ d \in Nat /\ d <= MaxBufs
  BY SoundStart
<1>2. Links(m) /\ d \in Pointers
  BY DEF Sound
<1>3. ASSUME NEW a \in Nat, 1 <= a, k.shadow = NULL \/ k.shadow < a, k.shadow \in Nat
      PROVE  Span(h, a, d) = Span(m, a, d)
  <2>1. \A b \in a .. d : Bytes(h, b) = Bytes(m, b)
    <3> SUFFICES ASSUME NEW b \in a .. d PROVE Bytes(h, b) = Bytes(m, b)
      OBVIOUS
    <3>1. b \in Bufs /\ b # k.shadow
      BY <1>1, <1>3, BufsAre
    <3>2. h[b] = m[b]
      BY <3>1
    <3> QED BY <3>2 DEF Bytes
  <2> QED BY <1>2, <1>3, <2>1, SpanSame
<1>4. CASE k.shadow = NULL
  <2>1. s = u /\ Span(h, u, d) = Span(m, u, d)
    BY <1>1, <1>3, <1>4, BufsAre
  <2> QED BY <1>1, <1>4, <2>1 DEF RestOf
<1>5. CASE k.shadow # NULL
  <2>1. s = k.shadow /\ s \in Bufs /\ s \in Nat /\ s + 1 <= u /\ 1 <= s
    BY <1>1, <1>5, RestTyped, BufsAre
  <2>2. Span(h, s, d) = Cat(Bytes(h, s), Span(h, s + 1, d))
    BY <1>1, <1>2, <2>1, SpanUnfolds
  <2>3. Span(h, s + 1, d) = Span(m, s + 1, d)
    BY <1>3, <2>1
  <2> QED BY <1>1, <1>5, <2>1, <2>2, <2>3 DEF RestOf
<1> QED BY <1>4, <1>5

\* Giving buffers back takes none of the rest.
LEMMA RestCleared ==
  ASSUME NEW m, NEW q, NEW d, NEW k, NEW H, Sound(m, q, d, k, H), NEW X
  PROVE  RestOf(Cleared(m, X), k, Start(q, d), d) = RestOf(m, k, Start(q, d), d)
<1>1. PICK u \in Nat : u = Start(q, d) /\ 1 <= u /\ u - 1 <= d /\ d \in Nat /\ d <= MaxBufs
  BY SoundStart
<1>2. Links(m) /\ d \in Pointers
  BY DEF Sound
<1>3. PICK c : c = Cleared(m, X)
  OBVIOUS
<1>4. Links(c) /\ \A b \in Bufs : Bytes(c, b) = Bytes(m, b) /\ c[b].off = m[b].off
  BY <1>2, <1>3, ClearedIs
<1>5. ASSUME NEW a \in Nat, 1 <= a PROVE Span(c, a, d) = Span(m, a, d)
  <2>1. \A b \in a .. d : b \in Bufs
    BY <1>1, <1>5, BufsAre
  <2> QED BY <1>2, <1>4, <1>5, <2>1, SpanSame
<1>6. CASE k.shadow = NULL
  BY <1>1, <1>3, <1>5, <1>6 DEF RestOf
<1>7. CASE k.shadow # NULL
  <2>1. PICK s \in Bufs : s = k.shadow /\ s + 1 \in Nat /\ 1 <= s + 1
    BY <1>7, RestTyped, BufsAre
  <2>2. Span(c, s + 1, d) = Span(m, s + 1, d) /\ c[s].off = m[s].off
    BY <1>4, <1>5, <2>1
  <2> QED BY <1>1, <1>3, <1>7, <2>1, <2>2 DEF RestOf
<1> QED BY <1>6, <1>7
LEMMA PrefixOf ==
  ASSUME NEW S, NEW s \in Seq(S), NEW t \in Seq(S)
  PROVE  IsPrefix(s, Cat(s, t))
<1>1. PICK c \in Seq(S) : c = Cat(s, t) /\ c = s \o t
  BY CatTyped DEF Cat
<1>2. PICK l \in Nat : l = Len(s)
  OBVIOUS
<1>3. l <= Len(c) /\ \A i \in 1 .. l : c[i] = s[i]
  <2>1. Len(c) = l + Len(t) /\ Len(t) \in Nat
    BY <1>1, <1>2
  <2>2. ASSUME NEW i \in 1 .. l PROVE c[i] = s[i]
    BY <1>1, <1>2, <2>2
  <2> QED BY <2>1, <2>2
<1>4. SubSeq(s, 1, l) = [i \in 1 .. l |-> s[i]]
  BY <1>2
<1>5. SubSeq(c, 1, l) = [i \in 1 .. l |-> c[i]]
  BY <1>2
<1>6. [i \in 1 .. l |-> s[i]] = [i \in 1 .. l |-> c[i]]
  BY <1>3
<1> QED BY <1>1, <1>2, <1>3, <1>4, <1>5, <1>6 DEF IsPrefix

Ordered ==
  /\ got \in Seq(Byte)
  /\ ~boundary => \E w \in Seq(Byte) : /\ stream = Cat(got, w)
                                       /\ open => w = RestOf(mbuf, sock, Unread, made)

LEMMA OrderedInit == Init => Ordered
<1> SUFFICES ASSUME Init PROVE Ordered
  OBVIOUS
<1>1. /\ mbuf = [b \in Bufs |-> [off |-> 0, len |-> 0, next |-> NULL, pkt |-> 0]]
      /\ made = 0 /\ queue = <<>> /\ stream = <<>> /\ got = <<>>
      /\ sock.shadow = NULL
  BY DEF Init
<1>2. Shape
  BY ShapeInit
<1>3. Links(mbuf) /\ made \in Pointers
  BY <1>2 DEF Shape, Shaped, Sound
<1>4. Unread = 1
  BY <1>1 DEF Unread, Start
<1>5. Span(mbuf, 1, made) = <<>>
  BY <1>1, <1>3, SpanUnfolds
<1>6. RestOf(mbuf, sock, Unread, made) = <<>>
  BY <1>1, <1>4, <1>5 DEF RestOf
<1>7. <<>> \in Seq(Byte) /\ Cat(<<>>, <<>>) = <<>>
  <2>1. <<>> \in Seq(Byte)
    OBVIOUS
  <2> QED BY <2>1, CatTyped
<1> QED BY <1>1, <1>6, <1>7 DEF Ordered

LEMMA OrderedDeliver ==
  ASSUME Shape, Ordered, NEW lens \in BoundedSeq(1 .. MaxLen, MaxChain), lens # <<>>, Deliver(lens)
  PROVE  Ordered'
<1>1. Links(mbuf) /\ made \in Pointers /\ Sound(mbuf, queue, made, sock, held)
  BY DEF Shape, Shaped, Sound
<1>2. PICK e : Delivers(e)
  BY <1>1, DeliverIs
<1>3. UNCHANGED <<sock, got, open, boundary>>
  BY Zenon DEF Deliver
<1>4. PICK h, v, d, x, z : h = mbuf' /\ v = queue' /\ d = made' /\ x = stream' /\ z = Unread'
  OBVIOUS
<1>5. /\ e \in Bufs /\ d = e /\ v = Append(queue, made + 1) /\ Links(h) /\ Row(h, made + 1, e)
      /\ \A b \in Bufs : b <= made => h[b] = mbuf[b]
      /\ x = stream \o Contents(h, made + 1) /\ open
  BY <1>2, <1>4 DEF Delivers
<1>6. z = Start(queue, made)
  <2>1. z = Start(v, d)
    BY <1>4 DEF Unread
  <2> QED BY <1>1, <1>5, <2>1, SoundDeliver
<1>7. RestOf(h, sock, z, d) = Cat(RestOf(mbuf, sock, Unread, made), Contents(h, made + 1))
  BY <1>1, <1>5, <1>6, RestGrows DEF Unread
<1>8. PICK c \in Seq(Byte) : c = Contents(h, made + 1)
  <2>1. made + 1 \in Pointers
    BY <1>5, BufsAre DEF Row
  <2> QED BY <1>5, <2>1, ContentsUnfolds
<1>9. ASSUME ~boundary
      PROVE  \E w \in Seq(Byte) : x = Cat(got, w) /\ w = RestOf(h, sock, z, d)
  <2>1. PICK w \in Seq(Byte) : stream = Cat(got, w) /\ w = RestOf(mbuf, sock, Unread, made)
    BY <1>5, <1>9 DEF Ordered
  <2>2. x = Cat(Cat(got, w), c)
    BY <1>5, <1>8, <2>1 DEF Cat
  <2>3. x = Cat(got, Cat(w, c)) /\ Cat(w, c) \in Seq(Byte)
    BY <1>8, <2>1, <2>2, CatAssociates, CatTyped DEF Ordered
  <2> QED BY <1>7, <1>8, <2>1, <2>3
<1> QED BY <1>3, <1>4, <1>9 DEF Ordered

LEMMA OrderedReceive ==
  ASSUME Shape, Ordered, NEW n \in 0 .. MaxAsk, Receive(n)
  PROVE  Ordered'
<1>1. Sound(mbuf, queue, made, sock, held) /\ n \in Nat
  BY ShadowReadAssumption DEF Shape, Shaped
<1>2. UNCHANGED <<made, stream, open>> /\ open
  BY Zenon DEF Receive
<1>3. CASE UNCHANGED <<queue, mbuf, sock, held, got, last, boundary>>
  BY <1>2, <1>3 DEF Ordered, Unread
<1>4. CASE \E s, f, r : Reads(n, s, f, r, queue') /\ Sets(n, s, r)
  <2>1. PICK s, f, r : Reads(n, s, f, r, queue') /\ Sets(n, s, r)
    BY <1>4
  <2>2. PICK h, k : h = GetFromShadow(mbuf, sock).m /\ k = GetFromShadow(mbuf, sock).k
    OBVIOUS
  <2>3. PICK v : v = queue'
    OBVIOUS
  <2>4. /\ s \in Bufs /\ f \in Bufs /\ s <= f
        /\ s = IF sock.shadow = NULL THEN Start(queue, made) ELSE sock.shadow
        /\ v \in Seq(Bufs) /\ Queued(mbuf, v, made) /\ Start(v, made) = f + 1
        /\ Links(h) /\ NoShadow(k) /\ Returns(h, s, f, k, n, r)
    BY <2>1, <2>2, <2>3 DEF Reads, Unread
  <2>5. /\ mbuf' = r.m /\ sock' = r.k /\ got' = got \o Contents(r.m, s)
        /\ boundary' = (boundary \/ r.at)
    BY <2>1 DEF Sets
  <2>6. Links(r.m) /\ (~r.at => Orderly(h, s, f, r))
    BY <1>1, <2>4, ReturnsAfter DEF After
  <2>7. PICK c \in Seq(Byte) : c = Contents(r.m, s)
    BY <2>4, <2>6, ContentsUnfolds, BufsAre
  <2>8. got' \in Seq(Byte) /\ got' = Cat(got, c)
    BY <2>5, <2>7, CatTyped DEF Ordered, Cat
  <2>9. made \in Pointers /\ f <= made
    <3>1. made \in Pointers /\ made \in Nat
      BY <1>1, SoundStart DEF Sound
    <3>2. f \in Nat
      BY <2>4, BufsAre
    <3>3. Start(v, made) <= made + 1
      BY <2>4, <3>1, QueuedStart
    <3>4. f + 1 <= made + 1
      BY <2>4, <3>3
    <3> QED BY <3>1, <3>2, <3>4
  <2>10. RestOf(mbuf, sock, Unread, made) = Span(h, s, made)
    <3>1. PICK u \in Nat : u = Start(queue, made) /\ 1 <= u /\ u - 1 <= MaxBufs
      BY <1>1, SoundStart
    <3>2. Links(mbuf) /\ sock \in Socks /\ (u > 1 => mbuf[u - 1].next = NULL) /\ ShadowAt(mbuf, sock, u)
      BY <1>1, <3>1 DEF Sound
    <3>3. /\ \A b \in Bufs \ {sock.shadow} : h[b] = mbuf[b]
          /\ sock.shadow # NULL =>
               Bytes(h, sock.shadow) = Piece(sock.shadow, mbuf[sock.shadow].off + sock.delivered, sock.remainder)
      BY <2>2, <3>1, <3>2, GetIs
    <3> QED BY <1>1, <2>4, <3>3, RestRead DEF Unread
  <2>11. PICK z : z = Unread'
    OBVIOUS
  <2>12. z = f + 1
    BY <1>2, <2>3, <2>4, <2>11 DEF Unread
  <2>13. RestOf(r.m, r.k, z, made) \in Seq(Byte)
    <3>1. Shape'
      BY ShapeReceive
    <3>2. Sound(r.m, v, made, r.k, held')
      BY <1>2, <2>3, <2>5, <3>1 DEF Shape, Shaped
    <3> QED BY <2>4, <2>12, <3>2, RestTyped
  <2>14. ASSUME ~boundary, ~r.at
         PROVE  stream = Cat(got', RestOf(r.m, r.k, z, made))
    <3>1. PICK w \in Seq(Byte) : stream = Cat(got, w) /\ w = RestOf(mbuf, sock, Unread, made)
      BY <1>2, <2>14 DEF Ordered
    <3>2. w = Cat(c, RestOf(r.m, r.k, z, made))
      BY <2>6, <2>7, <2>9, <2>10, <2>12, <2>14, <3>1 DEF Orderly
    <3>3. Cat(Cat(got, c), RestOf(r.m, r.k, z, made)) = Cat(got, w)
      BY <2>7, <2>13, <3>2, CatAssociates DEF Ordered
    <3> QED BY <2>8, <3>1, <3>3
  <2>15. ~boundary' => ~boundary /\ ~r.at
    BY <2>5, Zenon
  <2>16. PICK y, b : y = got' /\ b = boundary'
    OBVIOUS
  <2>17. ~b => \E w \in Seq(Byte) : stream = Cat(y, w) /\ w = RestOf(r.m, r.k, z, made)
    BY <2>13, <2>14, <2>15, <2>16
  <2> QED BY <1>2, <2>5, <2>8, <2>11, <2>16, <2>17 DEF Ordered
<1> QED BY <1>1, <1>3, <1>4, ReceiveReads

LEMMA OrderedStep == Shape /\ Ordered /\ [Next]_vars => Ordered'
<1> SUFFICES ASSUME Shape, Ordered, [Next]_vars PROVE Ordered'
  OBVIOUS
<1>1. ASSUME NEW lens \in BoundedSeq(1 .. MaxLen, MaxChain), lens # <<>>, Deliver(lens)
      PROVE  Ordered'
  BY <1>1, OrderedDeliver
<1>2. CASE Select
  BY <1>2 DEF Select, buffers, history, Ordered, Unread
<1>3. ASSUME NEW n \in 0 .. MaxAsk, Receive(n) PROVE Ordered'
  BY <1>3, OrderedReceive
<1>4. ASSUME NEW p \in held, ReleaseRxBuffer(p) PROVE Ordered'
  <2>1. /\ mbuf' = Cleared(mbuf, Released(p))
        /\ UNCHANGED <<made, queue, sock, stream, got, boundary, open>>
    BY <1>4 DEF ReleaseRxBuffer, FreeBufs, Cleared, history
  <2>2. PICK h : h = mbuf'
    OBVIOUS
  <2>3. RestOf(h, sock, Unread, made) = RestOf(mbuf, sock, Unread, made)
    BY <2>1, <2>2, RestCleared DEF Shape, Shaped, Unread
  <2> QED BY <2>1, <2>2, <2>3 DEF Ordered, Unread
<1>5. CASE Close
  <2>1. open' = FALSE /\ UNCHANGED <<stream, got, boundary>>
    BY <1>5, CloseUnfolds
  <2> QED BY <2>1 DEF Ordered
<1>6. CASE UNCHANGED vars
  BY <1>6 DEF vars, buffers, history, signals, Ordered, Unread
<1> QED BY <1>1, <1>2, <1>3, <1>4, <1>5, <1>6 DEF Next

\* The bytes the application gets from ipaugenblick_receive are the bytes of the
\* connection in order, none twice and none left out, for every number and length of
\* buffers and every sequence of requested lengths, as long as no read ended with a
\* buffer that has a successor.
THEOREM ReadsStayInOrder == Spec => []ReadsInOrderInside
<1>1. Shape /\ Ordered => ReadsInOrderInside
  <2> SUFFICES ASSUME Shape, Ordered, ~boundary PROVE IsPrefix(got, stream)
    BY DEF ReadsInOrderInside, ReadsInOrder
  <2>1. PICK w \in Seq(Byte) : stream = Cat(got, w)
    BY DEF Ordered
  <2> QED BY <2>1, PrefixOf DEF Ordered
<1>2. Spec => [](Shape /\ Ordered)
  BY ShapeInit, ShapeStep, OrderedInit, OrderedStep, PTL DEF Spec
<1> QED BY <1>1, <1>2, PTL
-----------------------------------------------------------------------------
(* Who frees what.  With an application that releases a chain before it    *)
(* reads on, at most one chain is held; it begins with the first buffer    *)
(* not given back and ends with the shadow buffer or, without one, in      *)
(* front of the queue.                                                     *)

First(k, u) == IF k.shadow = NULL THEN u ELSE k.shadow

Owns(m, k, u, H, F, T) ==
  /\ T = {} /\ (k.shadow # NULL => m[k.shadow].next = NULL)
  /\ \/ H = {} /\ F = 1 .. First(k, u) - 1
     \/ \E p \in Bufs : H = {p} /\ F = 1 .. p - 1 /\ Row(m, p, LastOf(k, u))

Owned == ~boundary => Owns(mbuf, sock, Unread, held, freed, twice)

\* The shadow buffer and what waits behind it are two chains.
LEMMA RestLinked ==
  ASSUME NEW m, NEW q, NEW d, NEW k, NEW H, Sound(m, q, d, k, H),
         k.shadow # NULL => m[k.shadow].next = NULL
  PROVE  /\ k.shadow = NULL => Linked(m, k.shadow) = {} /\ Linked(m, k.next) = {}
         /\ k.shadow # NULL => /\ Linked(m, k.shadow) = {k.shadow}
                               /\ Linked(m, k.next) = k.shadow + 1 .. Start(q, d) - 1
                               /\ k.next # k.shadow
<1>1. PICK u \in Nat : u = Start(q, d) /\ 1 <= u
  BY SoundStart
<1>2. Links(m) /\ k \in Socks /\ ShadowAt(m, k, u)
  BY <1>1 DEF Sound
<1>3. CASE k.shadow = NULL
  BY <1>2, <1>3, NoneLinked DEF ShadowAt
<1>4. CASE k.shadow # NULL
  <2>1. PICK s \in Bufs : s = k.shadow /\ s \in Nat /\ s >= 1 /\ s < u /\ m[s].next = NULL
    BY <1>2, <1>4, BufsAre DEF Socks, ShadowAt
  <2>2. Row(m, s, s)
    BY <2>1 DEF Row
  <2>3. Linked(m, s) = {s}
    <3>1. Linked(m, s) = s .. s
      BY <1>2, <2>2, RowLinked
    <3> QED BY <2>1, <3>1
  <2>4. CASE s = u - 1
    <3>1. k.next = NULL /\ NULL # s
      BY <1>2, <2>1, <2>4, BufsAre DEF ShadowAt
    <3>2. Linked(m, k.next) = {}
      BY <1>2, <3>1, NoneLinked
    <3>3. s + 1 .. u - 1 = {}
      BY <1>1, <2>1, <2>4
    <3> QED BY <1>1, <1>4, <2>1, <2>3, <3>1, <3>2, <3>3
  <2>5. CASE s < u - 1
    <3>0. k.shadow < u - 1 => k.next = k.shadow + 1 /\ Row(m, k.shadow + 1, u - 1)
      BY <1>2, <1>4, Zenon DEF ShadowAt
    <3>1. k.next = s + 1 /\ Row(m, s + 1, u - 1)
      BY <2>1, <2>5, <3>0
    <3>2. Linked(m, k.next) = s + 1 .. u - 1
      BY <1>2, <3>1, RowLinked
    <3>3. k.next # s
      BY <2>1, <3>1
    <3> QED BY <1>1, <1>4, <2>1, <2>3, <3>2, <3>3
  <2> QED BY <1>1, <2>1, <2>4, <2>5
<1> QED BY <1>3, <1>4

LEMMA FirstIs ==
  ASSUME NEW m, NEW q, NEW d, NEW k, NEW H, Sound(m, q, d, k, H)
  PROVE  /\ First(k, Start(q, d)) \in Nat /\ 1 <= First(k, Start(q, d))
         /\ First(k, Start(q, d)) <= Start(q, d)
<1>1. PICK u \in Nat : u = Start(q, d) /\ 1 <= u
  BY SoundStart
<1>2. k.shadow # NULL => k.shadow \in Nat /\ 1 <= k.shadow /\ k.shadow <= u
  <2> SUFFICES ASSUME k.shadow # NULL PROVE k.shadow \in Nat /\ 1 <= k.shadow /\ k.shadow <= u
    OBVIOUS
  <2>1. k.shadow \in Bufs /\ k.shadow + 1 <= u
    BY <1>1, RestTyped
  <2> QED BY <1>1, <2>1, BufsAre
<1> QED BY <1>1, <1>2 DEF First

\* What the socket still has, in the queue and in the shadow.
LEMMA SocketLinked ==
  ASSUME NEW m, NEW q, NEW d, NEW k, NEW H, Sound(m, q, d, k, H),
         k.shadow # NULL => m[k.shadow].next = NULL
  PROVE  (UNION {Linked(m, q[i]) : i \in DOMAIN q}) \cup Linked(m, k.shadow) \cup Linked(m, k.next)
           = First(k, Start(q, d)) .. d
<1>1. PICK u \in Nat : u = Start(q, d) /\ 1 <= u /\ u - 1 <= d /\ d \in Nat
  BY SoundStart
<1>2. PICK Q : Q = UNION {Linked(m, q[i]) : i \in DOMAIN q}
  OBVIOUS
<1>3. Q = u .. d
  BY <1>1, <1>2, QueuedLinked DEF Sound
<1>4. CASE k.shadow = NULL
  <2>1. Linked(m, k.shadow) = {} /\ Linked(m, k.next) = {} /\ First(k, u) = u
    BY <1>4, RestLinked DEF First
  <2> QED BY <1>1, <1>2, <1>3, <2>1
<1>5. CASE k.shadow # NULL
  <2>1. PICK s \in Nat : s = k.shadow /\ 1 <= s /\ s + 1 <= u
    BY <1>1, <1>5, RestTyped, BufsAre
  <2>2. Linked(m, k.shadow) = {s} /\ Linked(m, k.next) = s + 1 .. u - 1 /\ First(k, u) = s
    BY <1>1, <1>5, <2>1, RestLinked DEF First
  <2>3. (u .. d) \cup {s} \cup (s + 1 .. u - 1) = s .. d
    BY <1>1, <2>1
  <2> QED BY <1>1, <1>2, <1>3, <2>2, <2>3
<1> QED BY <1>4, <1>5

LEMMA OwnsAccounts ==
  ASSUME Sound(mbuf, queue, made, sock, held), Owns(mbuf, sock, Unread, held, freed, twice)
  PROVE  twice = {} /\ freed = (1 .. made) \ InUse
<1>1. PICK u \in Nat : u = Unread /\ 1 <= u /\ u - 1 <= made /\ made \in Nat
  BY SoundStart DEF Unread
<1>2. PICK s \in Nat : s = First(sock, u) /\ 1 <= s /\ s <= u
  BY <1>1, FirstIs DEF Unread
<1>3. /\ twice = {} /\ (sock.shadow # NULL => mbuf[sock.shadow].next = NULL) /\ Links(mbuf)
  BY DEF Owns, Sound
<1>4. PICK Q, S, N : /\ Q = UNION {Linked(mbuf, queue[i]) : i \in DOMAIN queue}
                     /\ S = Linked(mbuf, sock.shadow) /\ N = Linked(mbuf, sock.next)
  OBVIOUS
<1>5. Q \cup S \cup N = s .. made
  BY <1>1, <1>2, <1>3, <1>4, SocketLinked DEF Unread
<1>6. InUse = (Q \cup S \cup N) \cup (UNION {Linked(mbuf, p) : p \in held})
  <2>1. ASSUME NEW x \in InUse PROVE x \in Q \cup S \cup N \cup (UNION {Linked(mbuf, p) : p \in held})
    <3>1. PICK p \in ToSet(queue) \cup held \cup {sock.shadow, sock.next} : x \in Linked(mbuf, p)
      BY Zenon DEF InUse
    <3>2. CASE p \in ToSet(queue)
      <4>1. PICK i \in DOMAIN queue : p = queue[i]
        BY <3>2, Zenon DEF ToSet
      <4> QED BY <1>4, <3>1, <4>1, Zenon
    <3>3. CASE p \in held
      BY <3>1, <3>3, Zenon
    <3>4. CASE p \in {sock.shadow, sock.next}
      BY <1>4, <3>1, <3>4, Zenon
    <3> QED BY <3>2, <3>3, <3>4, Zenon
  <2>2. ASSUME NEW x \in Q \cup S \cup N \cup (UNION {Linked(mbuf, p) : p \in held}) PROVE x \in InUse
    <3>1. CASE x \in Q
      <4>1. PICK i \in DOMAIN queue : x \in Linked(mbuf, queue[i])
        BY <1>4, <3>1, Zenon
      <4>2. queue[i] \in ToSet(queue)
        BY Zenon DEF ToSet
      <4> QED BY <4>1, <4>2, Zenon DEF InUse
    <3>2. CASE x \in S \/ x \in N
      BY <1>4, <3>2, Zenon DEF InUse
    <3>3. CASE x \in UNION {Linked(mbuf, p) : p \in held}
      BY <3>3, Zenon DEF InUse
    <3> QED BY <3>1, <3>2, <3>3, Zenon
  <2> QED BY <2>1, <2>2, Zenon
<1>7. CASE held = {} /\ freed = 1 .. First(sock, Unread) - 1
  <2>1. freed = 1 .. s - 1
    BY <1>1, <1>2, <1>7
  <2>2. InUse = s .. made
    BY <1>5, <1>6, <1>7
  <2>3. 1 .. s - 1 = (1 .. made) \ (s .. made)
    BY <1>1, <1>2
  <2> QED BY <1>3, <2>1, <2>2, <2>3
<1>8. CASE \E p \in Bufs : held = {p} /\ freed = 1 .. p - 1 /\ Row(mbuf, p, LastOf(sock, Unread))
  <2>1. PICK p \in Bufs : held = {p} /\ freed = 1 .. p - 1 /\ Row(mbuf, p, LastOf(sock, Unread))
    BY <1>8
  <2>2. PICK e \in Nat : /\ e = LastOf(sock, u) /\ Row(mbuf, p, e) /\ p \in Nat /\ 1 <= p /\ p <= e
    BY <1>1, <2>1, RowBounds
  <2>3. Linked(mbuf, p) = p .. e
    BY <1>3, <2>2, RowLinked
  <2>4. s - 1 <= e /\ e <= made /\ p <= s
    <3>1. (sock.shadow = NULL => s = u /\ e = u - 1) /\ (sock.shadow # NULL => s = e)
      BY <1>2, <2>2 DEF First, LastOf
    <3>2. sock.shadow # NULL => sock.shadow + 1 <= u
      BY <1>1, RestTyped DEF Unread
    <3>3. sock.shadow # NULL => s + 1 <= u
      BY <1>2, <3>2 DEF First
    <3> QED BY <1>1, <1>2, <2>2, <3>1, <3>3
  <2>5. InUse = (s .. made) \cup (p .. e)
    BY <1>5, <1>6, <2>1, <2>3
  <2>6. 1 .. p - 1 = (1 .. made) \ ((s .. made) \cup (p .. e))
    BY <1>1, <1>2, <2>2, <2>4
  <2> QED BY <1>3, <2>1, <2>5, <2>6
<1> QED BY <1>7, <1>8 DEF Owns
LEMMA OwnedInit == Init => Owned
<1> SUFFICES ASSUME Init PROVE Owned
  OBVIOUS
<1>1. /\ made = 0 /\ queue = <<>> /\ held = {} /\ freed = {} /\ twice = {} /\ sock.shadow = NULL
  BY DEF Init
<1>2. Unread = 1
  BY <1>1 DEF Unread, Start
<1>3. 1 .. First(sock, Unread) - 1 = {}
  BY <1>1, <1>2 DEF First
<1> QED BY <1>1, <1>3 DEF Owned, Owns

LEMMA OwnedDeliver ==
  ASSUME Shape, Owned, NEW lens \in BoundedSeq(1 .. MaxLen, MaxChain), lens # <<>>, Deliver(lens)
  PROVE  Owned'
<1>1. Links(mbuf) /\ made \in Pointers /\ Sound(mbuf, queue, made, sock, held)
  BY DEF Shape, Shaped, Sound
<1>2. PICK e : Delivers(e)
  BY <1>1, DeliverIs
<1>3. UNCHANGED <<sock, held, freed, twice, boundary>>
  BY Zenon DEF Deliver
<1>4. PICK h, v, d, z : h = mbuf' /\ v = queue' /\ d = made' /\ z = Unread'
  OBVIOUS
<1>5. /\ e \in Bufs /\ d = e /\ v = Append(queue, made + 1) /\ Links(h) /\ Row(h, made + 1, e)
      /\ \A b \in Bufs : b <= made => h[b] = mbuf[b]
  BY <1>2, <1>4 DEF Delivers
<1>6. z = Unread
  <2>1. z = Start(v, d)
    BY <1>4 DEF Unread
  <2> QED BY <1>1, <1>5, <2>1, SoundDeliver DEF Unread
<1>7. PICK u \in Nat : u = Unread /\ 1 <= u /\ u - 1 <= made /\ made \in Nat
  BY <1>1, SoundStart DEF Unread
<1>8. ASSUME sock.shadow # NULL PROVE h[sock.shadow] = mbuf[sock.shadow]
  <2>1. PICK s \in Bufs : s = sock.shadow /\ s \in Nat /\ s + 1 <= u
    BY <1>1, <1>7, <1>8, RestTyped, BufsAre DEF Unread
  <2> QED BY <1>5, <1>7, <2>1
<1>9. ASSUME NEW p, Row(mbuf, p, LastOf(sock, u)) PROVE Row(h, p, LastOf(sock, u))
  <2>1. PICK l \in Nat : l = LastOf(sock, u) /\ Row(mbuf, p, l) /\ p \in Nat /\ p .. l \subseteq Bufs
    BY <1>9, RowBounds
  <2>2. l <= made
    <3>1. sock.shadow = NULL => l = u - 1
      BY <2>1 DEF LastOf
    <3>2. sock.shadow # NULL => l = sock.shadow /\ sock.shadow + 1 <= u
      BY <1>1, <1>7, <2>1, RestTyped DEF LastOf, Unread
    <3> QED BY <1>7, <2>1, <3>1, <3>2
  <2>3. \A b \in p .. l : h[b].next = mbuf[b].next
    BY <1>5, <1>7, <2>1, <2>2
  <2> QED BY <2>1, <2>3, RowKept
<1>10. Owns(mbuf, sock, u, held, freed, twice) => Owns(h, sock, u, held, freed, twice)
  BY <1>8, <1>9 DEF Owns
<1> QED BY <1>3, <1>4, <1>6, <1>7, <1>10 DEF Owned

LEMMA OwnedReceive ==
  ASSUME ReleaseFirst = TRUE, Shape, Owned, NEW n \in 0 .. MaxAsk, Receive(n)
  PROVE  Owned'
<1>1. Sound(mbuf, queue, made, sock, held) /\ n \in Nat
  BY ShadowReadAssumption DEF Shape, Shaped
<1>2. UNCHANGED <<made, freed, twice>> /\ held = {}
  BY Zenon DEF Receive
<1>3. CASE UNCHANGED <<queue, mbuf, sock, held, got, last, boundary>>
  BY <1>2, <1>3 DEF Owned, Unread
<1>4. CASE \E s, f, r : Reads(n, s, f, r, queue') /\ Sets(n, s, r)
  <2>1. PICK s, f, r : Reads(n, s, f, r, queue') /\ Sets(n, s, r)
    BY <1>4
  <2>2. PICK h, k : h = GetFromShadow(mbuf, sock).m /\ k = GetFromShadow(mbuf, sock).k
    OBVIOUS
  <2>3. PICK v : v = queue'
    OBVIOUS
  <2>4. /\ s \in Bufs /\ s = First(sock, Unread) /\ Start(v, made) = f + 1
        /\ Links(h) /\ NoShadow(k) /\ Returns(h, s, f, k, n, r)
    BY <2>1, <2>2, <2>3 DEF Reads, First
  <2>5. /\ mbuf' = r.m /\ sock' = r.k /\ held' = held \cup {s} /\ boundary' = (boundary \/ r.at)
    BY <2>1 DEF Sets
  <2>6. ~r.at => Orderly(h, s, f, r)
    BY <1>1, <2>4, ReturnsAfter
  <2>7. ~boundary' => ~boundary /\ ~r.at
    BY <2>5, Zenon
  <2>8. PICK z, b : z = Unread' /\ b = boundary'
    OBVIOUS
  <2>9. z = f + 1
    BY <1>2, <2>3, <2>4, <2>8 DEF Unread
  <2>10. ASSUME ~b PROVE Owns(r.m, r.k, z, {s}, freed, twice)
    <3>1. twice = {} /\ freed = 1 .. s - 1
      BY <1>2, <2>4, <2>7, <2>8, <2>10 DEF Owned, Owns
    <3>2. Row(r.m, s, LastOf(r.k, z)) /\ (r.k.shadow # NULL => r.m[r.k.shadow].next = NULL)
      BY <2>6, <2>7, <2>8, <2>9, <2>10 DEF Orderly
    <3> QED BY <2>4, <3>1, <3>2 DEF Owns
  <2>11. held' = {s}
    BY <1>2, <2>5
  <2> QED BY <1>2, <2>5, <2>8, <2>10, <2>11 DEF Owned
<1> QED BY <1>1, <1>3, <1>4, ReceiveReads

LEMMA OwnedRelease ==
  ASSUME Shape, Owned, NEW p \in held, ReleaseRxBuffer(p)
  PROVE  Owned'
<1>1. Sound(mbuf, queue, made, sock, held) /\ Links(mbuf)
  BY DEF Shape, Shaped, Sound
<1>2. PICK e \in Bufs : /\ Row(mbuf, p, e) /\ e < Unread
                        /\ Released(p) = {b \in p .. e : sock.shadow = NULL \/ b < sock.shadow}
  BY <1>1, ReleasedIs
<1>3. PICK X : X = Released(p)
  OBVIOUS
<1>4. /\ held' = held \ {p} /\ freed' = freed \cup X /\ twice' = twice \cup (X \cap freed)
      /\ mbuf' = Cleared(mbuf, X)
      /\ UNCHANGED <<made, queue, boundary, sock>>
  BY <1>3 DEF ReleaseRxBuffer, FreeBufs, Cleared, history
<1>5. ASSUME ~boundary
      PROVE  Owns(Cleared(mbuf, X), sock, Unread, held \ {p}, freed \cup X, twice \cup (X \cap freed))
  <2>1. /\ twice = {} /\ (sock.shadow # NULL => mbuf[sock.shadow].next = NULL)
        /\ held = {p} /\ freed = 1 .. p - 1 /\ Row(mbuf, p, LastOf(sock, Unread))
    BY <1>5 DEF Owned, Owns
  <2>2. PICK u \in Nat : u = Unread /\ 1 <= u
    BY <1>1, SoundStart DEF Unread
  <2>3. e = LastOf(sock, u) /\ p \in Nat /\ e \in Nat /\ 1 <= p /\ p <= e /\ e < u
    BY <1>2, <2>1, <2>2, RowUnique, RowBounds
  <2>4. PICK s \in Nat : s = First(sock, u) /\ 1 <= s
    BY <1>1, <2>2, FirstIs DEF Unread
  <2>5. X = p .. s - 1 /\ p <= s
    <3>1. CASE sock.shadow = NULL
      <4>1. s = u /\ e = u - 1
        BY <2>3, <2>4, <3>1 DEF First, LastOf
      <4>2. X = p .. e
        BY <1>2, <1>3, <3>1
      <4> QED BY <2>3, <4>1, <4>2
    <3>2. CASE sock.shadow # NULL
      <4>1. s = sock.shadow /\ e = s
        BY <2>3, <2>4, <3>2 DEF First, LastOf
      <4>2. X = {b \in p .. e : b < s}
        BY <1>2, <1>3, <3>2, <4>1
      <4> QED BY <2>3, <2>4, <4>1, <4>2
    <3> QED BY <3>1, <3>2
  <2>6. freed \cup X = 1 .. s - 1 /\ X \cap freed = {}
    BY <2>1, <2>3, <2>4, <2>5
  <2>7. sock.shadow # NULL => Cleared(mbuf, X)[sock.shadow].next = NULL
    <3> SUFFICES ASSUME sock.shadow # NULL PROVE Cleared(mbuf, X)[sock.shadow].next = NULL
      OBVIOUS
    <3>1. sock.shadow \in Bufs
      BY <1>1, RestTyped
    <3>2. Cleared(mbuf, X)[sock.shadow].next \in {mbuf[sock.shadow].next, NULL}
      BY <1>1, <3>1, ClearedIs
    <3> QED BY <2>1, <3>2
  <2>8. held \ {p} = {} /\ twice \cup (X \cap freed) = {}
    BY <2>1, <2>6
  <2> QED BY <2>2, <2>4, <2>6, <2>7, <2>8 DEF Owns
<1>6. Unread' = Unread
  BY <1>4 DEF Unread
<1> QED BY <1>4, <1>5, <1>6 DEF Owned

LEMMA OwnedClose ==
  ASSUME ReleaseFirst = TRUE, Shape, Owned, Close
  PROVE  Owned'
<1>1. Sound(mbuf, queue, made, sock, held)
  BY DEF Shape, Shaped
<1>2. PICK Q, S, N : Q = Queueds /\ S = Shadoweds /\ N = Nexts
  OBVIOUS
<1>3. /\ queue' = <<>> /\ held = {} /\ sock'.shadow = NULL
      /\ freed' = freed \cup (Q \cup S \cup N)
      /\ twice' = twice \cup ((Q \cup S \cup N) \cap freed) \cup (S \cap N)
      /\ UNCHANGED <<made, boundary, held>>
  BY <1>2, CloseUnfolds
<1>4. ASSUME ~boundary
      PROVE  /\ freed \cup (Q \cup S \cup N) = 1 .. made
             /\ twice \cup ((Q \cup S \cup N) \cap freed) \cup (S \cap N) = {}
  <2>1. PICK u \in Nat : u = Unread /\ 1 <= u /\ u - 1 <= made /\ made \in Nat
    BY <1>1, SoundStart DEF Unread
  <2>2. PICK s \in Nat : s = First(sock, u) /\ 1 <= s /\ s <= u
    BY <1>1, <2>1, FirstIs DEF Unread
  <2>3. /\ twice = {} /\ (sock.shadow # NULL => mbuf[sock.shadow].next = NULL)
        /\ freed = 1 .. s - 1
    BY <1>3, <1>4, <2>1, <2>2 DEF Owned, Owns
  <2>4. S = Linked(mbuf, sock.shadow) /\ N = Linked(mbuf, sock.next) /\ S \cap N = {}
    <3>1. CASE sock.shadow = NULL
      <4>1. Linked(mbuf, sock.shadow) = {} /\ Linked(mbuf, sock.next) = {}
        BY <1>1, <3>1, RestLinked
      <4> QED BY <1>2, <4>1 DEF Shadoweds, Nexts
    <3>2. CASE sock.shadow # NULL
      <4>1. PICK x \in Nat : x = sock.shadow
        BY <1>1, <3>2, RestTyped, BufsAre
      <4>2. /\ Linked(mbuf, sock.shadow) = {x} /\ Linked(mbuf, sock.next) = x + 1 .. u - 1
            /\ sock.next # x
        BY <1>1, <2>1, <2>3, <3>2, <4>1, RestLinked DEF Unread
      <4>3. x \notin x + 1 .. u - 1
        BY <2>1, <4>1
      <4>4. sock.next \notin Linked(mbuf, sock.shadow)
        BY <4>2
      <4> QED BY <1>2, <4>2, <4>3, <4>4 DEF Shadoweds, Nexts
    <3> QED BY <3>1, <3>2
  <2>5. Q \cup S \cup N = s .. made
    BY <1>1, <1>2, <2>1, <2>2, <2>3, <2>4, SocketLinked DEF Queueds, Unread
  <2>6. (1 .. s - 1) \cup (s .. made) = 1 .. made /\ (s .. made) \cap (1 .. s - 1) = {}
    BY <2>1, <2>2
  <2> QED BY <2>3, <2>4, <2>5, <2>6
<1>5. PICK z, k : z = Unread' /\ k = sock'
  OBVIOUS
<1>6. First(k, z) - 1 = made
  <2>1. z = made + 1 /\ made \in Nat
    BY <1>1, <1>3, <1>5, SoundStart DEF Unread, Start
  <2>2. First(k, z) = z
    BY <1>3, <1>5 DEF First
  <2> QED BY <2>1, <2>2
<1>7. ASSUME ~boundary, NEW h, NEW F, NEW T, F = 1 .. made, T = {}
      PROVE  Owns(h, k, z, {}, F, T)
  BY <1>3, <1>5, <1>6, <1>7 DEF Owns
<1>8. PICK h, F, T : h = mbuf' /\ F = freed' /\ T = twice'
  OBVIOUS
<1>9. ~boundary => Owns(h, k, z, {}, F, T)
  BY <1>3, <1>4, <1>7, <1>8
<1> QED BY <1>3, <1>5, <1>8, <1>9 DEF Owned

LEMMA OwnedStep ==
  ASSUME ReleaseFirst = TRUE PROVE Shape /\ Owned /\ [Next]_vars => Owned'
<1> SUFFICES ASSUME Shape, Owned, [Next]_vars PROVE Owned'
  OBVIOUS
<1>1. ASSUME NEW lens \in BoundedSeq(1 .. MaxLen, MaxChain), lens # <<>>, Deliver(lens)
      PROVE  Owned'
  BY <1>1, OwnedDeliver
<1>2. CASE Select
  BY <1>2 DEF Select, buffers, history, Owned, Unread
<1>3. ASSUME NEW n \in 0 .. MaxAsk, Receive(n) PROVE Owned'
  BY <1>3, OwnedReceive
<1>4. ASSUME NEW p \in held, ReleaseRxBuffer(p) PROVE Owned'
  BY <1>4, OwnedRelease
<1>5. CASE Close
  BY <1>5, OwnedClose
<1>6. CASE UNCHANGED vars
  BY <1>6 DEF vars, buffers, history, signals, Owned, Unread
<1> QED BY <1>1, <1>2, <1>3, <1>4, <1>5, <1>6 DEF Next

\* The buffer in which a read ends is linked from the chain the application holds and
\* from the shadow.  If the application releases a chain before it reads on or closes,
\* ipaugenblick_release_rx_buffer and ipaugenblick_flush_rx together give every filled
\* buffer back exactly once, and none that is still linked, as long as no read ended
\* with a buffer that has a successor.
THEOREM BuffersGoBackOnce ==
  ASSUME ReleaseFirst = TRUE PROVE Spec => []BuffersAccountedFor
<1>1. Shape /\ Owned => BuffersAccountedFor
  <2> SUFFICES ASSUME Shape, Owned, ~boundary PROVE twice = {} /\ freed = (1 .. made) \ InUse
    BY DEF BuffersAccountedFor
  <2> QED BY OwnsAccounts DEF Shape, Shaped, Owned
<1>2. Spec => [](Shape /\ Owned)
  <2>1. Shape /\ Owned /\ [Next]_vars => (Shape /\ Owned)'
    BY ShapeStep, OwnedStep
  <2>2. Init => Shape /\ Owned
    BY ShapeInit, OwnedInit
  <2> QED BY <2>1, <2>2, PTL DEF Spec
<1> QED BY <1>1, <1>2, PTL
=============================================================================
