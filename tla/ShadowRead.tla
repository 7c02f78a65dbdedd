----------------------------- MODULE ShadowRead -----------------------------
(***************************************************************************)
(* ipaugenblick_receive of one TCP socket with a requested length: the     *)
(* read ends inside a chain of buffers, what is left of the chain stays    *)
(* with the socket (the shadow) and is given out by the next read, while   *)
(* the service goes on delivering chains.  The buffer in which a read ends *)
(* belongs to the chain the application holds and to the shadow at the     *)
(* same time, so releasing and closing have to agree on who frees it.      *)
(*                                                                         *)
(* Buffers (struct rte_mbuf) are numbered in the order in which they are   *)
(* filled and never filled again; 0 is NULL.  A byte is the pair of its    *)
(* buffer and its place in it.  rx_ring and the local cache, which RxPath  *)
(* models, are one queue of chains here.                                   *)
(*                                                                         *)
(* Operators whose comment starts with "Mutant" are plausible wrong        *)
(* versions of the definition that follows them; the specification does    *)
(* not use them.                                                           *)
(***************************************************************************)
EXTENDS Integers, Sequences, FiniteSets, SequencesExt

CONSTANTS
  MaxBufs,      \* bound: buffers the service fills
  MaxChain,     \* bound: buffers of one chain
  MaxLen,       \* bound: bytes of one buffer
  MaxAsk,       \* bound: largest length an application asks for
  ReleaseFirst  \* the application releases a chain before it reads on or closes

ASSUME ShadowReadAssumption ==
  /\ {MaxBufs, MaxChain, MaxLen, MaxAsk} \subseteq Nat \ {0}
  /\ ReleaseFirst \in BOOLEAN

NULL == 0
Bufs == 1 .. MaxBufs
Pointers == 0 .. MaxBufs

VARIABLES
  mbuf,      \* the buffers: data_off, data_len, next, pkt_len
  made,      \* number of buffers filled so far
  queue,     \* chains that wait for the application
  stream,    \* history: the bytes of the connection, in order
  sock,      \* shadow, shadow_next, shadow_len_remainder and _delievered
  held,      \* chains the application has not released
  got,       \* history: the bytes the application read, in order
  last,      \* what the last successful read was asked for and returned
  selects,   \* the socket has a selector (select # -1)
  ready,     \* read_ready_to_app
  events,    \* readable entries of the socket in ready_connections
  unheard,   \* the entry for what is in the shadow found ready_connections full
  awake,     \* the application took an entry and has not acted on it
  freed,     \* buffers given back to their pool
  twice,     \* buffers given back again
  open,
  boundary   \* history: a read ended at the end of a buffer that has a successor

buffers == <<mbuf, freed, twice>>
history == <<stream, got, last, boundary>>
signals == <<ready, events, unheard, awake>>
vars == <<buffers, made, queue, history, sock, held, selects, signals, open>>

\* The buffers that follow from p, p included
Chain(m, p) ==
  LET c[i \in Pointers] == IF i = NULL THEN <<>> ELSE <<i>> \o c[m[i].next] IN c[p]

Linked(m, p) == ToSet(Chain(m, p))

\* Bytes from p to the end of the chain
Size(m, p) ==
  LET n[i \in Pointers] == IF i = NULL THEN 0 ELSE m[i].len + n[m[i].next] IN n[p]

\* What an application sees that walks the chain with ipaugenblick_get_next_buffer_segment
Bytes(m, b) == [j \in 1 .. m[b].len |-> <<b, m[b].off + j>>]

Contents(m, p) ==
  LET c[i \in Pointers] == IF i = NULL THEN <<>> ELSE Bytes(m, i) \o c[m[i].next] IN c[p]

Init ==
  /\ mbuf = [b \in Bufs |-> [off |-> 0, len |-> 0, next |-> NULL, pkt |-> 0]]
  /\ made = 0 /\ queue = <<>> /\ stream = <<>>
  /\ sock = [shadow |-> NULL, next |-> NULL, remainder |-> 0, delivered |-> 0]
  /\ held = {} /\ got = <<>>
  /\ last = [asked |-> 0, total |-> 0, first |-> 0, head |-> NULL, size |-> 0, cut |-> FALSE]
  /\ selects \in BOOLEAN
  /\ ready = FALSE /\ events = 0 /\ unheard = FALSE /\ awake = FALSE
  /\ freed = {} /\ twice = {}
  /\ open = TRUE /\ boundary = FALSE

(***************************************************************************)
(* The service hands over a chain: memcpy_toiovec links the buffers and    *)
(* counts them in the head's pkt_len, ipaugenblick_submit_rx_buf queues    *)
(* the head, ipaugenblick_mark_readable announces it if read_ready_to_app  *)
(* was clear.  Nobody looks at the result of an enqueue into               *)
(* ready_connections, which the entries of this socket and of the others   *)
(* of its selector may have filled (room).                                 *)
(***************************************************************************)
Deliver(lens) ==
  LET new == made + 1 .. made + Len(lens)
      m == [b \in Bufs |->
              IF b \notin new THEN mbuf[b]
              ELSE [off |-> 0, len |-> lens[b - made], pkt |-> lens[b - made],
                    next |-> IF b + 1 \in new THEN b + 1 ELSE NULL]]
  IN /\ open /\ made + Len(lens) <= MaxBufs
     /\ mbuf' = [m EXCEPT ![made + 1].pkt = Size(m, made + 1)]
     /\ made' = made + Len(lens)
     /\ queue' = Append(queue, made + 1)
     /\ stream' = stream \o Contents(mbuf', made + 1)
     /\ ready' = TRUE
     /\ \E room \in BOOLEAN :
          events' = IF selects /\ ~ready /\ room THEN events + 1 ELSE events
     /\ UNCHANGED <<sock, held, got, last, selects, unheard, awake, freed, twice, open,
                    boundary>>

\* ipaugenblick_select returns the socket as readable
Select ==
  /\ events > 0 /\ ~awake
  /\ events' = events - 1 /\ awake' = TRUE
  /\ UNCHANGED <<buffers, made, queue, history, sock, held, selects, ready, unheard, open>>

\* Mutant of GetFromShadow: data_off is not moved past what was delivered
GetFromShadowNoAdvance(m, k) ==
  IF k.shadow = NULL THEN [m |-> m, k |-> k]
  ELSE [m |-> [m EXCEPT ![k.shadow] =
                 [off |-> @.off, len |-> k.remainder, next |-> k.next, pkt |-> k.remainder]],
        k |-> [k EXCEPT !.shadow = NULL, !.next = NULL]]

\* ipaugenblick_get_from_shadow: the buffer is pkt_len's head although
\* shadow_next is linked to it only afterwards
GetFromShadow(m, k) ==
  IF k.shadow = NULL THEN [m |-> m, k |-> k]
  ELSE [m |-> [m EXCEPT ![k.shadow] =
                 [off |-> @.off + k.delivered, len |-> k.remainder, next |-> k.next,
                  pkt |-> IF @.next = NULL THEN k.remainder
                                           ELSE k.remainder + m[@.next].pkt]],
        k |-> [k EXCEPT !.shadow = NULL, !.next = NULL]]

\* The buffer of the chain in which byte number n lies
At(m, p, n) ==
  CHOOSE b \in Linked(m, p) :
    Size(m, p) - Size(m, b) < n /\ n <= Size(m, p) - Size(m, m[b].next)

(***************************************************************************)
(* The three outcomes of ipaugenblick_try_read_exact_amount of n bytes     *)
(* from the chain at p: the new buffers and shadow, *total_len and         *)
(* *first_segment_len, whether the read ends inside a later buffer (cut)   *)
(* or at the end of one that has a successor (at).                         *)
(***************************************************************************)

\* Mutant of ReadShort: *total_len stays what was asked
ReadShortKeepsTotal(m, k, p, n) ==
  [m |-> m, k |-> k, total |-> n, first |-> m[p].len, cut |-> FALSE, at |-> FALSE]

\* The chain has fewer than n bytes
ReadShort(m, k, p, n) ==
  [m |-> m, k |-> k, total |-> Size(m, p), first |-> m[p].len, cut |-> FALSE, at |-> FALSE]

\* Mutant of EndInside: the remainder is measured from the wrong end
EndInsideNegative(m, t, left) ==
  [shadow |-> t, next |-> m[t].next, remainder |-> left - m[t].len, delivered |-> m[t].len - left]

\* The shadow after a read that ends inside buffer t, left bytes before its end
EndInside(m, t, left) ==
  [shadow |-> t, next |-> m[t].next, remainder |-> left, delivered |-> m[t].len - left]

\* The shadow after a read that ends with a buffer whose successor is s: the
\* remainder is the length of the buffer after s, or stays what it was
EndAt(m, k, s) ==
  IF s = NULL THEN k
  ELSE IF m[s].next = NULL THEN [k EXCEPT !.shadow = s, !.next = NULL]
  ELSE [shadow |-> s, next |-> m[s].next, remainder |-> m[m[s].next].len, delivered |-> 0]

TryReadExactAmount(m, k, p, n) ==
  LET t == At(m, p, n)
      s == m[t].next
      left == Size(m, p) - Size(m, s) - n
  IN IF Size(m, p) < n THEN ReadShort(m, k, p, n)
     ELSE [m |-> [m EXCEPT ![t].len = @ - left, ![t].next = NULL],
           k |-> IF left > 0 THEN EndInside(m, t, left) ELSE EndAt(m, k, s),
           total |-> n,
           first |-> IF left > 0 THEN m[t].len - left ELSE m[p].len,
           cut |-> left > 0 /\ t # p, at |-> left = 0 /\ s # NULL]

\* rte_pktmbuf_lastseg(p)->next = q
Link(m, p, q) == [m EXCEPT ![Last(Chain(m, p))].next = q]

(***************************************************************************)
(* The three ways in which ipaugenblick_receive succeeds: the result of a  *)
(* read of n bytes that starts in the shadow buffer p, with the chain q    *)
(* (NULL: none) behind it; of a read of everything; of a read from a chain *)
(* without a shadow.                                                       *)
(***************************************************************************)
\* Nothing in the shadow (an effect of EndAt): *total_len stays what was asked
ReadNothing(r, n) == [r EXCEPT !.total = n]

ReadShadow(m, k, p, n, q) ==
  LET r == TryReadExactAmount(m, k, p, n)
      r2 == TryReadExactAmount(r.m, r.k, q, n - r.total)
  IN IF r.total = 0 THEN ReadNothing(r, n)
     ELSE IF r.total = n \/ q = NULL THEN r
     ELSE [m |-> Link(r2.m, p, q), k |-> r2.k, total |-> r.total + r2.total,
           first |-> r.first, cut |-> FALSE, at |-> r2.at]

ReadAllShadow(m, k, p, q) ==
  LET more == IF q = NULL THEN 0 ELSE m[q].pkt
  IN [m |-> [Link(m, p, q) EXCEPT ![p].pkt = @ + more], k |-> k,
      total |-> m[p].pkt + more, first |-> m[p].len, cut |-> FALSE, at |-> FALSE]

ReadRing(m, k, q, n) ==
  IF n > 0 THEN TryReadExactAmount(m, k, q, n)
  ELSE [m |-> m, k |-> k, total |-> m[q].pkt, first |-> m[q].len, cut |-> FALSE, at |-> FALSE]

\* Mutant of Announces: only a read without a shadow announces what it leaves
AnnouncesFirstRest(k, n, p) == k.shadow # NULL /\ n > 0 /\ selects /\ p = NULL

\* A read that leaves a shadow queues the socket in ready_connections again
Announces(k, n, p) == k.shadow # NULL /\ n > 0 /\ selects

(***************************************************************************)
(* ipaugenblick_receive with *total_len = n (0: everything).  With a       *)
(* shadow the queue is touched only if the shadow is shorter than asked or *)
(* everything is asked for.  A call that finds nothing returns -1.  An     *)
(* application with a selector reads because it was told to, once or       *)
(* several times.                                                          *)
(***************************************************************************)
Receive(n) ==
  LET g == GetFromShadow(mbuf, sock)
      p == sock.shadow
      short == p # NULL /\ n > 0 /\ Size(g.m, p) \in 1 .. n - 1
      asks == p = NULL \/ n = 0 \/ short
      q == IF asks /\ queue # <<>> THEN Head(queue) ELSE NULL
      head == IF p # NULL THEN p ELSE q
      r == IF p = NULL THEN ReadRing(g.m, g.k, q, n)
           ELSE IF n > 0 THEN ReadShadow(g.m, g.k, p, n, q)
           ELSE ReadAllShadow(g.m, g.k, p, q)
  IN /\ open /\ (selects => awake) /\ (ReleaseFirst => held = {})
     /\ queue' = IF q = NULL THEN queue ELSE Tail(queue)
     /\ ready' = (ready /\ ~asks)
     /\ \/ /\ head # NULL
           /\ mbuf' = r.m /\ sock' = r.k
           /\ held' = held \cup {head}
           /\ got' = got \o Contents(r.m, head)
           /\ last' = [asked |-> n, total |-> r.total, first |-> r.first, head |-> r.m[head].len,
                       size |-> Size(r.m, head), cut |-> r.cut]
           /\ \E room \in BOOLEAN :
                /\ events' = IF Announces(r.k, n, p) /\ room THEN events + 1 ELSE events
                /\ unheard' = (Announces(r.k, n, p) /\ ~room)
           /\ boundary' = (boundary \/ r.at)
           /\ awake' \in {FALSE, awake}
        \/ /\ head = NULL
           /\ awake' = FALSE
           /\ UNCHANGED <<mbuf, sock, held, got, last, events, unheard, boundary>>
     /\ UNCHANGED <<made, stream, selects, freed, twice, open>>

\* Buffers X go back to their pools, Y of them for the second time
FreeBufs(X, Y) ==
  /\ freed' = freed \cup X
  /\ twice' = twice \cup (X \cap freed) \cup Y
  /\ mbuf' = [b \in Bufs |-> IF b \in X THEN [mbuf[b] EXCEPT !.next = NULL] ELSE mbuf[b]]

\* Mutant of Released: the loop does not stop at the shadow
ReleasedAll(p) == Linked(mbuf, p)

\* What ipaugenblick_release_rx_buffer frees of a chain: it stops at the shadow
Released(p) ==
  LET c == Chain(mbuf, p)
  IN {c[i] : i \in {j \in DOMAIN c : sock.shadow \notin {c[l] : l \in 1 .. j}}}

ReleaseRxBuffer(p) ==
  /\ p \in held
  /\ held' = held \ {p}
  /\ FreeBufs(Released(p), {})
  /\ UNCHANGED <<made, queue, history, sock, selects, signals, open>>

\* ipaugenblick_close: ipaugenblick_flush_rx frees the queue, the shadow and
\* what is linked to it, then shadow_next and what is linked to that
Close ==
  LET queued == UNION {Linked(mbuf, queue[i]) : i \in DOMAIN queue}
      shadowed == Linked(mbuf, sock.shadow)
      next == IF sock.next \in shadowed THEN {sock.next} ELSE Linked(mbuf, sock.next)
  IN /\ open /\ (ReleaseFirst => held = {})
     /\ open' = FALSE
     /\ queue' = <<>>
     /\ sock' = [shadow |-> NULL, next |-> NULL, remainder |-> 0, delivered |-> 0]
     /\ FreeBufs(queued \cup shadowed \cup next, shadowed \cap next)
     /\ UNCHANGED <<made, history, held, selects, signals>>

Next ==
  \/ \E lens \in BoundedSeq(1 .. MaxLen, MaxChain) : lens # <<>> /\ Deliver(lens)
  \/ Select
  \/ \E n \in 0 .. MaxAsk : Receive(n)
  \/ \E p \in held : ReleaseRxBuffer(p)
  \/ Close

Spec == Init /\ [][Next]_vars

-----------------------------------------------------------------------------
\* Every pointer is a buffer or NULL and every length a length: get_from_shadow
\* writes a 16-bit data_len and data_off from the two ints of the shadow.
TypeOK ==
  /\ mbuf \in [Bufs -> [off : Nat, len : Nat, next : Pointers, pkt : Nat]]
  /\ made \in Pointers
  /\ queue \in Seq(Bufs)
  /\ sock \in [shadow : Pointers, next : Pointers, remainder : Nat, delivered : Nat]
  /\ held \subseteq Bufs /\ freed \subseteq Bufs /\ twice \subseteq freed
  /\ last \in [asked : 0 .. MaxAsk, total : Nat, first : Nat, head : Nat, size : Nat, cut : BOOLEAN]
  /\ events \in Nat /\ {selects, ready, unheard, awake, open, boundary} \subseteq BOOLEAN

(***************************************************************************)
(* Whatever lengths are asked for, the reads of ipaugenblick_receive give  *)
(* the bytes of the connection in order, none twice and none left out.     *)
(***************************************************************************)
ReadsInOrder == IsPrefix(got, stream)

\* The same until a read ends exactly at the end of a buffer that has a
\* successor: the case in which try_read_exact_amount takes the length of the
\* rest from the wrong buffer or leaves the one of an earlier rest.
ReadsInOrderInside == ~boundary => ReadsInOrder

(***************************************************************************)
(* A read with a length returns no more than asked, says exactly how much, *)
(* returns less only if nothing is left in the shadow, and tells the       *)
(* length of the first buffer unless it ends inside a later one (then      *)
(* *first_segment_len is how far it went into that one).  The exception is *)
(* a read that returns no byte: *total_len is what was asked, although     *)
(* ipaugenblick_api.h:351 says *len will contain the exact number of bytes *)
(* retrieved.  It happens only after a read that ended at the end of a     *)
(* buffer with a successor.                                                *)
(***************************************************************************)
ReportsLength ==
  last.asked > 0 =>
    /\ last.total = last.size \/ last.size = 0
    /\ last.size = 0 => boundary
    /\ last.total <= last.asked
    /\ last.total < last.asked => sock.shadow = NULL
    /\ ~last.cut => last.first = last.head

(***************************************************************************)
(* The buffer shared by the held chain and the shadow has one owner in the *)
(* end: no buffer goes back twice, none that is still linked from the      *)
(* queue, the shadow or the application goes back, and none is forgotten.  *)
(***************************************************************************)
InUse ==
  UNION {Linked(mbuf, p) : p \in ToSet(queue) \cup held \cup {sock.shadow, sock.next}}

BuffersAccountedFor ==
  ~boundary => twice = {} /\ freed = (1 .. made) \ InUse

\* An application that reads once per event is told of the bytes that its read
\* left in the shadow, for which the service will send no event, unless the very
\* enqueue that was to tell it found ready_connections full.
RestIsAnnounced ==
  open /\ selects /\ sock.shadow # NULL => events > 0 \/ awake \/ unheard
=============================================================================
