----------------------------- MODULE RingQueue -----------------------------
(***************************************************************************)
(* What an rte_ring promises its users: a bounded FIFO queue.  An enqueue  *)
(* takes effect in two steps, it reserves room for its objects and then    *)
(* hands them over, in the order of the reservations; so does a dequeue,   *)
(* which takes objects out and then gives their room back.  RteRing        *)
(* implements this specification.                                          *)
(***************************************************************************)
EXTENDS Naturals, Sequences

CONSTANTS
  Producers,  \* processes that enqueue
  Consumers,  \* processes that dequeue
  Objects,    \* what they enqueue
  Capacity    \* objects the ring holds

VARIABLES
  coming,  \* objects for which room is reserved: [who, obj], in order
  queue,   \* objects handed over and not taken, oldest first
  leaving  \* objects being taken out: [who, obj], in order

qvars == <<coming, queue, leaving>>

Room == Capacity - Len(coming) - Len(queue) - Len(leaving)

Of(process, objs) == [i \in DOMAIN objs |-> [who |-> process, obj |-> objs[i]]]

\* The cells of one operation, of which a process has at most one.
CellsOf(process, cells) == {i \in DOMAIN cells : cells[i].who = process}

Objs(cells, n) == [i \in 1 .. n |-> cells[i].obj]
Rest(s, n) == SubSeq(s, n + 1, Len(s))

QInit == coming = <<>> /\ queue = <<>> /\ leaving = <<>>

\* The new cells follow the old ones.
Reserve(p) ==
  LET n == Len(coming') - Len(coming) IN
    /\ CellsOf(p, coming) = {}
    /\ n \in 1 .. Room
    /\ SubSeq(coming', 1, Len(coming)) = coming
    /\ \A i \in 1 .. n : coming'[Len(coming) + i] \in [who : {p}, obj : Objects]
    /\ UNCHANGED <<queue, leaving>>

HandOver(p) ==
  \E n \in 1 .. Len(coming) :
    /\ CellsOf(p, coming) = 1 .. n
    /\ queue' = queue \o Objs(coming, n)
    /\ coming' = Rest(coming, n)
    /\ UNCHANGED leaving

Take(c) ==
  \E n \in 1 .. Len(queue) :
    /\ CellsOf(c, leaving) = {}
    /\ leaving' = leaving \o Of(c, SubSeq(queue, 1, n))
    /\ queue' = Rest(queue, n)
    /\ UNCHANGED coming

GiveBack(c) ==
  \E n \in 1 .. Len(leaving) :
    /\ CellsOf(c, leaving) = 1 .. n
    /\ leaving' = Rest(leaving, n)
    /\ UNCHANGED <<coming, queue>>

QNext ==
  \/ \E p \in Producers : Reserve(p) \/ HandOver(p)
  \/ \E c \in Consumers : Take(c) \/ GiveBack(c)

QSpec == QInit /\ [][QNext]_qvars
===========================================================================
