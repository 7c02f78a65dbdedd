------------------------------ MODULE RteRing ------------------------------
(***************************************************************************)
(* The rte_ring through which the processes exchange commands, buffers,    *)
(* events and free connections: a table of pointers and four indices,      *)
(* prod.head, prod.tail, cons.head and cons.tail, that only grow, modulo   *)
(* the width of an index.  command_ring is multi-producer/single-consumer, *)
(* the rings of free connections, clients and selectors are multi/multi,   *)
(* the rest single/single.                                                 *)
(*                                                                         *)
(* A step is one access to an index, or the copy of the objects, which no  *)
(* other process may see before the tail moves.  The barriers of the code  *)
(* make the steps of a process visible in this order.                      *)
(*                                                                         *)
(* Operators whose comment starts with "Mutant" are plausible wrong        *)
(* versions of the definition that follows them; the specification does    *)
(* not use them.                                                           *)
(***************************************************************************)
EXTENDS Integers, Sequences, FiniteSets

CONSTANTS
  Producers,  \* processes that enqueue
  Consumers,  \* processes that dequeue
  Size,       \* count argument of rte_ring_create, a power of two
  Modulus,    \* 2^32: indices are uint32_t
  Start,      \* value of the indices at first: the ring has been in use
  MaxBurst,   \* bound: objects of one call
  MaxObjs,    \* bound: objects each producer enqueues
  MaxDeaths,  \* bound: processes killed in the middle of a call
  TakeTurns   \* TRUE: the users of a single-producer or single-consumer end
              \* never call at the same time

\* The last conjunct: no process sleeps through a whole turn of the indices
\* between its read of a head and its compare-and-set.
ASSUME RteRingAssumption ==
  /\ Producers \cap Consumers = {} /\ IsFiniteSet(Producers)
  /\ Size \in Nat \ {0, 1} /\ Modulus \in Nat /\ Modulus > Size
  /\ Modulus % Size = 0
  /\ Start \in 0 .. Modulus - 1
  /\ MaxBurst \in Nat \ {0} /\ MaxObjs \in Nat
  /\ MaxDeaths \in Nat /\ TakeTurns \in BOOLEAN
  /\ Cardinality(Producers) * MaxObjs < Modulus

VARIABLES
  flags,     \* [sp, sc]: RING_F_SP_ENQ and RING_F_SC_DEQ
  prodHead, prodTail, consHead, consTail,
  ring,      \* the table
  op,        \* the call each process is in
  count,     \* objects each producer has enqueued
  dead       \* processes that were killed

indices == <<prodHead, prodTail, consHead, consTail>>
vars == <<flags, indices, ring, op, count, dead>>

NONE == <<"none", 0>>
Mask == Size - 1
Processes == Producers \cup Consumers

\* Arithmetic of uint32_t.
Minus(a, b) == (a - b) % Modulus

\* Mutant: the sum is kept in a wider type.
PlusNoWrap(a, n) == a + n

Plus(a, n) == (a + n) % Modulus

Cell(i) == i % Size
Lesser(a, b) == IF a <= b THEN a ELSE b

Idle == [at |-> "idle", fixed |-> FALSE, max |-> 0, n |-> 0, head |-> 0, objs |-> <<>>]

\* Objects carry the producer they come from and a number.
Objects == Producers \X (1 .. MaxObjs)

\* rte_ring_init, and a number of enqueues and dequeues since.
Init ==
  /\ flags \in [sp : BOOLEAN, sc : BOOLEAN]
  /\ prodHead = Start /\ prodTail = Start /\ consHead = Start /\ consTail = Start
  /\ ring = [i \in 0 .. Mask |-> NONE]
  /\ op = [x \in Processes |-> Idle]
  /\ count = [p \in Producers |-> 0]
  /\ dead = {}

\* A call of process x, one of the users of an end of the ring, begins.  A user
\* that was killed in its call on a single-producer or single-consumer end is not
\* followed by another one.  In the code sig_handler, run in the middle of an
\* enqueue, closes the connection, and the next owner of its index enqueues into
\* the same ring and moves the tail over the entries its predecessor reserved and
\* never wrote.  That case is outside this module.
MayCall(x, single, users) ==
  single /\ TakeTurns => \A y \in users \ {x} : op[y] = Idle

\* The loop of a multi-producer or multi-consumer call starts over: n is reset
\* and the head read again.
Load(x, head) ==
  op' = [op EXCEPT ![x].at = "check", ![x].n = op[x].max, ![x].head = head]

\* A call with a fixed or a variable number of objects begins and reads the head;
\* for one object the two are the same.
Call(x, head, most) ==
  \E max \in 1 .. most : \E fixed \in IF max = 1 THEN {TRUE} ELSE BOOLEAN :
    op' = [op EXCEPT ![x] = [at |-> "check", fixed |-> fixed, max |-> max, n |-> max,
                             head |-> head, objs |-> <<>>]]

\* The second index has been read and leaves room for (or entries of) so many
\* objects: the call fails, or goes on with as many as it can.
Check(x, available) ==
  IF available < (IF op[x].fixed THEN op[x].n ELSE 1)
  THEN op' = [op EXCEPT ![x] = Idle]
  ELSE op' = [op EXCEPT ![x].at = "move", ![x].n = Lesser(op[x].n, available)]

---------------------------------------------------------------------------
(* __rte_ring_mp_do_enqueue and __rte_ring_sp_do_enqueue                   *)

EnqLoad(p) ==
  /\ \/ /\ op[p].at = "idle"
        /\ MayCall(p, flags.sp, Producers)
        /\ Call(p, prodHead, Lesser(MaxBurst, MaxObjs - count[p]))
     \/ /\ op[p].at = "load"
        /\ Load(p, prodHead)
  /\ UNCHANGED <<flags, indices, ring, count, dead>>

\* Mutant: the ring's size taken for its capacity.
EnqCheckWholeRing(p) ==
  /\ op[p].at = "check"
  /\ Check(p, Minus(Size + consTail, op[p].head))
  /\ UNCHANGED <<flags, indices, ring, count, dead>>

\* Mutant: the head is compared with the tail without the wrap.
EnqCheckNoWrap(p) ==
  /\ op[p].at = "check"
  /\ Check(p, Mask + consTail - op[p].head)
  /\ UNCHANGED <<flags, indices, ring, count, dead>>

\* cons.tail is read; free_entries may count with a prod.head that is stale.
EnqCheck(p) ==
  /\ op[p].at = "check"
  /\ Check(p, Minus(Mask + consTail, op[p].head))
  /\ UNCHANGED <<flags, indices, ring, count, dead>>

\* prod.head moves: by compare-and-set, or by a store when there is one producer.
EnqMove(p) ==
  /\ op[p].at = "move"
  /\ \/ /\ flags.sp \/ prodHead = op[p].head
        /\ prodHead' = Plus(op[p].head, op[p].n)
        /\ op' = [op EXCEPT ![p].at = "copy",
                            ![p].objs = [i \in 1 .. op[p].n |-> <<p, count[p] + i>>]]
     \/ /\ ~flags.sp /\ prodHead # op[p].head
        /\ op' = [op EXCEPT ![p].at = "load"]
        /\ UNCHANGED prodHead
  /\ UNCHANGED <<flags, prodTail, consHead, consTail, ring, count, dead>>

\* ENQUEUE_PTRS
EnqCopy(p) ==
  /\ op[p].at = "copy"
  /\ ring' = [i \in 0 .. Mask |->
                LET k == {j \in 1 .. op[p].n : Cell(op[p].head + j - 1) = i}
                IN  IF k = {} THEN ring[i] ELSE op[p].objs[CHOOSE j \in k : TRUE]]
  /\ op' = [op EXCEPT ![p].at = "publish"]
  /\ UNCHANGED <<flags, indices, count, dead>>

\* Mutant: it waits for the enqueue after this one.
EnqPublishWaitsWrong(p) ==
  /\ op[p].at = "publish"
  /\ flags.sp \/ prodTail = Plus(op[p].head, op[p].n)
  /\ prodTail' = Plus(op[p].head, op[p].n)
  /\ op' = [op EXCEPT ![p] = Idle]
  /\ count' = [count EXCEPT ![p] = @ + op[p].n]
  /\ UNCHANGED <<flags, prodHead, consHead, consTail, ring, dead>>

\* The enqueues that preceded this one have completed, prod.tail follows.
EnqPublish(p) ==
  /\ op[p].at = "publish"
  /\ flags.sp \/ prodTail = op[p].head
  /\ prodTail' = Plus(op[p].head, op[p].n)
  /\ op' = [op EXCEPT ![p] = Idle]
  /\ count' = [count EXCEPT ![p] = @ + op[p].n]
  /\ UNCHANGED <<flags, prodHead, consHead, consTail, ring, dead>>

---------------------------------------------------------------------------
(* __rte_ring_mc_do_dequeue and __rte_ring_sc_do_dequeue                   *)

DeqLoad(c) ==
  /\ \/ /\ op[c].at = "idle"
        /\ MayCall(c, flags.sc, Consumers)
        /\ Call(c, consHead, MaxBurst)
     \/ /\ op[c].at = "load"
        /\ Load(c, consHead)
  /\ UNCHANGED <<flags, indices, ring, count, dead>>

\* Mutant: prod.head, which moves before the objects are written, is read.
DeqCheckProdHead(c) ==
  /\ op[c].at = "check"
  /\ Check(c, Minus(prodHead, op[c].head))
  /\ UNCHANGED <<flags, indices, ring, count, dead>>

\* prod.tail is read.
DeqCheck(c) ==
  /\ op[c].at = "check"
  /\ Check(c, Minus(prodTail, op[c].head))
  /\ UNCHANGED <<flags, indices, ring, count, dead>>

DeqMove(c) ==
  /\ op[c].at = "move"
  /\ \/ /\ flags.sc \/ consHead = op[c].head
        /\ consHead' = Plus(op[c].head, op[c].n)
        /\ op' = [op EXCEPT ![c].at = "copy"]
     \/ /\ ~flags.sc /\ consHead # op[c].head
        /\ op' = [op EXCEPT ![c].at = "load"]
        /\ UNCHANGED consHead
  /\ UNCHANGED <<flags, prodHead, prodTail, consTail, ring, count, dead>>

\* DEQUEUE_PTRS
DeqCopy(c) ==
  /\ op[c].at = "copy"
  /\ op' = [op EXCEPT ![c].at = "publish",
                      ![c].objs = [j \in 1 .. op[c].n |-> ring[Cell(op[c].head + j - 1)]]]
  /\ UNCHANGED <<flags, indices, ring, count, dead>>

\* The dequeues that preceded this one have completed, cons.tail follows.
DeqPublish(c) ==
  /\ op[c].at = "publish"
  /\ flags.sc \/ consTail = op[c].head
  /\ consTail' = Plus(op[c].head, op[c].n)
  /\ op' = [op EXCEPT ![c] = Idle]
  /\ UNCHANGED <<flags, prodHead, prodTail, consHead, ring, count, dead>>

---------------------------------------------------------------------------

Enqueue(p) ==
  EnqLoad(p) \/ EnqCheck(p) \/ EnqMove(p) \/ EnqCopy(p) \/ EnqPublish(p)

Dequeue(c) ==
  DeqLoad(c) \/ DeqCheck(c) \/ DeqMove(c) \/ DeqCopy(c) \/ DeqPublish(c)

\* A signal ends the process in the middle of a call.  One that dies between two
\* calls leaves nothing behind: it makes no more calls.
Die(x) ==
  /\ Cardinality(dead) < MaxDeaths
  /\ op[x] # Idle
  /\ dead' = dead \cup {x}
  /\ UNCHANGED <<flags, indices, ring, op, count>>

Next ==
  \/ \E p \in Producers \ dead : Enqueue(p)
  \/ \E c \in Consumers \ dead : Dequeue(c)
  \/ \E x \in Processes \ dead : Die(x)

Spec == Init /\ [][Next]_vars

\* A process that lives goes on with the call it is in; nobody has to call.
InCall(x) == x \notin dead /\ op[x] # Idle
FairSpec ==
  /\ Spec
  /\ \A p \in Producers : WF_vars(InCall(p) /\ Enqueue(p))
  /\ \A c \in Consumers : WF_vars(InCall(c) /\ Dequeue(c))

---------------------------------------------------------------------------
(* Properties.                                                             *)

\* Type invariant.
TypeOK ==
  /\ flags \in [sp : BOOLEAN, sc : BOOLEAN]
  /\ {prodHead, prodTail, consHead, consTail} \subseteq 0 .. Modulus - 1
  /\ ring \in [0 .. Mask -> Objects \cup {NONE}]
  /\ op \in [Processes -> [at : {"idle", "load", "check", "move", "copy", "publish"},
                           fixed : BOOLEAN, max : 0 .. MaxBurst, n : 0 .. MaxBurst,
                           head : 0 .. Modulus - 1, objs : Seq(Objects)]]
  /\ count \in [Producers -> 0 .. MaxObjs]
  /\ dead \in SUBSET Processes

\* The indices keep their order around the ring, however its users interleave
\* and wherever one of them dies: cons.tail, cons.head, prod.tail, prod.head,
\* and at most Size - 1 entries from the first to the last.  The comments on
\* free_entries and entries ("always between 0 and size(ring)-1") rest on it.
Span == Minus(consHead, consTail) + Minus(prodTail, consHead) + Minus(prodHead, prodTail)
IndicesInOrder == Span = Minus(prodHead, consTail) /\ Span <= Mask

\* The ring implements a bounded FIFO queue: no object is lost, duplicated,
\* overtaken, or read before it is written.  Objects on their way in belong to
\* the producers that moved prod.head, in the order of their moves, those on
\* their way out to the consumers that moved cons.head.
Holds(x) == op[x].at \in {"copy", "publish"}
Owner(users, i) == CHOOSE x \in users : Holds(x) /\ Minus(i, op[x].head) < op[x].n
ComingCells ==
  [k \in 1 .. Minus(prodHead, prodTail) |->
     LET i == Plus(prodTail, k - 1)  p == Owner(Producers, i)
     IN  [who |-> p, obj |-> op[p].objs[Minus(i, op[p].head) + 1]]]
QueueCells == [k \in 1 .. Minus(prodTail, consHead) |-> ring[Cell(consHead + k - 1)]]
LeavingCells ==
  [k \in 1 .. Minus(consHead, consTail) |->
     LET i == Plus(consTail, k - 1)  c == Owner(Consumers, i)
     IN  [who |-> c, obj |-> IF op[c].at = "copy" THEN ring[Cell(i)]
                             ELSE op[c].objs[Minus(i, op[c].head) + 1]]]
RQ == INSTANCE RingQueue WITH
        Capacity <- Mask, coming <- ComingCells, queue <- QueueCells, leaving <- LeavingCells
ImplementsQueue == RQ!QSpec

\* An enqueue fails only when the ring is full, and a dequeue only when it is
\* empty, at the moment of the failure, although the head they computed with
\* may be stale.
FailuresAreTrue ==
  [][\A x \in Processes : op[x].at = "check" /\ op'[x].at = "idle" =>
       (IF x \in Producers THEN Mask - Minus(prodHead, consTail)
                           ELSE Minus(prodTail, consHead))
         < (IF op[x].fixed THEN op[x].max ELSE 1)]_vars

\* A call that moved a head returns, unless a process that moved it earlier
\* died before its tail followed: then every later call waits for ever.
ReservedReturns ==
  \A x \in Processes :
    Holds(x) ~> (~Holds(x) \/ \E y \in dead : Holds(y))
===========================================================================
