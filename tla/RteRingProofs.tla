--------------------------- MODULE RteRingProofs ---------------------------
(* Proofs about RteRing, for any number of producers and consumers, any    *)
(* size of the ring and any width of the indices.                          *)
EXTENDS RteRing, FiniteSetTheorems, SequenceTheorems, TLAPS

---------------------------------------------------------------------------
(* The inductive invariant.                                                *)

\* The place of an index in the history of the ring: the number of entries
\* that precede it.  The assumption on Modulus makes it unique.
Pos(i) == Minus(i, Start)

\* The entry of the table at a place.
Slot(k) == (Start + k) % Size

\* Objects whose place was reserved by a move of prod.head.
Claimed(p) == count[p] + (IF Holds(p) THEN op[p].n ELSE 0)
Given == {o \in Objects : o[2] <= Claimed(o[1])}

\* A call between its check and its end has an object to move, and a producer
\* has so many left.
CallsSound ==
  /\ \A x \in Processes :
       /\ op[x].at # "idle" => op[x].max >= 1
       /\ op[x].at = "check" => op[x].n = op[x].max
       /\ op[x].at \in {"move", "copy", "publish"} => op[x].n \in 1 .. op[x].max
  /\ \A p \in Producers :
       /\ op[p].at # "idle" => count[p] + op[p].max <= MaxObjs
       /\ Holds(p) => op[p].objs = [i \in 1 .. op[p].n |-> <<p, count[p] + i>>]

\* A call that moved a head and not yet the tail.
Holding(o, x) == o[x].at \in {"copy", "publish"}

\* The users of one end, whose head and tail are at these places.  The places
\* between them are those of the calls that moved the head and not yet the
\* tail, each of one call.  A call that would succeed in moving the head stays
\* below the limit that the other end sets.
EndSound(o, users, single, head, tail, limit) ==
  /\ \A x \in users :
       /\ o[x].at # "idle" => Pos(o[x].head) <= head
       /\ o[x].at = "move" /\ Pos(o[x].head) = head => head + o[x].n <= limit
       /\ Holding(o, x) => tail <= Pos(o[x].head) /\ Pos(o[x].head) + o[x].n <= head
       /\ single /\ o[x].at \in {"check", "move"} => Pos(o[x].head) = head
       /\ single => o[x].at # "load"
  /\ \A x, y \in users : Holding(o, x) /\ Holding(o, y) /\ x # y =>
       \/ Pos(o[x].head) + o[x].n <= Pos(o[y].head)
       \/ Pos(o[y].head) + o[y].n <= Pos(o[x].head)
  /\ \A k \in tail .. head - 1 :
       \E x \in users : Holding(o, x) /\ k \in Pos(o[x].head) .. Pos(o[x].head) + o[x].n - 1
  /\ single => \A x, y \in users : x # y => o[x].at = "idle" \/ o[y].at = "idle"

PlacesInOrder ==
  /\ Pos(consTail) <= Pos(consHead) /\ Pos(consHead) <= Pos(prodTail)
  /\ Pos(prodTail) <= Pos(prodHead) /\ Pos(prodHead) <= Pos(consTail) + Mask
  /\ Pos(prodHead) = Cardinality(Given)

\* What was handed over and not given back is in the table, and so is what a
\* producer has copied and a consumer has yet to give back.
TableSound ==
  /\ \A k \in Pos(consTail) .. Pos(prodTail) - 1 : ring[Slot(k)] \in Objects
  /\ \A p \in Producers : op[p].at = "publish" =>
       \A j \in 1 .. op[p].n : ring[Slot(Pos(op[p].head) + j - 1)] = op[p].objs[j]
  /\ \A c \in Consumers : op[c].at = "publish" =>
       op[c].objs = [j \in 1 .. op[c].n |-> ring[Slot(Pos(op[c].head) + j - 1)]]

RingInv ==
  /\ TypeOK /\ CallsSound /\ PlacesInOrder
  /\ EndSound(op, Producers, flags.sp, Pos(prodHead), Pos(prodTail), Pos(consTail) + Mask)
  /\ EndSound(op, Consumers, flags.sc, Pos(consHead), Pos(consTail), Pos(prodTail))
  /\ TableSound

---------------------------------------------------------------------------
(* Arithmetic of indices and places.                                       *)

Index == 0 .. Modulus - 1

\* The assumptions, as the provers use them.
LEMMA Sizes ==
  /\ Size \in Nat /\ Size > 1 /\ Modulus \in Nat /\ Modulus > Size
  /\ Start \in Index /\ Mask \in Nat /\ Mask = Size - 1
  /\ MaxBurst \in Nat /\ MaxBurst > 0 /\ MaxObjs \in Nat
  BY RteRingAssumption DEF Index, Mask

\* Remainders, by the multiple they leave out.
LEMMA ModOf ==
  ASSUME NEW M \in Nat, M > 0, NEW x \in Int, NEW q \in Int, NEW r \in 0 .. M - 1,
         x = q * M + r
  PROVE  x % M = r
  OBVIOUS

LEMMA ModSplit ==
  ASSUME NEW M \in Nat, M > 0, NEW x \in Int
  PROVE  x % M \in 0 .. M - 1 /\ \E q \in Int : x = q * M + (x % M)
  OBVIOUS

\* An index has one place and a place one index.
LEMMA PosFacts ==
  ASSUME NEW i \in Index
  PROVE  /\ Pos(i) \in Index
         /\ Pos(i) = IF i >= Start THEN i - Start ELSE i - Start + Modulus
  BY Sizes DEF Index, Pos, Minus

LEMMA PosInjective ==
  ASSUME NEW i \in Index, NEW j \in Index, Pos(i) = Pos(j)
  PROVE  i = j
  BY Sizes, PosFacts DEF Index

\* Sums and differences of indices are those of their places.
LEMMA PosPlus ==
  ASSUME NEW i \in Index, NEW n \in Nat, Pos(i) + n < Modulus
  PROVE  Plus(i, n) \in Index /\ Pos(Plus(i, n)) = Pos(i) + n
<1> Plus(i, n) = IF i + n < Modulus THEN i + n ELSE i + n - Modulus
  <2>1. i + n >= 0 /\ i + n < 2 * Modulus
    BY Sizes, PosFacts DEF Index
  <2> QED BY <2>1, Sizes DEF Index, Plus
<1> QED BY Sizes, PosFacts DEF Index

LEMMA PosMinus ==
  ASSUME NEW i \in Index, NEW j \in Index, Pos(j) <= Pos(i)
  PROVE  Minus(i, j) = Pos(i) - Pos(j)
<1> Minus(i, j) = IF i >= j THEN i - j ELSE i - j + Modulus
  BY Sizes DEF Index, Minus
<1> QED BY Sizes, PosFacts DEF Index

LEMMA PosMinusWrap ==
  ASSUME NEW i \in Index, NEW j \in Index, Pos(i) < Pos(j)
  PROVE  Minus(i, j) = Pos(i) - Pos(j) + Modulus
<1> Minus(i, j) = IF i >= j THEN i - j ELSE i - j + Modulus
  BY Sizes DEF Index, Minus
<1> QED BY Sizes, PosFacts DEF Index

LEMMA PosFree ==
  ASSUME NEW i \in Index, NEW j \in Index, NEW k \in Nat, NEW d \in Index,
         d = Pos(i) + k - Pos(j)
  PROVE  Minus(k + i, j) = d
<1>1. PICK q \in {-1, 0, 1} : k + i - j = d + q * Modulus
  BY Sizes, PosFacts DEF Index
<1>2. k + i - j = q * Modulus + d
  BY <1>1, Sizes DEF Index
<1>3. (k + i - j) % Modulus = d
  BY <1>2, ModOf, Sizes DEF Index
<1> QED BY <1>3 DEF Minus

\* The table is indexed by places as well as by indices.
LEMMA CellIsSlot ==
  ASSUME NEW i \in Index, NEW k \in Nat
  PROVE  Cell(i + k) = Slot(Pos(i) + k)
<1>1. PICK q \in Nat : Modulus = q * Size
  BY RteRingAssumption
<1>2. (i + k + Modulus) % Size = (i + k) % Size
  <2>1. PICK d \in Int : i + k = d * Size + ((i + k) % Size)
    <3>1. i + k \in Int /\ Size \in Nat /\ Size > 0
      BY Sizes DEF Index
    <3> QED BY <3>1, ModSplit, Zenon
  <2>2. i + k + Modulus = (d + q) * Size + ((i + k) % Size)
    <3>1. (d + q) * Size = d * Size + q * Size
      BY Sizes
    <3> QED BY <1>1, <2>1, <3>1, Sizes, ModSplit DEF Index
  <2> QED BY <2>2, ModOf, ModSplit, Sizes DEF Index
<1>3. Start + Pos(i) + k = i + k \/ Start + Pos(i) + k = i + k + Modulus
  BY Sizes, PosFacts DEF Index
<1> QED BY <1>2, <1>3, Sizes, PosFacts DEF Index, Cell, Slot

\* Places less than the size of the ring apart have different entries.
LEMMA SlotsDiffer ==
  ASSUME NEW j \in Nat, NEW k \in Nat, j < k, k < j + Size
  PROVE  Slot(j) # Slot(k)
<1> SUFFICES ASSUME Slot(j) = Slot(k) PROVE FALSE
  OBVIOUS
<1>1. PICK d \in Int : Start + j = d * Size + Slot(j)
  <2>1. Start + j \in Int /\ Size \in Nat /\ Size > 0
    BY Sizes DEF Index
  <2> QED BY <2>1, ModSplit, Zenon DEF Slot
<1>2. PICK e \in Int : Start + k = e * Size + Slot(k)
  <2>1. Start + k \in Int /\ Size \in Nat /\ Size > 0
    BY Sizes DEF Index
  <2> QED BY <2>1, ModSplit, Zenon DEF Slot
<1>3. k - j = (e - d) * Size
  BY <1>1, <1>2, ModSplit, Sizes DEF Index, Slot
<1>4. CASE e - d >= 1
  BY <1>3, <1>4, Sizes
<1>5. CASE e - d <= 0
  BY <1>3, <1>5, Sizes
<1> QED BY <1>4, <1>5

LEMMA SlotType ==
  ASSUME NEW k \in Nat
  PROVE  Slot(k) \in 0 .. Mask
  BY Sizes DEF Slot, Index

---------------------------------------------------------------------------
(* One end of the ring: what the steps of a call do to EndSound.  The      *)
(* places of the head and the tail and the limit are h, t and l.           *)

\* What EndSound needs to know of the types.
Calls == [at : {"idle", "load", "check", "move", "copy", "publish"},
          fixed : BOOLEAN, max : 0 .. MaxBurst, n : 0 .. MaxBurst,
          head : Index, objs : Seq(Objects)]

LEMMA CallTypes ==
  ASSUME NEW o \in [Processes -> Calls], NEW x \in Processes
  PROVE  /\ o[x] \in Calls /\ o[x].head \in Index
         /\ o[x].n \in Nat /\ o[x].max \in Nat /\ o[x].n <= MaxBurst
         /\ Pos(o[x].head) \in Nat /\ Pos(o[x].head) < Modulus
<1>1. o[x] \in Calls
  OBVIOUS
<1>2. o[x].head \in Index /\ o[x].n \in 0 .. MaxBurst /\ o[x].max \in 0 .. MaxBurst
  BY <1>1 DEF Calls
<1> QED BY <1>1, <1>2, PosFacts, Sizes DEF Index

\* Nobody at this end moves, and the other end does not lower the limit.
LEMMA EndOther ==
  ASSUME NEW o \in [Processes -> Calls], NEW o2, NEW U \in SUBSET Processes,
         NEW single \in BOOLEAN,
         NEW h \in Nat, NEW t \in Nat, NEW l \in Nat, NEW l2 \in Nat,
         EndSound(o, U, single, h, t, l), l <= l2,
         \A x \in U : o2[x] = o[x]
  PROVE  EndSound(o2, U, single, h, t, l2)
<1>1. \A y \in U : Holding(o2, y) <=> Holding(o, y)
  BY DEF Holding
<1>2. \A y \in U : o2[y].head = o[y].head /\ o2[y].n = o[y].n /\ o2[y].at = o[y].at
  OBVIOUS
<1> QED BY <1>1, <1>2, CallTypes DEF EndSound

\* A call reads the head: it begins, or its compare-and-set failed.
LEMMA EndLoad ==
  ASSUME NEW o \in [Processes -> Calls], NEW o2, NEW U \in SUBSET Processes,
         NEW single \in BOOLEAN,
         NEW h \in Nat, NEW t \in Nat, NEW l \in Nat, NEW x \in U,
         EndSound(o, U, single, h, t, l),
         o[x].at \in {"idle", "load"},
         o[x].at = "idle" => (single => \A y \in U \ {x} : o[y].at = "idle"),
         o2[x].at = "check", Pos(o2[x].head) = h,
         \A y \in U \ {x} : o2[y] = o[y]
  PROVE  EndSound(o2, U, single, h, t, l)
  BY CallTypes DEF EndSound, Holding

\* A call gives up, or starts over because others moved the head.
LEMMA EndFails ==
  ASSUME NEW o \in [Processes -> Calls], NEW o2, NEW U \in SUBSET Processes,
         NEW single \in BOOLEAN,
         NEW h \in Nat, NEW t \in Nat, NEW l \in Nat, NEW x \in U,
         EndSound(o, U, single, h, t, l),
         o[x].at \in {"check", "move"},
         \/ o2[x].at = "idle"
         \/ ~single /\ o2[x].at = "load" /\ o2[x].head = o[x].head,
         \A y \in U \ {x} : o2[y] = o[y]
  PROVE  EndSound(o2, U, single, h, t, l)
  BY CallTypes DEF EndSound, Holding

\* A call knows how many objects it can move.
LEMMA EndCheck ==
  ASSUME NEW o \in [Processes -> Calls], NEW o2, NEW U \in SUBSET Processes,
         NEW single \in BOOLEAN,
         NEW h \in Nat, NEW t \in Nat, NEW l \in Nat, NEW x \in U,
         EndSound(o, U, single, h, t, l),
         o[x].at = "check", o2[x].at = "move", o2[x].head = o[x].head,
         Pos(o[x].head) = h => h + o2[x].n <= l,
         \A y \in U \ {x} : o2[y] = o[y]
  PROVE  EndSound(o2, U, single, h, t, l)
  BY CallTypes DEF EndSound, Holding

\* A call moves the head, from which it computed.
LEMMA EndMove ==
  ASSUME NEW o \in [Processes -> Calls], NEW o2, NEW U \in SUBSET Processes,
         NEW single \in BOOLEAN,
         NEW h \in Nat, NEW t \in Nat, NEW l \in Nat, NEW x \in U,
         EndSound(o, U, single, h, t, l), t <= h,
         o[x].at = "move", Pos(o[x].head) = h, o[x].n >= 1,
         o2[x].at = "copy", o2[x].head = o[x].head, o2[x].n = o[x].n,
         \A y \in U \ {x} : o2[y] = o[y]
  PROVE  h + o[x].n <= l /\ EndSound(o2, U, single, h + o[x].n, t, l)
<1>0. PICK n \in Nat : n = o[x].n
  BY CallTypes
<1> USE <1>0
<1>1. h + n <= l
  BY DEF EndSound
<1>2. ASSUME NEW y \in U
      PROVE  /\ o2[y].at # "idle" => Pos(o2[y].head) <= h + n
             /\ o2[y].at = "move" /\ Pos(o2[y].head) = h + n => h + n + o2[y].n <= l
             /\ Holding(o2, y) => t <= Pos(o2[y].head) /\ Pos(o2[y].head) + o2[y].n <= h + n
             /\ single /\ o2[y].at \in {"check", "move"} => Pos(o2[y].head) = h + n
             /\ single => o2[y].at # "load"
  BY <1>2, CallTypes DEF EndSound, Holding
<1>3. ASSUME NEW y \in U, NEW z \in U, Holding(o2, y), Holding(o2, z), y # z
      PROVE  \/ Pos(o2[y].head) + o2[y].n <= Pos(o2[z].head)
             \/ Pos(o2[z].head) + o2[z].n <= Pos(o2[y].head)
  BY <1>3, CallTypes DEF EndSound, Holding
<1>4. ASSUME NEW k \in t .. h + n - 1
      PROVE  \E y \in U : /\ Holding(o2, y)
                          /\ k \in Pos(o2[y].head) .. Pos(o2[y].head) + o2[y].n - 1
  <2>1. CASE k < h
    <3>1. PICK y \in U : Holding(o, y) /\ k \in Pos(o[y].head) .. Pos(o[y].head) + o[y].n - 1
      BY <2>1 DEF EndSound
    <3>2. y # x
      BY <3>1 DEF Holding
    <3> QED BY <3>1, <3>2 DEF Holding
  <2>2. CASE k >= h
    BY <2>2 DEF Holding
  <2> QED BY <2>1, <2>2
<1>5. single => \A y, z \in U : y # z => o2[y].at = "idle" \/ o2[z].at = "idle"
  BY DEF EndSound
<1> QED BY <1>1, <1>2, <1>3, <1>4, <1>5 DEF EndSound

\* The copy of the objects.
LEMMA EndCopy ==
  ASSUME NEW o \in [Processes -> Calls], NEW o2, NEW U \in SUBSET Processes,
         NEW single \in BOOLEAN,
         NEW h \in Nat, NEW t \in Nat, NEW l \in Nat, NEW x \in U,
         EndSound(o, U, single, h, t, l),
         o[x].at = "copy", o2[x].at = "publish", o2[x].head = o[x].head,
         o2[x].n = o[x].n,
         \A y \in U \ {x} : o2[y] = o[y]
  PROVE  EndSound(o2, U, single, h, t, l)
<1>1. \A y \in U : Holding(o2, y) <=> Holding(o, y)
  BY DEF Holding
<1>2. \A y \in U : o2[y].head = o[y].head /\ o2[y].n = o[y].n
  OBVIOUS
<1>3. \A y \in U : o2[y].at = o[y].at \/ (Holding(o, y) /\ o2[y].at = "publish")
  BY DEF Holding
<1> QED BY <1>1, <1>2, <1>3, CallTypes DEF EndSound, Holding

\* A call that has the end for itself is the one the tail waits for.
LEMMA EndAlone ==
  ASSUME NEW o \in [Processes -> Calls], NEW o2, NEW U \in SUBSET Processes,
         NEW h \in Nat, NEW t \in Nat, NEW l \in Nat, NEW x \in U,
         EndSound(o, U, TRUE, h, t, l), Holding(o, x), o[x].n >= 1
  PROVE  Pos(o[x].head) = t
<1> SUFFICES ASSUME t < Pos(o[x].head) PROVE FALSE
  BY CallTypes DEF EndSound
<1>1. t \in t .. h - 1
  BY CallTypes DEF EndSound
<1>2. PICK y \in U : Holding(o, y) /\ t \in Pos(o[y].head) .. Pos(o[y].head) + o[y].n - 1
  BY <1>1 DEF EndSound
<1>3. y = x
  BY <1>2 DEF EndSound, Holding
<1> QED BY <1>2, <1>3, CallTypes

\* The tail follows.
LEMMA EndPublish ==
  ASSUME NEW o \in [Processes -> Calls], NEW o2, NEW U \in SUBSET Processes,
         NEW single \in BOOLEAN,
         NEW h \in Nat, NEW t \in Nat, NEW l \in Nat, NEW x \in U,
         EndSound(o, U, single, h, t, l),
         \A y \in U : Holding(o, y) => o[y].n >= 1,
         o[x].at = "publish", Pos(o[x].head) = t,
         o2[x].at = "idle",
         \A y \in U \ {x} : o2[y] = o[y]
  PROVE  t + o[x].n <= h /\ EndSound(o2, U, single, h, t + o[x].n, l)
<1>0. PICK n \in Nat : n = o[x].n
  BY CallTypes
<1> USE <1>0
<1>1. t + n <= h
  BY DEF EndSound, Holding
<1>2. ASSUME NEW y \in U
      PROVE  /\ o2[y].at # "idle" => Pos(o2[y].head) <= h
             /\ o2[y].at = "move" /\ Pos(o2[y].head) = h => h + o2[y].n <= l
             /\ Holding(o2, y) => t + n <= Pos(o2[y].head) /\ Pos(o2[y].head) + o2[y].n <= h
             /\ single /\ o2[y].at \in {"check", "move"} => Pos(o2[y].head) = h
             /\ single => o2[y].at # "load"
  BY <1>2, CallTypes DEF EndSound, Holding
<1>3. ASSUME NEW y \in U, NEW z \in U, Holding(o2, y), Holding(o2, z), y # z
      PROVE  \/ Pos(o2[y].head) + o2[y].n <= Pos(o2[z].head)
             \/ Pos(o2[z].head) + o2[z].n <= Pos(o2[y].head)
  BY <1>3, CallTypes DEF EndSound, Holding
<1>4. ASSUME NEW k \in t + n .. h - 1
      PROVE  \E y \in U : /\ Holding(o2, y)
                          /\ k \in Pos(o2[y].head) .. Pos(o2[y].head) + o2[y].n - 1
  <2>1. PICK y \in U : Holding(o, y) /\ k \in Pos(o[y].head) .. Pos(o[y].head) + o[y].n - 1
    BY DEF EndSound
  <2>2. y # x
    BY <2>1
  <2> QED BY <2>1, <2>2 DEF Holding
<1>5. single => \A y, z \in U : y # z => o2[y].at = "idle" \/ o2[z].at = "idle"
  BY DEF EndSound
<1> QED BY <1>1, <1>2, <1>3, <1>4, <1>5 DEF EndSound

---------------------------------------------------------------------------
(* The number of objects given to the ring bounds the places.              *)

LEMMA Typed ==
  ASSUME TypeOK
  PROVE  /\ op \in [Processes -> Calls] /\ flags.sp \in BOOLEAN /\ flags.sc \in BOOLEAN
         /\ prodHead \in Index /\ prodTail \in Index
         /\ consHead \in Index /\ consTail \in Index
         /\ \A p \in Producers : count[p] \in 0 .. MaxObjs
         /\ Producers \in SUBSET Processes /\ Consumers \in SUBSET Processes
         /\ Producers \cap Consumers = {}
  BY RteRingAssumption DEF TypeOK, Calls, Index, Processes

LEMMA Places ==
  ASSUME TypeOK
  PROVE  /\ Pos(prodHead) \in Nat /\ Pos(prodTail) \in Nat /\ Pos(consHead) \in Nat
         /\ Pos(consTail) \in Nat /\ Pos(consTail) + Mask \in Nat
  BY Typed, PosFacts, Sizes DEF Index

LEMMA ObjectsFinite ==
  /\ IsFiniteSet(Objects) /\ Cardinality(Objects) \in Nat
  /\ Cardinality(Objects) = Cardinality(Producers) * MaxObjs
  /\ Cardinality(Objects) < Modulus
<1>1. IsFiniteSet(1 .. MaxObjs) /\ Cardinality(1 .. MaxObjs) = MaxObjs
  BY FS_Interval, Sizes
<1>2. IsFiniteSet(Producers)
  BY RteRingAssumption
<1>3. /\ IsFiniteSet(Objects)
      /\ Cardinality(Objects) = Cardinality(Producers) * Cardinality(1 .. MaxObjs)
  BY <1>1, <1>2, FS_Product DEF Objects
<1> QED BY <1>1, <1>3, FS_CardinalityType, RteRingAssumption

LEMMA GivenFinite ==
  ASSUME NEW G \in SUBSET Objects
  PROVE  IsFiniteSet(G) /\ Cardinality(G) \in Nat /\ Cardinality(G) < Modulus
<1>1. IsFiniteSet(G) /\ Cardinality(G) <= Cardinality(Objects)
  BY ObjectsFinite, FS_Subset
<1> QED BY <1>1, ObjectsFinite, FS_CardinalityType, Sizes

\* A move of prod.head by n gives n objects.
LEMMA GivenGrows ==
  ASSUME NEW G, NEW p \in Producers, NEW a \in Nat, NEW n \in Nat, IsFiniteSet(G),
         G \cap ({p} \X (a + 1 .. a + n)) = {}
  PROVE  Cardinality(G \cup ({p} \X (a + 1 .. a + n))) = Cardinality(G) + n
<1> DEFINE N == {p} \X (a + 1 .. a + n)
<1>1. IsFiniteSet(a + 1 .. a + n) /\ Cardinality(a + 1 .. a + n) = n
  BY FS_Interval
<1>2. IsFiniteSet({p}) /\ Cardinality({p}) = 1
  BY FS_Singleton
<1>3. IsFiniteSet(N) /\ Cardinality(N) = n
  <2>1. IsFiniteSet(N) /\ Cardinality(N) = Cardinality({p}) * Cardinality(a + 1 .. a + n)
    BY <1>1, <1>2, FS_Product
  <2> QED BY <1>1, <1>2, <2>1
<1>4. IsFiniteSet(G \cap N) /\ Cardinality(G \cap N) = 0
  BY FS_EmptySet
<1>5. Cardinality(G \cup N) = Cardinality(G) + Cardinality(N) - Cardinality(G \cap N)
  BY <1>3, FS_Union
<1> HIDE DEF N
<1>6. Cardinality(G) \in Nat
  BY FS_CardinalityType
<1> QED BY <1>3, <1>4, <1>5, <1>6 DEF N

LEMMA GivenSame ==
  ASSUME \A p \in Producers : Claimed(p)' = Claimed(p)
  PROVE  Given' = Given
<1>1. \A o \in Objects : o[1] \in Producers
  BY DEF Objects
<1> QED BY <1>1 DEF Given

---------------------------------------------------------------------------
(* The invariant is inductive: one lemma per action.                       *)

LEMMA SeqOf ==
  ASSUME NEW S, NEW n \in Nat, NEW f \in [1 .. n -> S]
  PROVE  f \in Seq(S) /\ Len(f) = n
<1>1. f \in Seq(S)
  BY SeqDef
<1> QED BY <1>1

LEMMA IdleCall == Idle \in Calls /\ Idle.at = "idle"
  BY Sizes DEF Calls, Idle, Index

LEMMA RingInit ==
  ASSUME Init
  PROVE  RingInv
<1>1. TypeOK
  <2>1. op \in [Processes -> Calls]
    BY IdleCall DEF Init
  <2> QED BY <2>1, Sizes DEF Init, TypeOK, Index, Calls, Mask
<1>2. \A x \in Processes : op[x].at = "idle"
  BY DEF Init, Idle
<1>3. \A p \in Producers : op[p].at = "idle"
  BY <1>2 DEF Processes
<1>4. \A c \in Consumers : op[c].at = "idle"
  BY <1>2 DEF Processes
<1>5. CallsSound
  BY <1>2, <1>3 DEF CallsSound, Holds
<1>6. Pos(prodHead) = 0 /\ Pos(prodTail) = 0 /\ Pos(consHead) = 0 /\ Pos(consTail) = 0
  BY Sizes DEF Init, Pos, Minus, Index
<1>7. Given = {}
  BY <1>3, Sizes DEF Init, Given, Claimed, Holds, Objects
<1>8. PlacesInOrder
  BY <1>6, <1>7, FS_EmptySet, Sizes DEF PlacesInOrder
<1>9. /\ EndSound(op, Producers, flags.sp, Pos(prodHead), Pos(prodTail), Pos(consTail) + Mask)
      /\ EndSound(op, Consumers, flags.sc, Pos(consHead), Pos(consTail), Pos(prodTail))
  BY <1>3, <1>4, <1>6 DEF EndSound, Holding
<1>10. TableSound
  BY <1>3, <1>4, <1>6 DEF TableSound
<1> QED BY <1>1, <1>5, <1>8, <1>9, <1>10 DEF RingInv

\* What a call is after it has read the head.
LEMMA Loaded ==
  ASSUME TypeOK, CallsSound, NEW x \in Processes, NEW head \in Index, NEW most \in Int,
         most <= MaxBurst,
         \/ op[x].at = "idle" /\ Call(x, head, most)
         \/ op[x].at = "load" /\ Load(x, head)
  PROVE  \E r \in Calls :
           /\ op' = [op EXCEPT ![x] = r]
           /\ r.at = "check" /\ r.n = r.max /\ r.head = head /\ r.max >= 1
           /\ r.max <= most \/ (op[x].at = "load" /\ r.max = op[x].max)
<1>1. CASE op[x].at = "idle" /\ Call(x, head, most)
  <2>1. PICK max \in 1 .. most, fixed \in BOOLEAN :
          op' = [op EXCEPT ![x] = [at |-> "check", fixed |-> fixed, max |-> max, n |-> max,
                                   head |-> head, objs |-> <<>>]]
    BY <1>1 DEF Call
  <2> DEFINE r == [at |-> "check", fixed |-> fixed, max |-> max, n |-> max, head |-> head,
                   objs |-> <<>>]
  <2>2. max \in 1 .. MaxBurst
    BY Sizes
  <2>3. r.at = "check" /\ r.n = max /\ r.max = max /\ r.head = head
    OBVIOUS
  <2>4. op' = [op EXCEPT ![x] = r]
    BY <2>1
  <2>5. r \in Calls
    BY <2>2, Sizes DEF Calls
  <2> HIDE DEF r
  <2>6. r.n = r.max /\ r.max >= 1 /\ r.max <= most
    BY <2>3
  <2> QED BY <2>3, <2>4, <2>5, <2>6
<1>2. CASE op[x].at = "load" /\ Load(x, head)
  <2>1. op[x] \in Calls
    BY Typed
  <2> DEFINE r == [op[x] EXCEPT !.at = "check", !.n = op[x].max, !.head = head]
  <2>2. r \in Calls
    BY <2>1 DEF Calls
  <2>3. op' = [op EXCEPT ![x] = r]
    BY <1>2, <2>1, Typed DEF Load
  <2>4. r.at = "check" /\ r.n = r.max /\ r.head = head /\ r.max = op[x].max
    BY <2>1 DEF Calls
  <2>5. op[x].max >= 1
    BY <1>2 DEF CallsSound
  <2> HIDE DEF r
  <2> QED BY <1>2, <2>2, <2>3, <2>4, <2>5
<1> QED BY <1>1, <1>2

LEMMA StepEnqLoad ==
  ASSUME RingInv, TakeTurns, NEW p \in Producers, EnqLoad(p)
  PROVE  RingInv'
<1> USE DEF RingInv
<1>1. PICK r \in Calls : /\ op' = [op EXCEPT ![p] = r]
                         /\ r.at = "check" /\ r.n = r.max /\ r.head = prodHead
                         /\ r.max >= 1 /\ count[p] + r.max <= MaxObjs
  <2> DEFINE most == Lesser(MaxBurst, MaxObjs - count[p])
  <2>1. most \in Int /\ most <= MaxBurst /\ count[p] + most <= MaxObjs
    BY Typed, Sizes DEF Lesser
  <2>2. \/ op[p].at = "idle" /\ Call(p, prodHead, most)
        \/ op[p].at = "load" /\ Load(p, prodHead)
    BY DEF EnqLoad
  <2>3. op[p].at = "load" => count[p] + op[p].max <= MaxObjs
    BY DEF CallsSound
  <2> HIDE DEF most
  <2>4. PICK r \in Calls :
          /\ op' = [op EXCEPT ![p] = r]
          /\ r.at = "check" /\ r.n = r.max /\ r.head = prodHead /\ r.max >= 1
          /\ r.max <= most \/ (op[p].at = "load" /\ r.max = op[p].max)
    BY <2>1, <2>2, Typed, Loaded
  <2>5. count[p] + r.max <= MaxObjs
    BY <2>1, <2>3, <2>4, Typed, Sizes DEF Calls
  <2> QED BY <2>4, <2>5
<1>2. UNCHANGED <<flags, prodHead, prodTail, consHead, consTail, ring, count, dead>>
  BY DEF EnqLoad, indices
<1>3. op[p].at \in {"idle", "load"}
  BY DEF EnqLoad
<1>4. op' \in [Processes -> Calls] /\ op'[p] = r
  BY <1>1, Typed
<1>5. \A y \in Processes \ {p} : op'[y] = op[y]
  BY <1>1, Typed
<1>6. TypeOK'
  BY <1>2, <1>4 DEF TypeOK, Calls, Index
<1>7. CallsSound'
  BY <1>1, <1>2, <1>4, <1>5, Typed DEF CallsSound, Holds
<1>8. PlacesInOrder'
  <2>1. Given' = Given
    BY <1>1, <1>2, <1>3, <1>4, <1>5, GivenSame, Typed DEF Claimed, Holds
  <2> QED BY <1>2, <2>1 DEF PlacesInOrder
<1>9. EndSound(op, Producers, flags.sp, Pos(prodHead), Pos(prodTail), Pos(consTail) + Mask)'
  <2>1. op[p].at = "idle" => (flags.sp => \A y \in Producers \ {p} : op[y].at = "idle")
    BY DEF EnqLoad, MayCall, Idle
  <2>2. op'[p].at = "check" /\ Pos(op'[p].head) = Pos(prodHead)
    BY <1>1, <1>4
  <2>3. \A y \in Producers \ {p} : op'[y] = op[y]
    BY <1>5, Typed
  <2>4. EndSound(op', Producers, flags.sp, Pos(prodHead), Pos(prodTail), Pos(consTail) + Mask)
    BY <1>3, <2>1, <2>2, <2>3, EndLoad, Typed, Places
  <2> QED BY <1>2, <2>4
<1>10. EndSound(op, Consumers, flags.sc, Pos(consHead), Pos(consTail), Pos(prodTail))'
  BY <1>2, <1>4, <1>5, EndOther, Typed, Places
<1>11. TableSound'
  BY <1>1, <1>2, <1>4, <1>5, Typed DEF TableSound
<1> QED BY <1>6, <1>7, <1>8, <1>9, <1>10, <1>11

\* What a call is after it has read the second index.
LEMMA Checked ==
  ASSUME TypeOK, CallsSound, NEW x \in Processes, op[x].at = "check",
         NEW available \in Nat, Check(x, available)
  PROVE  /\ op' \in [Processes -> Calls]
         /\ \A y \in Processes \ {x} : op'[y] = op[y]
         /\ \/ op'[x] = Idle
            \/ /\ op'[x].at = "move" /\ op'[x].head = op[x].head /\ op'[x].max = op[x].max
               /\ op'[x].n \in 1 .. op[x].max /\ op'[x].n <= available
<1>1. op[x] \in Calls /\ op[x].n = op[x].max /\ op[x].n >= 1 /\ op[x].n \in 0 .. MaxBurst
  BY Typed DEF CallsSound, Calls
<1>2. CASE op' = [op EXCEPT ![x] = Idle]
  BY <1>2, IdleCall, Typed
<1>3. CASE /\ available >= 1
           /\ op' = [op EXCEPT ![x].at = "move", ![x].n = Lesser(op[x].n, available)]
  <2> DEFINE n == Lesser(op[x].n, available)
             r == [op[x] EXCEPT !.at = "move", !.n = n]
  <2>1. n \in 0 .. MaxBurst /\ n \in 1 .. op[x].max /\ n <= available
    BY <1>1, <1>3, Sizes DEF Lesser
  <2>2. op' = [op EXCEPT ![x] = r]
    BY <1>1, <1>3, Typed
  <2> HIDE DEF n
  <2>3. r \in Calls /\ r.at = "move" /\ r.head = op[x].head /\ r.max = op[x].max /\ r.n = n
    BY <1>1, <2>1 DEF Calls
  <2> HIDE DEF r
  <2> QED BY <2>1, <2>2, <2>3, Typed
<1>4. ~(available < IF op[x].fixed THEN op[x].n ELSE 1) => available >= 1
  BY <1>1, Sizes
<1> QED BY <1>2, <1>3, <1>4 DEF Check

LEMMA StepEnqCheck ==
  ASSUME RingInv, NEW p \in Producers, EnqCheck(p)
  PROVE  RingInv'
<1> USE DEF RingInv
<1> DEFINE available == Minus(Mask + consTail, op[p].head)
<1>1. available \in Nat /\ op[p].at = "check" /\ Check(p, available) /\ p \in Processes
  BY Typed, CallTypes, Sizes DEF EnqCheck, Minus, Index
<1>2. UNCHANGED <<flags, prodHead, prodTail, consHead, consTail, ring, count, dead>>
  BY DEF EnqCheck, indices
<1>3. Pos(op[p].head) = Pos(prodHead) => available = Pos(consTail) + Mask - Pos(prodHead)
  <2>1. ASSUME Pos(op[p].head) = Pos(prodHead)
        PROVE  available = Pos(consTail) + Mask - Pos(prodHead)
    <3>1. Pos(consTail) + Mask - Pos(prodHead) \in Index
      BY Typed, PosFacts, Sizes DEF PlacesInOrder, Index
    <3>2. Mask \in Nat /\ op[p].head \in Index /\ consTail \in Index
      BY Typed, CallTypes, Sizes
    <3> QED BY <2>1, <3>1, <3>2, PosFree
  <2> QED BY <2>1
<1> HIDE DEF available
<1>4. op' \in [Processes -> Calls]
  BY <1>1, Checked
<1>5. \A y \in Processes \ {p} : op'[y] = op[y]
  BY <1>1, Checked
<1>6. \/ op'[p] = Idle
      \/ /\ op'[p].at = "move" /\ op'[p].head = op[p].head /\ op'[p].max = op[p].max
         /\ op'[p].n \in 1 .. op[p].max /\ op'[p].n <= available
  BY <1>1, Checked
<1>7. TypeOK'
  BY <1>2, <1>4 DEF TypeOK, Calls, Index
<1>8. CallsSound'
  BY <1>1, <1>2, <1>5, <1>6, IdleCall, Typed DEF CallsSound, Holds
<1>9. PlacesInOrder'
  <2>1. \A y \in Producers : ~(op[y].at # op'[y].at /\ (Holds(y) \/ Holds(y)'))
    BY <1>1, <1>5, <1>6, IdleCall, Typed DEF Holds
  <2>2. Given' = Given
    BY <1>1, <1>2, <1>5, <1>6, IdleCall, GivenSame, Typed DEF Claimed, Holds
  <2> QED BY <1>2, <2>2 DEF PlacesInOrder
<1>10. EndSound(op, Producers, flags.sp, Pos(prodHead), Pos(prodTail), Pos(consTail) + Mask)'
  <2>1. \A y \in Producers \ {p} : op'[y] = op[y]
    BY <1>5, Typed
  <2>2. CASE op'[p] = Idle
    <3>1. EndSound(op', Producers, flags.sp, Pos(prodHead), Pos(prodTail),
                   Pos(consTail) + Mask)
      BY <1>1, <2>1, <2>2, IdleCall, EndFails, Typed, Places
    <3> QED BY <1>2, <3>1
  <2>3. CASE op'[p].at = "move" /\ op'[p].head = op[p].head /\ op'[p].n <= available
    <3>1. Pos(op[p].head) = Pos(prodHead) =>
            Pos(prodHead) + op'[p].n <= Pos(consTail) + Mask
      BY <1>1, <1>3, <1>4, <2>3, CallTypes, Places, Sizes
    <3>2. EndSound(op', Producers, flags.sp, Pos(prodHead), Pos(prodTail),
                   Pos(consTail) + Mask)
      BY <1>1, <2>1, <2>3, <3>1, EndCheck, Typed, Places
    <3> QED BY <1>2, <3>2
  <2> QED BY <1>6, <2>2, <2>3
<1>11. EndSound(op, Consumers, flags.sc, Pos(consHead), Pos(consTail), Pos(prodTail))'
  BY <1>2, <1>5, EndOther, Typed, Places
<1>12. TableSound'
  BY <1>2, <1>5, <1>6, IdleCall, Typed DEF TableSound
<1> QED BY <1>7, <1>8, <1>9, <1>10, <1>11, <1>12

LEMMA StepEnqMove ==
  ASSUME RingInv, NEW p \in Producers, EnqMove(p)
  PROVE  /\ RingInv'
         /\ op'[p].at = "copy" => /\ Pos(op[p].head) = Pos(prodHead)
                                  /\ Pos(prodHead)' = Pos(prodHead) + op[p].n
<1> USE DEF RingInv
<1> DEFINE n == op[p].n
           h == Pos(prodHead)
<1>1. /\ op[p].at = "move" /\ p \in Processes /\ op[p] \in Calls /\ op[p].head \in Index
      /\ n \in 1 .. op[p].max /\ n \in Nat /\ count[p] \in Nat /\ count[p] + n <= MaxObjs
  <2>1. op[p].at = "move" /\ p \in Processes
    BY Typed DEF EnqMove
  <2>2. /\ op[p] \in Calls /\ op[p].head \in Index /\ n \in Nat /\ op[p].max \in Nat
        /\ count[p] \in Nat
    BY <2>1, Typed, CallTypes, Sizes
  <2>3. n \in 1 .. op[p].max /\ count[p] + op[p].max <= MaxObjs
    BY <2>1 DEF CallsSound
  <2> QED BY <2>1, <2>2, <2>3, Sizes
<1>2. UNCHANGED <<flags, prodTail, consHead, consTail, ring, count, dead>>
  BY DEF EnqMove
<1>3. CASE /\ ~flags.sp
           /\ op' = [op EXCEPT ![p].at = "load"]
           /\ UNCHANGED prodHead
  <2>1. op' \in [Processes -> Calls] /\ \A y \in Processes \ {p} : op'[y] = op[y]
    BY <1>1, <1>3, Typed DEF Calls
  <2>2. op'[p].at = "load" /\ op'[p].head = op[p].head /\ op'[p].max = op[p].max
    BY <1>1, <1>3, Typed DEF Calls
  <2>3. TypeOK'
    BY <1>2, <1>3, <2>1 DEF TypeOK, Calls, Index
  <2>4. CallsSound'
    BY <1>1, <1>2, <2>1, <2>2, Typed DEF CallsSound, Holds
  <2>5. Given' = Given
    BY <1>1, <1>2, <2>1, <2>2, GivenSame, Typed DEF Claimed, Holds
  <2>6. PlacesInOrder'
    BY <1>2, <1>3, <2>5 DEF PlacesInOrder
  <2>7. EndSound(op, Producers, flags.sp, h, Pos(prodTail), Pos(consTail) + Mask)'
    <3>1. \A y \in Producers \ {p} : op'[y] = op[y]
      BY <2>1, Typed
    <3>2. EndSound(op', Producers, flags.sp, h, Pos(prodTail), Pos(consTail) + Mask)
      <4>1. op[p].at \in {"check", "move"}
        BY <1>1
      <4>2. ~flags.sp /\ op'[p].at = "load" /\ op'[p].head = op[p].head
        BY <1>3, <2>2
      <4> QED BY <3>1, <4>1, <4>2, EndFails, Typed, Places
    <3> QED BY <1>2, <1>3, <3>2
  <2>8. EndSound(op, Consumers, flags.sc, Pos(consHead), Pos(consTail), Pos(prodTail))'
    BY <1>2, <2>1, EndOther, Typed, Places
  <2>9. TableSound'
    BY <1>2, <2>1, <2>2, Typed DEF TableSound
  <2> QED BY <2>2, <2>3, <2>4, <2>6, <2>7, <2>8, <2>9
<1>4. CASE /\ flags.sp \/ prodHead = op[p].head
           /\ prodHead' = Plus(op[p].head, n)
           /\ op' = [op EXCEPT ![p].at = "copy",
                               ![p].objs = [i \in 1 .. n |-> <<p, count[p] + i>>]]
  <2> DEFINE objs == [i \in 1 .. n |-> <<p, count[p] + i>>]
             r == [op[p] EXCEPT !.at = "copy", !.objs = objs]
  <2>1. objs \in Seq(Objects)
    <3>1. \A i \in 1 .. n : <<p, count[p] + i>> \in Objects
      BY <1>1, Sizes DEF Objects
    <3>2. objs \in [1 .. n -> Objects]
      BY <3>1
    <3> QED BY <1>1, <3>2, SeqOf
  <2>2. op' = [op EXCEPT ![p] = r]
    BY <1>1, <1>4, Typed
  <2> HIDE DEF objs
  <2>3. /\ r \in Calls /\ r.at = "copy" /\ r.objs = objs /\ r.head = op[p].head
        /\ r.n = n /\ r.max = op[p].max
    BY <1>1, <2>1 DEF Calls
  <2> HIDE DEF r
  <2>4. op' \in [Processes -> Calls] /\ op'[p] = r
    BY <1>1, <2>2, <2>3, Typed
  <2>5. \A y \in Processes \ {p} : op'[y] = op[y]
    BY <2>2, Typed
  <2>6. \A y \in Producers \ {p} : op'[y] = op[y]
    BY <2>5, Typed
  <2>7. Pos(op[p].head) = h
    BY <1>1, <1>4, Typed DEF EndSound
  <2>8. /\ h + n <= Pos(consTail) + Mask
        /\ EndSound(op', Producers, flags.sp, h + n, Pos(prodTail), Pos(consTail) + Mask)
    <3>1. Pos(prodTail) <= h /\ n >= 1
      BY <1>1 DEF PlacesInOrder
    <3>2. op'[p].at = "copy" /\ op'[p].head = op[p].head /\ op'[p].n = n
      BY <2>3, <2>4
    <3>3. op[p].at = "move" /\ n \in Nat
      BY <1>1
    <3> QED BY <2>6, <2>7, <3>1, <3>2, <3>3, EndMove, Typed, Places
  <2>9. Cardinality(Given') = h + n
    <3> DEFINE N == {p} \X (count[p] + 1 .. count[p] + n)
    <3>1. Claimed(p) = count[p] /\ Claimed(p)' = count[p] + n
      BY <1>1, <1>2, <2>3, <2>4 DEF Claimed, Holds
    <3>2. \A y \in Producers \ {p} : Claimed(y)' = Claimed(y)
      BY <1>2, <2>6 DEF Claimed, Holds
    <3>3. Given' = Given \cup N
      <4>1. ASSUME NEW o \in Objects PROVE o \in Given' <=> o \in Given \cup N
        <5>1. PICK y \in Producers, j \in 1 .. MaxObjs : o = <<y, j>>
          BY DEF Objects
        <5>2. CASE y = p
          BY <1>1, <3>1, <5>1, <5>2, Sizes DEF Given
        <5>3. CASE y # p
          BY <3>2, <5>1, <5>3 DEF Given
        <5> QED BY <5>2, <5>3
      <4>2. N \subseteq Objects
        BY <1>1, Sizes DEF Objects
      <4>3. Given \subseteq Objects /\ Given' \subseteq Objects
        BY DEF Given
      <4> HIDE DEF N
      <4> QED BY <4>1, <4>2, <4>3
    <3>4. Given \cap N = {}
      BY <1>1, <3>1 DEF Given
    <3>5. IsFiniteSet(Given)
      BY GivenFinite DEF Given
    <3> QED BY <1>1, <3>3, <3>4, <3>5, GivenGrows DEF PlacesInOrder
  <2>10. h + n < Modulus
    BY <2>9, GivenFinite DEF Given
  <2>11. prodHead' \in Index /\ Pos(prodHead)' = h + n
    BY <1>1, <1>4, <2>7, <2>10, PosPlus
  <2>12. TypeOK'
    BY <1>2, <2>4, <2>11 DEF TypeOK, Calls, Index
  <2>13. CallsSound'
    <3>1. \A y \in Processes :
            /\ op'[y].at # "idle" => op'[y].max >= 1
            /\ op'[y].at = "check" => op'[y].n = op'[y].max
            /\ op'[y].at \in {"move", "copy", "publish"} => op'[y].n \in 1 .. op'[y].max
      BY <1>1, <2>3, <2>4, <2>5 DEF CallsSound
    <3>2. \A y \in Producers \ {p} :
            /\ op'[y].at # "idle" => count'[y] + op'[y].max <= MaxObjs
            /\ Holds(y)' => op'[y].objs = [i \in 1 .. op'[y].n |-> <<y, count'[y] + i>>]
      BY <1>2, <2>6 DEF CallsSound, Holds
    <3>3. count'[p] + op'[p].max <= MaxObjs
      BY <1>1, <1>2, <2>3, <2>4 DEF CallsSound
    <3>4. op'[p].objs = [i \in 1 .. op'[p].n |-> <<p, count'[p] + i>>]
      BY <1>2, <2>3, <2>4 DEF objs
    <3> QED BY <3>1, <3>2, <3>3, <3>4 DEF CallsSound
  <2>14. PlacesInOrder'
    BY <1>1, <1>2, <2>8, <2>9, <2>11, Typed, Places DEF PlacesInOrder
  <2>15. EndSound(op, Producers, flags.sp, h, Pos(prodTail), Pos(consTail) + Mask)'
    BY <1>2, <2>8, <2>11
  <2>16. EndSound(op, Consumers, flags.sc, Pos(consHead), Pos(consTail), Pos(prodTail))'
    BY <1>2, <2>5, EndOther, Typed, Places
  <2>17. TableSound'
    BY <1>2, <2>3, <2>4, <2>5, Typed DEF TableSound
  <2> QED BY <2>7, <2>11, <2>12, <2>13, <2>14, <2>15, <2>16, <2>17
<1> QED BY <1>3, <1>4 DEF EnqMove

\* What ENQUEUE_PTRS leaves in the table: the objects at the places of the call,
\* and what was there at the other places in use.
LEMMA Copied ==
  ASSUME NEW p \in Processes, op[p].head \in Index, op[p].n \in Nat, EnqCopy(p),
         NEW low \in Nat, NEW high \in Nat, high <= low + Mask,
         low <= Pos(op[p].head), Pos(op[p].head) + op[p].n <= high
  PROVE  /\ \A j \in 1 .. op[p].n : ring'[Slot(Pos(op[p].head) + j - 1)] = op[p].objs[j]
         /\ \A k \in low .. high - 1 :
              k \notin Pos(op[p].head) .. Pos(op[p].head) + op[p].n - 1 =>
                ring'[Slot(k)] = ring[Slot(k)]
<1> DEFINE i == op[p].head
           n == op[p].n
           objs == op[p].objs
<1>0. Pos(i) \in Nat
  BY PosFacts DEF Index
<1>1. \A j \in 1 .. n : Cell(i + j - 1) = Slot(Pos(i) + j - 1)
  <2>1. ASSUME NEW j \in 1 .. n PROVE Cell(i + j - 1) = Slot(Pos(i) + j - 1)
    <3>1. j - 1 \in Nat /\ i + (j - 1) = i + j - 1 /\ Pos(i) + (j - 1) = Pos(i) + j - 1
      BY <1>0 DEF Index
    <3> QED BY <3>1, CellIsSlot
  <2> QED BY <2>1
<1>2. \A k, m \in low .. high - 1 : Slot(k) = Slot(m) => k = m
  <2> SUFFICES ASSUME NEW k \in low .. high - 1, NEW m \in low .. high - 1, k < m
               PROVE  Slot(k) # Slot(m)
    OBVIOUS
  <2> QED BY SlotsDiffer, Sizes
<1>3. ASSUME NEW j \in 1 .. n
      PROVE  ring'[Slot(Pos(i) + j - 1)] = objs[j]
  <2> DEFINE s == Slot(Pos(i) + j - 1)
             k == {m \in 1 .. n : Cell(i + m - 1) = s}
  <2>1. s \in 0 .. Mask
    <3>1. Pos(i) + j - 1 \in Nat
      BY <1>0
    <3> QED BY <3>1, SlotType
  <2>2. k = {j}
    <3>1. ASSUME NEW m \in 1 .. n, Cell(i + m - 1) = s PROVE m = j
      <4>1. Pos(i) + m - 1 \in low .. high - 1 /\ Pos(i) + j - 1 \in low .. high - 1
        BY <1>0
      <4>2. Slot(Pos(i) + m - 1) = Slot(Pos(i) + j - 1)
        BY <1>1, <3>1
      <4>3. Pos(i) + m - 1 = Pos(i) + j - 1
        BY <1>2, <4>1, <4>2
      <4> QED BY <1>0, <4>3
    <3>2. Cell(i + j - 1) = s
      BY <1>1
    <3> QED BY <3>1, <3>2
  <2>3. ring'[s] = IF k = {} THEN ring[s] ELSE objs[CHOOSE m \in k : TRUE]
    BY <2>1 DEF EnqCopy
  <2> HIDE DEF s, k
  <2> QED BY <2>2, <2>3 DEF s
<1>4. ASSUME NEW k \in low .. high - 1, k \notin Pos(i) .. Pos(i) + n - 1
      PROVE  ring'[Slot(k)] = ring[Slot(k)]
  <2>1. ASSUME NEW j \in 1 .. n PROVE Cell(i + j - 1) # Slot(k)
    <3>1. Pos(i) + j - 1 \in low .. high - 1 /\ Pos(i) + j - 1 # k
      BY <1>0, <1>4
    <3> QED BY <1>1, <1>2, <3>1
  <2>2. {j \in 1 .. n : Cell(i + j - 1) = Slot(k)} = {}
    BY <2>1
  <2>3. Slot(k) \in 0 .. Mask
    BY SlotType
  <2> QED BY <2>2, <2>3 DEF EnqCopy
<1> QED BY <1>3, <1>4

LEMMA StepEnqCopy ==
  ASSUME RingInv, NEW p \in Producers, EnqCopy(p)
  PROVE  RingInv'
<1> USE DEF RingInv
<1> DEFINE n == op[p].n
           low == Pos(consTail)
           high == Pos(prodHead)
<1>1. /\ op[p].at = "copy" /\ p \in Processes /\ op[p] \in Calls /\ op[p].head \in Index
      /\ n \in Nat /\ op[p].objs \in Seq(Objects)
  BY Typed, CallTypes DEF EnqCopy, Calls
<1>2. UNCHANGED <<flags, prodHead, prodTail, consHead, consTail, count, dead>>
  BY DEF EnqCopy, indices
<1>3. op' \in [Processes -> Calls] /\ \A y \in Processes \ {p} : op'[y] = op[y]
  BY <1>1, Typed DEF EnqCopy, Calls
<1>4. /\ op'[p].at = "publish" /\ op'[p].head = op[p].head /\ op'[p].n = op[p].n
      /\ op'[p].max = op[p].max /\ op'[p].objs = op[p].objs
  BY <1>1, Typed DEF EnqCopy, Calls
<1>5. /\ low \in Nat /\ high \in Nat /\ high <= low + Mask /\ Pos(op[p].head) \in Nat
      /\ Pos(prodTail) <= Pos(op[p].head) /\ low <= Pos(op[p].head)
      /\ Pos(op[p].head) + n <= high
  <2>1. Holding(op, p)
    BY <1>1 DEF Holding
  <2>2. Pos(prodTail) <= Pos(op[p].head) /\ Pos(op[p].head) + n <= high
    BY <2>1 DEF EndSound
  <2>3. Pos(op[p].head) \in Nat
    BY <1>1, Typed, CallTypes
  <2> QED BY <2>2, <2>3, Places DEF PlacesInOrder
<1>6. /\ \A j \in 1 .. n : ring'[Slot(Pos(op[p].head) + j - 1)] = op[p].objs[j]
      /\ \A k \in low .. high - 1 :
           k \notin Pos(op[p].head) .. Pos(op[p].head) + n - 1 => ring'[Slot(k)] = ring[Slot(k)]
  BY <1>1, <1>5, Copied
<1>7. TypeOK'
  <2>1. \A j \in 1 .. n : op[p].objs[j] \in Objects
    <3>1. op[p].objs = [i \in 1 .. n |-> <<p, count[p] + i>>]
      BY <1>1 DEF CallsSound, Holds
    <3>2. Len(op[p].objs) = n
      BY <1>1, <3>1
    <3> QED BY <1>1, <3>2, ElementOfSeq
  <2>2. ring' \in [0 .. Mask -> Objects \cup {NONE}]
    <3>1. ASSUME NEW s \in 0 .. Mask,
                 NEW k, k = {j \in 1 .. n : Cell(op[p].head + j - 1) = s}, k # {}
          PROVE  op[p].objs[CHOOSE j \in k : TRUE] \in Objects
      BY <2>1, <3>1
    <3>2. \A s \in 0 .. Mask : ring[s] \in Objects \cup {NONE}
      BY DEF TypeOK
    <3> QED BY <3>1, <3>2 DEF EnqCopy
  <2> QED BY <1>2, <1>3, <2>2 DEF TypeOK, Calls, Index
<1>8. CallsSound'
  <2>1. \A y \in Processes :
          /\ op'[y].at # "idle" => op[y].at # "idle"
          /\ op'[y].at = "check" => op[y].at = "check"
          /\ op'[y].at \in {"move", "copy", "publish"} =>
               op[y].at \in {"move", "copy", "publish"}
          /\ op'[y].n = op[y].n /\ op'[y].max = op[y].max /\ op'[y].objs = op[y].objs
          /\ Holds(y)' <=> Holds(y)
    BY <1>1, <1>3, <1>4 DEF Holds
  <2> QED BY <1>2, <2>1, Typed DEF CallsSound
<1>9. PlacesInOrder'
  <2>1. Given' = Given
    BY <1>1, <1>2, <1>3, <1>4, GivenSame, Typed DEF Claimed, Holds
  <2> QED BY <1>2, <2>1 DEF PlacesInOrder
<1>10. EndSound(op, Producers, flags.sp, Pos(prodHead), Pos(prodTail), Pos(consTail) + Mask)'
  <2>1. \A y \in Producers \ {p} : op'[y] = op[y]
    BY <1>3, Typed
  <2>2. EndSound(op', Producers, flags.sp, Pos(prodHead), Pos(prodTail), Pos(consTail) + Mask)
    BY <1>1, <1>4, <2>1, EndCopy, Typed, Places
  <2> QED BY <1>2, <2>2
<1>11. EndSound(op, Consumers, flags.sc, Pos(consHead), Pos(consTail), Pos(prodTail))'
  BY <1>2, <1>3, EndOther, Typed, Places
<1>12. TableSound'
  <2>1. ASSUME NEW k \in low .. Pos(prodTail) - 1
        PROVE  ring'[Slot(k)] = ring[Slot(k)]
    <3>1. k \in low .. high - 1 /\ k \notin Pos(op[p].head) .. Pos(op[p].head) + n - 1
      BY <1>1, <1>5, Places DEF PlacesInOrder
    <3> QED BY <1>6, <3>1
  <2>2. ASSUME NEW q \in Producers, op'[q].at = "publish"
        PROVE  \A j \in 1 .. op'[q].n : ring'[Slot(Pos(op'[q].head) + j - 1)] = op'[q].objs[j]
    <3>1. CASE q = p
      BY <1>4, <1>6, <2>2, <3>1
    <3>2. CASE q # p
      <4>1. op'[q] = op[q] /\ q \in Processes
        BY <1>3, <3>2, Typed
      <4>2. /\ Pos(op[q].head) \in Nat /\ op[q].n \in Nat
            /\ Pos(prodTail) <= Pos(op[q].head) /\ Pos(op[q].head) + op[q].n <= high
            /\ \/ Pos(op[q].head) + op[q].n <= Pos(op[p].head)
               \/ Pos(op[p].head) + n <= Pos(op[q].head)
        BY <1>1, <2>2, <3>2, <4>1, Typed, CallTypes DEF EndSound, Holding
      <4> SUFFICES ASSUME NEW j \in 1 .. op[q].n
                   PROVE  ring'[Slot(Pos(op[q].head) + j - 1)] = op[q].objs[j]
        BY <4>1
      <4> DEFINE k == Pos(op[q].head) + j - 1
      <4>3. k \in low .. high - 1 /\ k \notin Pos(op[p].head) .. Pos(op[p].head) + n - 1
        <5>1. low <= Pos(prodTail) /\ Pos(prodTail) \in Nat
          BY Places DEF PlacesInOrder
        <5>2. n \in Nat
          BY <1>1
        <5>3. k \in Nat /\ Pos(op[q].head) <= k /\ k < Pos(op[q].head) + op[q].n
          BY <4>2
        <5>4. low <= k /\ k < high
          BY <1>5, <4>2, <5>1, <5>3
        <5>5. k < Pos(op[p].head) \/ Pos(op[p].head) + n <= k
          BY <1>5, <4>2, <5>2, <5>3
        <5> HIDE DEF k
        <5> QED BY <1>5, <5>2, <5>3, <5>4, <5>5
      <4>4. ring'[Slot(k)] = ring[Slot(k)]
        BY <1>6, <4>3
      <4>5. ring[Slot(k)] = op[q].objs[j]
        BY <2>2, <4>1 DEF TableSound
      <4> QED BY <4>4, <4>5
    <3> QED BY <3>1, <3>2
  <2>3. ASSUME NEW c \in Consumers, op'[c].at = "publish"
        PROVE  op'[c].objs = [j \in 1 .. op'[c].n |-> ring'[Slot(Pos(op'[c].head) + j - 1)]]
    <3>1. op'[c] = op[c] /\ c \in Processes
      BY <1>3, Typed
    <3>2. /\ Pos(op[c].head) \in Nat /\ op[c].n \in Nat
          /\ low <= Pos(op[c].head) /\ Pos(op[c].head) + op[c].n <= Pos(consHead)
      BY <2>3, <3>1, Typed, CallTypes DEF EndSound, Holding
    <3>3. ASSUME NEW j \in 1 .. op[c].n
          PROVE  ring'[Slot(Pos(op[c].head) + j - 1)] = ring[Slot(Pos(op[c].head) + j - 1)]
      <4>1. Pos(op[c].head) + j - 1 \in low .. Pos(prodTail) - 1
        BY <1>5, <3>2, Places DEF PlacesInOrder
      <4> QED BY <2>1, <4>1
    <3>4. op[c].objs = [j \in 1 .. op[c].n |-> ring[Slot(Pos(op[c].head) + j - 1)]]
      BY <2>3, <3>1 DEF TableSound
    <3> QED BY <3>1, <3>3, <3>4
  <2>4. \A k \in low .. Pos(prodTail) - 1 : ring[Slot(k)] \in Objects
    BY DEF TableSound
  <2> QED BY <1>2, <2>1, <2>2, <2>3, <2>4 DEF TableSound
<1> QED BY <1>7, <1>8, <1>9, <1>10, <1>11, <1>12

LEMMA StepEnqPublish ==
  ASSUME RingInv, NEW p \in Producers, EnqPublish(p)
  PROVE  /\ RingInv'
         /\ Pos(op[p].head) = Pos(prodTail) /\ Pos(prodTail)' = Pos(prodTail) + op[p].n
<1> USE DEF RingInv
<1> DEFINE n == op[p].n
           t == Pos(prodTail)
<1>1. /\ op[p].at = "publish" /\ p \in Processes /\ op[p].head \in Index
      /\ n \in Nat /\ n >= 1 /\ count[p] \in Nat /\ count[p] + n <= MaxObjs
  <2>1. op[p].at = "publish" /\ p \in Processes
    BY Typed DEF EnqPublish
  <2>2. op[p].head \in Index /\ n \in Nat /\ op[p].max \in Nat /\ count[p] \in Nat
    BY <2>1, Typed, CallTypes, Sizes
  <2>3. n \in 1 .. op[p].max /\ count[p] + op[p].max <= MaxObjs
    BY <2>1 DEF CallsSound
  <2> QED BY <2>1, <2>2, <2>3, Sizes
<1>2. /\ UNCHANGED <<flags, prodHead, consHead, consTail, ring, dead>>
      /\ count' = [count EXCEPT ![p] = @ + n]
      /\ op' = [op EXCEPT ![p] = Idle]
      /\ prodTail' = Plus(op[p].head, n)
  BY DEF EnqPublish
<1>3. op' \in [Processes -> Calls] /\ \A y \in Processes \ {p} : op'[y] = op[y]
  BY <1>1, <1>2, IdleCall, Typed
<1>4. op'[p].at = "idle"
  BY <1>1, <1>2, IdleCall, Typed
<1>5. \A y \in Producers \ {p} : op'[y] = op[y] /\ count'[y] = count[y]
  BY <1>2, <1>3, Typed DEF TypeOK
<1>6. count'[p] = count[p] + n /\ count' \in [Producers -> 0 .. MaxObjs]
  BY <1>1, <1>2, Sizes DEF TypeOK
<1>7. Pos(op[p].head) = t
  <2>1. CASE flags.sp
    <3>1. Holding(op, p) /\ flags.sp = TRUE
      BY <1>1, <2>1, Typed DEF Holding
    <3>2. EndSound(op, Producers, TRUE, Pos(prodHead), t, Pos(consTail) + Mask)
      BY <3>1
    <3> QED BY <1>1, <3>1, <3>2, EndAlone, Typed, Places
  <2>2. CASE prodTail = op[p].head
    BY <2>2
  <2> QED BY <2>1, <2>2 DEF EnqPublish
<1>8. /\ t + n <= Pos(prodHead)
      /\ EndSound(op', Producers, flags.sp, Pos(prodHead), t + n, Pos(consTail) + Mask)
  <2>1. \A y \in Producers : Holding(op, y) => op[y].n >= 1
    BY Typed, CallTypes DEF CallsSound, Holding
  <2>2. \A y \in Producers \ {p} : op'[y] = op[y]
    BY <1>5
  <2> QED BY <1>1, <1>4, <1>7, <2>1, <2>2, EndPublish, Typed, Places
<1>9. prodTail' \in Index /\ Pos(prodTail)' = t + n
  <2>1. t + n < Modulus
    BY <1>1, <1>8, Typed, PosFacts, Sizes DEF Index
  <2> QED BY <1>1, <1>2, <1>7, <2>1, PosPlus
<1>10. TypeOK'
  BY <1>2, <1>3, <1>6, <1>9 DEF TypeOK, Calls, Index
<1>11. CallsSound'
  BY <1>3, <1>4, <1>5, Typed DEF CallsSound, Holds
<1>12. PlacesInOrder'
  <2>1. Claimed(p)' = Claimed(p)
    BY <1>1, <1>4, <1>6 DEF Claimed, Holds
  <2>2. \A y \in Producers \ {p} : Claimed(y)' = Claimed(y)
    BY <1>5 DEF Claimed, Holds
  <2>3. Given' = Given
    BY <2>1, <2>2, GivenSame
  <2> QED BY <1>1, <1>2, <1>8, <1>9, <2>3, Places DEF PlacesInOrder
<1>13. EndSound(op, Producers, flags.sp, Pos(prodHead), Pos(prodTail), Pos(consTail) + Mask)'
  BY <1>2, <1>8, <1>9
<1>14. EndSound(op, Consumers, flags.sc, Pos(consHead), Pos(consTail), Pos(prodTail))'
  <2>1. \A y \in Consumers : op'[y] = op[y]
    BY <1>3, Typed
  <2>2. t + n \in Nat /\ t <= t + n
    BY <1>1, Places
  <2>3. EndSound(op', Consumers, flags.sc, Pos(consHead), Pos(consTail), t + n)
    BY <2>1, <2>2, EndOther, Typed, Places
  <2> QED BY <1>2, <1>9, <2>3
<1>15. TableSound'
  <2>1. ASSUME NEW k \in Pos(consTail) .. t + n - 1
        PROVE  ring[Slot(k)] \in Objects
    <3>1. CASE k < t
      BY <3>1, Places DEF TableSound
    <3>2. CASE k >= t
      <4> DEFINE j == k - t + 1
      <4>1. j \in 1 .. n /\ Pos(op[p].head) + j - 1 = k
        BY <1>1, <1>7, <3>2, Places
      <4>2. ring[Slot(k)] = op[p].objs[j]
        BY <1>1, <4>1 DEF TableSound
      <4>3. op[p].objs = [i \in 1 .. n |-> <<p, count[p] + i>>]
        BY <1>1 DEF CallsSound, Holds
      <4>4. count[p] + j \in 1 .. MaxObjs
        BY <1>1, <4>1, Sizes
      <4> HIDE DEF j
      <4> QED BY <4>1, <4>2, <4>3, <4>4 DEF Objects
    <3> QED BY <3>1, <3>2, Places
  <2>2. \A q \in Producers : op'[q].at = "publish" => op'[q] = op[q]
    BY <1>4, <1>5
  <2>3. \A c \in Consumers : op'[c] = op[c]
    BY <1>3, Typed
  <2>4. \A q \in Producers : op'[q].at = "publish" =>
          \A j \in 1 .. op'[q].n : ring'[Slot(Pos(op'[q].head) + j - 1)] = op'[q].objs[j]
    BY <1>2, <2>2 DEF TableSound
  <2>5. \A c \in Consumers : op'[c].at = "publish" =>
          op'[c].objs = [j \in 1 .. op'[c].n |-> ring'[Slot(Pos(op'[c].head) + j - 1)]]
    BY <1>2, <2>3 DEF TableSound
  <2>6. \A k \in Pos(consTail)' .. Pos(prodTail)' - 1 : ring'[Slot(k)] \in Objects
    <3>1. Pos(consTail)' = Pos(consTail) /\ ring' = ring /\ Pos(prodTail)' = t + n
      BY <1>2, <1>9
    <3>2. \A k \in Pos(consTail) .. t + n - 1 : ring[Slot(k)] \in Objects
      BY <2>1
    <3>3. Pos(consTail)' .. Pos(prodTail)' - 1 = Pos(consTail) .. t + n - 1
      BY <1>1, <3>1, Places
    <3> QED BY <3>1, <3>2, <3>3
  <2> QED BY <2>4, <2>5, <2>6 DEF TableSound
<1> QED BY <1>7, <1>9, <1>10, <1>11, <1>12, <1>13, <1>14, <1>15

\* What a step of a consumer leaves alone.
LEMMA ConsumerFrame ==
  ASSUME RingInv, NEW c \in Consumers, \A y \in Processes \ {c} : op'[y] = op[y],
         UNCHANGED count
  PROVE  /\ Given' = Given
         /\ \A p \in Producers : op'[p] = op[p]
         /\ \A p \in Producers :
              /\ op'[p].at # "idle" => count'[p] + op'[p].max <= MaxObjs
              /\ Holds(p)' => op'[p].objs = [i \in 1 .. op'[p].n |-> <<p, count'[p] + i>>]
<1>1. \A p \in Producers : op'[p] = op[p]
  BY Typed DEF RingInv
<1>2. \A p \in Producers : Claimed(p)' = Claimed(p)
  BY <1>1 DEF Claimed, Holds
<1>3. Given' = Given
  BY <1>2, GivenSame
<1> QED BY <1>1, <1>3 DEF RingInv, CallsSound, Holds

LEMMA StepDeqLoad ==
  ASSUME RingInv, TakeTurns, NEW c \in Consumers, DeqLoad(c)
  PROVE  RingInv'
<1> USE DEF RingInv
<1>1. PICK r \in Calls : /\ op' = [op EXCEPT ![c] = r]
                         /\ r.at = "check" /\ r.n = r.max /\ r.head = consHead /\ r.max >= 1
  <2>1. \/ op[c].at = "idle" /\ Call(c, consHead, MaxBurst)
        \/ op[c].at = "load" /\ Load(c, consHead)
    BY DEF DeqLoad
  <2>2. MaxBurst \in Int /\ MaxBurst <= MaxBurst /\ c \in Processes /\ consHead \in Index
    BY Sizes, Typed
  <2> QED BY <2>1, <2>2, Loaded
<1>2. UNCHANGED <<flags, prodHead, prodTail, consHead, consTail, ring, count, dead>>
  BY DEF DeqLoad, indices
<1>3. op[c].at \in {"idle", "load"}
  BY DEF DeqLoad
<1>4. op' \in [Processes -> Calls] /\ op'[c] = r
  BY <1>1, Typed
<1>5. \A y \in Processes \ {c} : op'[y] = op[y]
  BY <1>1, Typed
<1>6. TypeOK'
  BY <1>2, <1>4 DEF TypeOK, Calls, Index
<1>7. CallsSound'
  BY <1>1, <1>2, <1>4, <1>5, ConsumerFrame DEF CallsSound
<1>8. PlacesInOrder'
  BY <1>2, <1>5, ConsumerFrame DEF PlacesInOrder
<1>9. EndSound(op, Producers, flags.sp, Pos(prodHead), Pos(prodTail), Pos(consTail) + Mask)'
  BY <1>2, <1>5, EndOther, Typed, Places
<1>10. EndSound(op, Consumers, flags.sc, Pos(consHead), Pos(consTail), Pos(prodTail))'
  <2>1. op[c].at = "idle" => (flags.sc => \A y \in Consumers \ {c} : op[y].at = "idle")
    BY DEF DeqLoad, MayCall, Idle
  <2>2. op'[c].at = "check" /\ Pos(op'[c].head) = Pos(consHead)
    BY <1>1, <1>4
  <2>3. \A y \in Consumers \ {c} : op'[y] = op[y]
    BY <1>5, Typed
  <2>4. EndSound(op', Consumers, flags.sc, Pos(consHead), Pos(consTail), Pos(prodTail))
    BY <1>3, <2>1, <2>2, <2>3, EndLoad, Typed, Places
  <2> QED BY <1>2, <2>4
<1>11. TableSound'
  BY <1>1, <1>2, <1>4, <1>5, Typed DEF TableSound
<1> QED BY <1>6, <1>7, <1>8, <1>9, <1>10, <1>11

LEMMA StepDeqCheck ==
  ASSUME RingInv, NEW c \in Consumers, DeqCheck(c)
  PROVE  RingInv'
<1> USE DEF RingInv
<1> DEFINE available == Minus(prodTail, op[c].head)
<1>1. available \in Nat /\ op[c].at = "check" /\ Check(c, available) /\ c \in Processes
  BY Typed, CallTypes, Sizes DEF DeqCheck, Minus, Index
<1>2. UNCHANGED <<flags, prodHead, prodTail, consHead, consTail, ring, count, dead>>
  BY DEF DeqCheck, indices
<1>3. Pos(op[c].head) = Pos(consHead) => available = Pos(prodTail) - Pos(consHead)
  BY <1>1, Typed, CallTypes, PosMinus DEF PlacesInOrder
<1> HIDE DEF available
<1>4. op' \in [Processes -> Calls]
  BY <1>1, Checked
<1>5. \A y \in Processes \ {c} : op'[y] = op[y]
  BY <1>1, Checked
<1>6. \/ op'[c] = Idle
      \/ /\ op'[c].at = "move" /\ op'[c].head = op[c].head /\ op'[c].max = op[c].max
         /\ op'[c].n \in 1 .. op[c].max /\ op'[c].n <= available
  BY <1>1, Checked
<1>7. TypeOK'
  BY <1>2, <1>4 DEF TypeOK, Calls, Index
<1>8. CallsSound'
  BY <1>1, <1>2, <1>5, <1>6, IdleCall, ConsumerFrame DEF CallsSound
<1>9. PlacesInOrder'
  BY <1>2, <1>5, ConsumerFrame DEF PlacesInOrder
<1>10. EndSound(op, Producers, flags.sp, Pos(prodHead), Pos(prodTail), Pos(consTail) + Mask)'
  BY <1>2, <1>5, EndOther, Typed, Places
<1>11. EndSound(op, Consumers, flags.sc, Pos(consHead), Pos(consTail), Pos(prodTail))'
  <2>1. \A y \in Consumers \ {c} : op'[y] = op[y]
    BY <1>5, Typed
  <2>2. CASE op'[c] = Idle
    <3>1. EndSound(op', Consumers, flags.sc, Pos(consHead), Pos(consTail), Pos(prodTail))
      BY <1>1, <2>1, <2>2, IdleCall, EndFails, Typed, Places
    <3> QED BY <1>2, <3>1
  <2>3. CASE op'[c].at = "move" /\ op'[c].head = op[c].head /\ op'[c].n <= available
    <3>1. Pos(op[c].head) = Pos(consHead) => Pos(consHead) + op'[c].n <= Pos(prodTail)
      BY <1>1, <1>3, <1>4, <2>3, CallTypes, Places
    <3>2. EndSound(op', Consumers, flags.sc, Pos(consHead), Pos(consTail), Pos(prodTail))
      BY <1>1, <2>1, <2>3, <3>1, EndCheck, Typed, Places
    <3> QED BY <1>2, <3>2
  <2> QED BY <1>6, <2>2, <2>3
<1>12. TableSound'
  BY <1>2, <1>5, <1>6, IdleCall, Typed DEF TableSound
<1> QED BY <1>7, <1>8, <1>9, <1>10, <1>11, <1>12

LEMMA StepDeqMove ==
  ASSUME RingInv, NEW c \in Consumers, DeqMove(c)
  PROVE  /\ RingInv'
         /\ op'[c].at = "copy" => /\ Pos(op[c].head) = Pos(consHead)
                                  /\ Pos(consHead)' = Pos(consHead) + op[c].n
<1> USE DEF RingInv
<1> DEFINE n == op[c].n
           h == Pos(consHead)
<1>1. /\ op[c].at = "move" /\ c \in Processes /\ op[c] \in Calls /\ op[c].head \in Index
      /\ n \in Nat /\ n \in 1 .. op[c].max
  BY Typed, CallTypes DEF DeqMove, CallsSound
<1>2. UNCHANGED <<flags, prodHead, prodTail, consTail, ring, count, dead>>
  BY DEF DeqMove
<1>3. /\ op' \in [Processes -> Calls]
      /\ \A y \in Processes \ {c} : op'[y] = op[y]
      /\ op'[c].at \in {"copy", "load"} /\ op'[c].head = op[c].head /\ op'[c].n = n
      /\ op'[c].max = op[c].max
  <2>1. PICK at \in {"copy", "load"} : op' = [op EXCEPT ![c].at = at]
    BY DEF DeqMove
  <2> QED BY <1>1, <2>1, Typed DEF Calls
<1>4. \A y \in Consumers \ {c} : op'[y] = op[y]
  BY <1>3, Typed
<1>5. CallsSound'
  BY <1>1, <1>2, <1>3, ConsumerFrame DEF CallsSound
<1>6. EndSound(op, Producers, flags.sp, Pos(prodHead), Pos(prodTail), Pos(consTail) + Mask)'
  BY <1>2, <1>3, EndOther, Typed, Places
<1>7. TableSound'
  BY <1>1, <1>2, <1>3, Typed DEF TableSound
<1>8. CASE ~flags.sc /\ op'[c].at = "load" /\ UNCHANGED consHead
  <2>1. TypeOK'
    BY <1>2, <1>3, <1>8 DEF TypeOK, Calls, Index
  <2>2. PlacesInOrder'
    BY <1>2, <1>3, <1>8, ConsumerFrame DEF PlacesInOrder
  <2>3. EndSound(op, Consumers, flags.sc, h, Pos(consTail), Pos(prodTail))'
    <3>1. op[c].at \in {"check", "move"}
      BY <1>1
    <3>2. ~flags.sc /\ op'[c].at = "load" /\ op'[c].head = op[c].head
      BY <1>3, <1>8
    <3>3. EndSound(op', Consumers, flags.sc, h, Pos(consTail), Pos(prodTail))
      BY <1>4, <3>1, <3>2, EndFails, Typed, Places
    <3> QED BY <1>2, <1>8, <3>3
  <2> QED BY <1>5, <1>6, <1>7, <1>8, <2>1, <2>2, <2>3
<1>9. CASE /\ flags.sc \/ consHead = op[c].head
           /\ consHead' = Plus(op[c].head, n) /\ op'[c].at = "copy"
  <2>1. Pos(op[c].head) = h
    BY <1>1, <1>9, Typed DEF EndSound
  <2>2. /\ h + n <= Pos(prodTail)
        /\ EndSound(op', Consumers, flags.sc, h + n, Pos(consTail), Pos(prodTail))
    <3>1. Pos(consTail) <= h /\ n >= 1 /\ op[c].at = "move" /\ n \in Nat
      BY <1>1 DEF PlacesInOrder
    <3>2. op'[c].at = "copy" /\ op'[c].head = op[c].head /\ op'[c].n = n
      BY <1>3, <1>9
    <3> QED BY <1>4, <2>1, <3>1, <3>2, EndMove, Typed, Places
  <2>3. consHead' \in Index /\ Pos(consHead)' = h + n
    <3>1. h + n < Modulus
      BY <1>1, <2>2, Typed, PosFacts, Sizes DEF Index
    <3> QED BY <1>1, <1>9, <2>1, <3>1, PosPlus
  <2>4. TypeOK'
    BY <1>2, <1>3, <2>3 DEF TypeOK, Calls, Index
  <2>5. PlacesInOrder'
    BY <1>1, <1>2, <1>3, <2>2, <2>3, Places, ConsumerFrame DEF PlacesInOrder
  <2>6. EndSound(op, Consumers, flags.sc, h, Pos(consTail), Pos(prodTail))'
    BY <1>2, <2>2, <2>3
  <2> QED BY <1>5, <1>6, <1>7, <2>1, <2>3, <2>4, <2>5, <2>6
<1> QED
  <2>1. \/ ~flags.sc /\ op'[c].at = "load" /\ UNCHANGED consHead
        \/ /\ flags.sc \/ consHead = op[c].head
           /\ consHead' = Plus(op[c].head, n) /\ op'[c].at = "copy"
    BY <1>1, Typed DEF DeqMove, Calls
  <2> QED BY <1>8, <1>9, <2>1

LEMMA StepDeqCopy ==
  ASSUME RingInv, NEW c \in Consumers, DeqCopy(c)
  PROVE  RingInv'
<1> USE DEF RingInv
<1> DEFINE n == op[c].n
           i == op[c].head
           objs == [j \in 1 .. n |-> ring[Cell(i + j - 1)]]
           r == [op[c] EXCEPT !.at = "publish", !.objs = objs]
<1>1. /\ op[c].at = "copy" /\ c \in Processes /\ op[c] \in Calls /\ i \in Index
      /\ n \in Nat /\ Pos(i) \in Nat
  BY Typed, CallTypes DEF DeqCopy
<1>2. UNCHANGED <<flags, prodHead, prodTail, consHead, consTail, ring, count, dead>>
  BY DEF DeqCopy, indices
<1>3. objs = [j \in 1 .. n |-> ring[Slot(Pos(i) + j - 1)]]
  <2>1. ASSUME NEW j \in 1 .. n PROVE Cell(i + j - 1) = Slot(Pos(i) + j - 1)
    <3>1. j - 1 \in Nat /\ i + (j - 1) = i + j - 1 /\ Pos(i) + (j - 1) = Pos(i) + j - 1
      BY <1>1 DEF Index
    <3> QED BY <1>1, <3>1, CellIsSlot
  <2> QED BY <2>1
<1>4. objs \in Seq(Objects)
  <2>1. Pos(consTail) <= Pos(i) /\ Pos(i) + n <= Pos(prodTail)
    <3>1. Pos(consTail) <= Pos(i) /\ Pos(i) + n <= Pos(consHead)
      BY <1>1 DEF EndSound, Holding
    <3> QED BY <1>1, <3>1, Places DEF PlacesInOrder
  <2>2. ASSUME NEW j \in 1 .. n PROVE ring[Slot(Pos(i) + j - 1)] \in Objects
    <3>1. Pos(i) + j - 1 \in Pos(consTail) .. Pos(prodTail) - 1
      BY <1>1, <2>1, Places
    <3> QED BY <3>1 DEF TableSound
  <2>3. objs \in [1 .. n -> Objects]
    BY <1>3, <2>2
  <2> HIDE DEF objs
  <2> QED BY <1>1, <2>3, SeqOf
<1>5. op' = [op EXCEPT ![c] = r]
  BY <1>1, Typed DEF DeqCopy
<1> HIDE DEF objs
<1>6. /\ r \in Calls /\ r.at = "publish" /\ r.objs = objs /\ r.head = i
      /\ r.n = n /\ r.max = op[c].max
  BY <1>1, <1>4 DEF Calls
<1> HIDE DEF r
<1>7. op' \in [Processes -> Calls] /\ op'[c] = r
  BY <1>1, <1>5, <1>6, Typed
<1>8. \A y \in Processes \ {c} : op'[y] = op[y]
  BY <1>5, Typed
<1>9. TypeOK'
  BY <1>2, <1>7 DEF TypeOK, Calls, Index
<1>10. CallsSound'
  BY <1>1, <1>2, <1>6, <1>7, <1>8, ConsumerFrame DEF CallsSound
<1>11. PlacesInOrder'
  BY <1>2, <1>8, ConsumerFrame DEF PlacesInOrder
<1>12. EndSound(op, Producers, flags.sp, Pos(prodHead), Pos(prodTail), Pos(consTail) + Mask)'
  BY <1>2, <1>8, EndOther, Typed, Places
<1>13. EndSound(op, Consumers, flags.sc, Pos(consHead), Pos(consTail), Pos(prodTail))'
  <2>1. \A y \in Consumers \ {c} : op'[y] = op[y]
    BY <1>8, Typed
  <2>2. op'[c].at = "publish" /\ op'[c].head = op[c].head /\ op'[c].n = op[c].n
    BY <1>6, <1>7
  <2>3. EndSound(op', Consumers, flags.sc, Pos(consHead), Pos(consTail), Pos(prodTail))
    BY <1>1, <2>1, <2>2, EndCopy, Typed, Places
  <2> QED BY <1>2, <2>3
<1>14. TableSound'
  <2>1. ASSUME NEW d \in Consumers, op'[d].at = "publish"
        PROVE  op'[d].objs = [j \in 1 .. op'[d].n |-> ring'[Slot(Pos(op'[d].head) + j - 1)]]
    <3>1. CASE d = c
      BY <1>2, <1>3, <1>6, <1>7, <3>1
    <3>2. CASE d # c
      BY <1>2, <1>8, <2>1, <3>2, Typed DEF TableSound
    <3> QED BY <3>1, <3>2
  <2>2. \A p \in Producers : op'[p].at = "publish" =>
          \A j \in 1 .. op'[p].n : ring'[Slot(Pos(op'[p].head) + j - 1)] = op'[p].objs[j]
    BY <1>2, <1>8, ConsumerFrame DEF TableSound
  <2>3. \A k \in Pos(consTail)' .. Pos(prodTail)' - 1 : ring'[Slot(k)] \in Objects
    BY <1>2 DEF TableSound
  <2> QED BY <2>1, <2>2, <2>3 DEF TableSound
<1> QED BY <1>9, <1>10, <1>11, <1>12, <1>13, <1>14

LEMMA StepDeqPublish ==
  ASSUME RingInv, NEW c \in Consumers, DeqPublish(c)
  PROVE  /\ RingInv'
         /\ Pos(op[c].head) = Pos(consTail) /\ Pos(consTail)' = Pos(consTail) + op[c].n
<1> USE DEF RingInv
<1> DEFINE n == op[c].n
           t == Pos(consTail)
<1>1. /\ op[c].at = "publish" /\ c \in Processes /\ op[c].head \in Index
      /\ n \in Nat /\ n >= 1
  <2>1. op[c].at = "publish" /\ c \in Processes
    BY Typed DEF DeqPublish
  <2>2. op[c].head \in Index /\ n \in Nat /\ op[c].max \in Nat
    BY <2>1, Typed, CallTypes
  <2>3. n \in 1 .. op[c].max
    BY <2>1 DEF CallsSound
  <2> QED BY <2>1, <2>2, <2>3
<1>2. /\ UNCHANGED <<flags, prodHead, prodTail, consHead, ring, count, dead>>
      /\ op' = [op EXCEPT ![c] = Idle]
      /\ consTail' = Plus(op[c].head, n)
  BY DEF DeqPublish
<1>3. op' \in [Processes -> Calls] /\ \A y \in Processes \ {c} : op'[y] = op[y]
  BY <1>1, <1>2, IdleCall, Typed
<1>4. op'[c].at = "idle"
  BY <1>1, <1>2, IdleCall, Typed
<1>5. \A y \in Consumers \ {c} : op'[y] = op[y]
  BY <1>3, Typed
<1>6. Pos(op[c].head) = t
  <2>1. CASE flags.sc
    <3>1. Holding(op, c) /\ flags.sc = TRUE
      BY <1>1, <2>1, Typed DEF Holding
    <3>2. EndSound(op, Consumers, TRUE, Pos(consHead), t, Pos(prodTail))
      BY <3>1
    <3> QED BY <1>1, <3>1, <3>2, EndAlone, Typed, Places
  <2>2. CASE consTail = op[c].head
    BY <2>2
  <2> QED BY <2>1, <2>2 DEF DeqPublish
<1>7. /\ t + n <= Pos(consHead)
      /\ EndSound(op', Consumers, flags.sc, Pos(consHead), t + n, Pos(prodTail))
  <2>1. \A y \in Consumers : Holding(op, y) => op[y].n >= 1
    BY Typed, CallTypes DEF CallsSound, Holding
  <2> QED BY <1>1, <1>4, <1>5, <1>6, <2>1, EndPublish, Typed, Places
<1>8. consTail' \in Index /\ Pos(consTail)' = t + n
  <2>1. t + n < Modulus
    BY <1>1, <1>7, Typed, PosFacts, Sizes DEF Index
  <2> QED BY <1>1, <1>2, <1>6, <2>1, PosPlus
<1>9. TypeOK'
  BY <1>2, <1>3, <1>8 DEF TypeOK, Calls, Index
<1>10. CallsSound'
  BY <1>2, <1>3, <1>4, ConsumerFrame DEF CallsSound
<1>11. PlacesInOrder'
  BY <1>1, <1>2, <1>3, <1>7, <1>8, Places, Sizes, ConsumerFrame DEF PlacesInOrder
<1>12. EndSound(op, Producers, flags.sp, Pos(prodHead), Pos(prodTail), Pos(consTail) + Mask)'
  <2>1. t + n + Mask \in Nat /\ t + Mask <= t + n + Mask
    BY <1>1, Places, Sizes
  <2>2. \A p \in Producers : op'[p] = op[p]
    BY <1>2, <1>3, ConsumerFrame
  <2>3. EndSound(op', Producers, flags.sp, Pos(prodHead), Pos(prodTail), t + n + Mask)
    BY <2>1, <2>2, EndOther, Typed, Places
  <2> QED BY <1>2, <1>8, <2>3
<1>13. EndSound(op, Consumers, flags.sc, Pos(consHead), Pos(consTail), Pos(prodTail))'
  BY <1>2, <1>7, <1>8
<1>14. TableSound'
  <2>1. \A k \in Pos(consTail)' .. Pos(prodTail)' - 1 : ring'[Slot(k)] \in Objects
    BY <1>1, <1>2, <1>8, Places DEF TableSound
  <2>2. \A p \in Producers : op'[p].at = "publish" =>
          \A j \in 1 .. op'[p].n : ring'[Slot(Pos(op'[p].head) + j - 1)] = op'[p].objs[j]
    BY <1>2, <1>3, ConsumerFrame DEF TableSound
  <2>3. \A d \in Consumers : op'[d].at = "publish" =>
          op'[d].objs = [j \in 1 .. op'[d].n |-> ring'[Slot(Pos(op'[d].head) + j - 1)]]
    BY <1>2, <1>4, <1>5 DEF TableSound
  <2> QED BY <2>1, <2>2, <2>3 DEF TableSound
<1> QED BY <1>6, <1>8, <1>9, <1>10, <1>11, <1>12, <1>13, <1>14

LEMMA StepDie ==
  ASSUME RingInv, NEW x \in Processes, Die(x)
  PROVE  RingInv'
<1>1. UNCHANGED <<flags, prodHead, prodTail, consHead, consTail, ring, op, count>>
  BY DEF Die, indices
<1>2. dead' \in SUBSET Processes
  BY DEF Die, RingInv, TypeOK
<1>3. TypeOK'
  BY <1>1, <1>2 DEF RingInv, TypeOK
<1>4. Given' = Given
  BY <1>1, GivenSame DEF Claimed, Holds
<1> QED BY <1>1, <1>3, <1>4 DEF RingInv, CallsSound, Holds, PlacesInOrder, TableSound

LEMMA StepStutter ==
  ASSUME RingInv, UNCHANGED vars
  PROVE  RingInv'
<1>1. UNCHANGED <<flags, prodHead, prodTail, consHead, consTail, ring, op, count, dead>>
  BY DEF vars, indices
<1>2. Given' = Given
  BY <1>1, GivenSame DEF Claimed, Holds
<1> QED BY <1>1, <1>2 DEF RingInv, TypeOK, CallsSound, Holds, PlacesInOrder, TableSound

LEMMA RingStep ==
  ASSUME RingInv, TakeTurns, [Next]_vars
  PROVE  RingInv'
<1>1. ASSUME NEW p \in Producers, Enqueue(p) PROVE RingInv'
  BY <1>1, StepEnqLoad, StepEnqCheck, StepEnqMove, StepEnqCopy, StepEnqPublish DEF Enqueue
<1>2. ASSUME NEW c \in Consumers, Dequeue(c) PROVE RingInv'
  BY <1>2, StepDeqLoad, StepDeqCheck, StepDeqMove, StepDeqCopy, StepDeqPublish DEF Dequeue
<1>3. ASSUME NEW x \in Processes, Die(x) PROVE RingInv'
  BY <1>3, StepDie
<1> QED BY <1>1, <1>2, <1>3, StepStutter DEF Next

---------------------------------------------------------------------------
(* The theorems.                                                           *)

\* The invariant holds for any number of users of the two ends, multi or single,
\* as long as the users of a single end take turns.
THEOREM RingInvariant ==
  ASSUME TakeTurns
  PROVE  Spec => []RingInv
<1>1. Init => RingInv
  BY RingInit
<1>2. RingInv /\ [Next]_vars => RingInv'
  BY RingStep
<1> QED BY <1>1, <1>2, PTL DEF Spec

\* Every variable keeps its type: no index leaves the width of uint32_t, and the
\* table never holds anything but what a producer enqueued.
THEOREM TypeCorrect ==
  ASSUME TakeTurns
  PROVE  Spec => []TypeOK
<1>1. RingInv => TypeOK
  BY DEF RingInv
<1> QED BY <1>1, RingInvariant, PTL

\* The indices keep their order around the ring and span at most Size - 1 entries.
THEOREM IndicesStayInOrder ==
  ASSUME TakeTurns
  PROVE  Spec => []IndicesInOrder
<1>1. RingInv => IndicesInOrder
  <2> SUFFICES ASSUME RingInv PROVE IndicesInOrder
    OBVIOUS
  <2>1. /\ Minus(consHead, consTail) = Pos(consHead) - Pos(consTail)
        /\ Minus(prodTail, consHead) = Pos(prodTail) - Pos(consHead)
        /\ Minus(prodHead, prodTail) = Pos(prodHead) - Pos(prodTail)
        /\ Minus(prodHead, consTail) = Pos(prodHead) - Pos(consTail)
    BY Typed, Places, PosMinus DEF RingInv, PlacesInOrder
  <2> QED BY <2>1, Places, Sizes DEF RingInv, PlacesInOrder, IndicesInOrder, Span
<1> QED BY <1>1, RingInvariant, PTL

\* A call that is at its check leaves it by its check only.
LEMMA WhoFails ==
  ASSUME RingInv, [Next]_vars, NEW x \in Processes, op[x].at = "check", op'[x].at = "idle"
  PROVE  \/ x \in Producers /\ EnqCheck(x)
         \/ x \in Consumers /\ DeqCheck(x)
<1> USE DEF RingInv
<1>1. ASSUME NEW p \in Producers, Enqueue(p) PROVE x = p /\ EnqCheck(p)
  <2>1. p \in Processes /\ (x # p => op'[x] = op[x])
    BY <1>1, Typed DEF Enqueue, EnqLoad, Call, Load, EnqCheck, Check, EnqMove, EnqCopy, EnqPublish
  <2>2. x = p
    BY <2>1
  <2> QED BY <1>1, <2>2 DEF Enqueue, EnqLoad, EnqMove, EnqCopy, EnqPublish
<1>2. ASSUME NEW c \in Consumers, Dequeue(c) PROVE x = c /\ DeqCheck(c)
  <2>1. c \in Processes /\ (x # c => op'[x] = op[x])
    BY <1>2, Typed DEF Dequeue, DeqLoad, Call, Load, DeqCheck, Check, DeqMove, DeqCopy, DeqPublish
  <2>2. x = c
    BY <2>1
  <2> QED BY <1>2, <2>2 DEF Dequeue, DeqLoad, DeqMove, DeqCopy, DeqPublish
<1>3. ASSUME NEW y \in Processes, Die(y) PROVE FALSE
  BY <1>3 DEF Die
<1>4. ASSUME UNCHANGED vars PROVE FALSE
  BY <1>4 DEF vars
<1> QED BY <1>1, <1>2, <1>3, <1>4 DEF Next

\* A check that fails had less than the call asks for.
LEMMA CheckFails ==
  ASSUME TypeOK, CallsSound, NEW x \in Processes, op[x].at = "check", op'[x].at = "idle",
         NEW available \in Nat, Check(x, available)
  PROVE  available < IF op[x].fixed THEN op[x].max ELSE 1
<1>1. op[x].n = op[x].max
  BY DEF CallsSound
<1>2. ASSUME ~(available < IF op[x].fixed THEN op[x].n ELSE 1)
      PROVE  op'[x].at = "move"
  <2>1. op[x] \in Calls
    BY Typed
  <2> QED BY <1>2, <2>1, Typed DEF Check, Calls
<1> QED BY <1>1, <1>2

LEMMA FailureIsTrue ==
  ASSUME RingInv, Cardinality(Producers) * MaxObjs <= Modulus - Size, [Next]_vars,
         NEW x \in Processes, op[x].at = "check", op'[x].at = "idle"
  PROVE  (IF x \in Producers THEN Mask - Minus(prodHead, consTail)
                             ELSE Minus(prodTail, consHead))
           < (IF op[x].fixed THEN op[x].max ELSE 1)
<1> USE DEF RingInv
<1>1. /\ op[x].head \in Index /\ Pos(op[x].head) \in Nat /\ op[x].max \in Nat
  BY Typed, CallTypes
<1>2. CASE x \in Producers /\ EnqCheck(x)
  <2> DEFINE s == Pos(op[x].head)
             d == Pos(consTail) + Mask - s
  <2>1. s <= Pos(prodHead)
    BY <1>2 DEF EndSound
  <2>2. Pos(prodHead) <= Cardinality(Objects)
    <3>1. Given \subseteq Objects
      BY DEF Given
    <3>2. Cardinality(Given) <= Cardinality(Objects)
      BY <3>1, ObjectsFinite, FS_Subset
    <3> QED BY <3>2 DEF PlacesInOrder
  <2>3. Pos(consTail) <= Modulus - Size /\ Pos(prodHead) <= Pos(consTail) + Mask
    BY <2>2, ObjectsFinite, Places, Sizes DEF PlacesInOrder
  <2>4. d \in Index
    BY <1>1, <2>1, <2>3, Places, Sizes DEF Index
  <2>5. Minus(Mask + consTail, op[x].head) = d
    BY <1>1, <2>4, PosFree, Typed, Sizes
  <2>6. d \in Nat /\ Check(x, d)
    BY <1>2, <2>4, <2>5, Sizes DEF EnqCheck, Index
  <2>7. d < IF op[x].fixed THEN op[x].max ELSE 1
    BY <2>6, CheckFails
  <2>8. Minus(prodHead, consTail) = Pos(prodHead) - Pos(consTail)
    BY Typed, Places, PosMinus DEF PlacesInOrder
  <2>9. Mask - Minus(prodHead, consTail) <= d
    BY <1>1, <2>1, <2>8, Places, Sizes
  <2> HIDE DEF d
  <2> QED BY <1>1, <1>2, <2>6, <2>7, <2>8, <2>9, Places, Sizes
<1>3. CASE x \in Consumers /\ DeqCheck(x)
  <2> DEFINE d == Pos(prodTail) - Pos(op[x].head)
  <2>1. Pos(op[x].head) <= Pos(consHead)
    BY <1>3 DEF EndSound
  <2>2. Pos(op[x].head) <= Pos(prodTail)
    BY <1>1, <2>1, Places DEF PlacesInOrder
  <2>3. d \in Nat /\ Minus(prodTail, op[x].head) = d
    BY <1>1, <2>2, Places, PosMinus, Typed
  <2>4. d < IF op[x].fixed THEN op[x].max ELSE 1
    BY <1>3, <2>3, CheckFails DEF DeqCheck
  <2>5. Minus(prodTail, consHead) = Pos(prodTail) - Pos(consHead)
    BY Typed, Places, PosMinus DEF PlacesInOrder
  <2>6. Minus(prodTail, consHead) <= d
    BY <1>1, <2>1, <2>5, Places
  <2>7. x \notin Producers
    BY <1>3, Typed
  <2> HIDE DEF d
  <2> QED BY <1>1, <2>3, <2>4, <2>5, <2>6, <2>7, Places
<1> QED BY <1>2, <1>3, WhoFails

\* A failed enqueue found the ring full and a failed dequeue found it empty, although
\* the head they computed with may be stale, as long as free_entries does not wrap:
\* a call must not sleep while the indices come within Size of a whole turn.
THEOREM FailuresAreAlwaysTrue ==
  ASSUME TakeTurns, Cardinality(Producers) * MaxObjs <= Modulus - Size
  PROVE  Spec => FailuresAreTrue
<1>1. RingInv /\ [Next]_vars =>
        [\A x \in Processes : op[x].at = "check" /\ op'[x].at = "idle" =>
           (IF x \in Producers THEN Mask - Minus(prodHead, consTail)
                               ELSE Minus(prodTail, consHead))
             < (IF op[x].fixed THEN op[x].max ELSE 1)]_vars
  BY FailureIsTrue
<1> QED BY <1>1, RingInvariant, PTL DEF Spec, FailuresAreTrue

---------------------------------------------------------------------------
(* The ring implements the queue of RingQueue.  First the three sequences  *)
(* of the refinement mapping, by places.                                   *)

\* The call whose place is k.
HasPlace(o, x, k) == Holding(o, x) /\ k \in Pos(o[x].head) .. Pos(o[x].head) + o[x].n - 1
OwnerAt(o, users, k) == CHOOSE x \in users : HasPlace(o, x, k)

ComingAt(o, k) ==
  LET p == OwnerAt(o, Producers, k)
  IN  [who |-> p, obj |-> o[p].objs[k - Pos(o[p].head) + 1]]
LeavingAt(o, table, k) == [who |-> OwnerAt(o, Consumers, k), obj |-> table[Slot(k)]]

\* The mapping, by places.
Mapped ==
  /\ ComingCells = [k \in 1 .. Pos(prodHead) - Pos(prodTail) |->
                      ComingAt(op, Pos(prodTail) + k - 1)]
  /\ QueueCells = [k \in 1 .. Pos(prodTail) - Pos(consHead) |->
                     ring[Slot(Pos(consHead) + k - 1)]]
  /\ LeavingCells = [k \in 1 .. Pos(consHead) - Pos(consTail) |->
                       LeavingAt(op, ring, Pos(consTail) + k - 1)]

LEMMA OwnerIs ==
  ASSUME NEW o \in [Processes -> Calls], NEW U \in SUBSET Processes,
         NEW single \in BOOLEAN, NEW h \in Nat, NEW t \in Nat, NEW l \in Nat,
         EndSound(o, U, single, h, t, l), NEW k \in Nat, NEW x \in U, HasPlace(o, x, k)
  PROVE  OwnerAt(o, U, k) = x /\ k \in t .. h - 1
<1>1. \A y \in U : HasPlace(o, y, k) => y = x
  BY CallTypes DEF EndSound, HasPlace
<1>2. OwnerAt(o, U, k) = x
  BY <1>1 DEF OwnerAt
<1>3. k \in t .. h - 1
  BY CallTypes DEF EndSound, HasPlace
<1> QED BY <1>2, <1>3

LEMMA OwnerExists ==
  ASSUME NEW o \in [Processes -> Calls], NEW U \in SUBSET Processes,
         NEW single \in BOOLEAN, NEW h \in Nat, NEW t \in Nat, NEW l \in Nat,
         EndSound(o, U, single, h, t, l), NEW k \in t .. h - 1
  PROVE  OwnerAt(o, U, k) \in U /\ HasPlace(o, OwnerAt(o, U, k), k)
<1>1. \E x \in U : HasPlace(o, x, k)
  BY DEF EndSound, HasPlace
<1> QED BY <1>1 DEF OwnerAt

\* The owner that the mapping of RteRing chooses by index.
LEMMA OwnerByIndex ==
  ASSUME TypeOK, NEW U \in SUBSET Processes, NEW single \in BOOLEAN,
         NEW h \in Nat, NEW t \in Nat, NEW l \in Nat, h < Modulus,
         EndSound(op, U, single, h, t, l), NEW i \in Index, Pos(i) \in t .. h - 1
  PROVE  Owner(U, i) = OwnerAt(op, U, Pos(i))
<1> DEFINE k == Pos(i)
           x == OwnerAt(op, U, k)
<1>1. op \in [Processes -> Calls] /\ k \in Nat
  BY Typed
<1>2. x \in U /\ HasPlace(op, x, k)
  BY <1>1, OwnerExists
<1>3. ASSUME NEW y \in U, Holds(y)
      PROVE  Minus(i, op[y].head) < op[y].n <=> HasPlace(op, y, k)
  <2> DEFINE s == Pos(op[y].head)
  <2>1. op[y].head \in Index /\ s \in Nat /\ op[y].n \in Nat /\ s + op[y].n <= h /\ t <= s
    BY <1>1, <1>3, CallTypes DEF EndSound, Holds, Holding
  <2>2. CASE s <= k
    <3>1. Minus(i, op[y].head) = k - s
      BY <2>1, <2>2, PosMinus
    <3> QED BY <1>1, <1>3, <2>1, <2>2, <3>1 DEF HasPlace, Holds, Holding
  <2>3. CASE k < s
    <3>1. Minus(i, op[y].head) = k - s + Modulus
      BY <2>1, <2>3, PosMinusWrap
    <3> QED BY <1>1, <2>1, <2>3, <3>1, Sizes DEF HasPlace
  <2> QED BY <1>1, <2>1, <2>2, <2>3
<1>4. \A y \in U : (Holds(y) /\ Minus(i, op[y].head) < op[y].n) <=> y = x
  <2>1. \A y \in U : HasPlace(op, y, k) => y = x
    BY <1>1, OwnerIs
  <2>2. \A y \in U : HasPlace(op, y, k) => Holds(y)
    BY DEF HasPlace, Holds, Holding
  <2> HIDE DEF x
  <2> QED BY <1>2, <1>3, <2>1, <2>2
<1> HIDE DEF x
<1>5. Owner(U, i) = x
  BY <1>2, <1>4 DEF Owner
<1> QED BY <1>5 DEF x

LEMMA MappedByPlaces ==
  ASSUME RingInv
  PROVE  Mapped
<1> USE DEF RingInv
<1> DEFINE A == Pos(prodTail)
           B == Pos(prodHead)
           C == Pos(consHead)
           D == Pos(consTail)
<1>1. /\ op \in [Processes -> Calls] /\ A \in Nat /\ B \in Nat /\ C \in Nat /\ D \in Nat
      /\ D <= C /\ C <= A /\ A <= B /\ B < Modulus /\ C < Modulus
  BY Typed, Places, PosFacts, Sizes DEF PlacesInOrder, Index
<1>2. /\ Minus(consHead, consTail) = C - D /\ Minus(prodTail, consHead) = A - C
      /\ Minus(prodHead, prodTail) = B - A
  BY Typed, Places, PosMinus DEF PlacesInOrder
<1>3. ComingCells = [k \in 1 .. B - A |-> ComingAt(op, A + k - 1)]
  <2>1. ASSUME NEW k \in 1 .. B - A
        PROVE  LET i == Plus(prodTail, k - 1)  p == Owner(Producers, i)
               IN  [who |-> p, obj |-> op[p].objs[Minus(i, op[p].head) + 1]]
                     = ComingAt(op, A + k - 1)
    <3>1. PICK K \in A .. B - 1 : K = A + k - 1 /\ K = A + (k - 1)
      BY <1>1
    <3> DEFINE i == Plus(prodTail, k - 1)
               p == OwnerAt(op, Producers, K)
    <3>2. i \in Index /\ Pos(i) = K
      BY <1>1, <3>1, PosPlus, Typed, Sizes
    <3> HIDE DEF i
    <3>3. Owner(Producers, i) = p
      BY <1>1, <3>2, OwnerByIndex, Typed, Places
    <3>4. p \in Producers /\ HasPlace(op, p, K)
      BY <1>1, OwnerExists, Typed, Places
    <3> HIDE DEF p
    <3>5. op[p].head \in Index /\ Pos(op[p].head) \in Nat /\ op[p].n \in Nat
      BY <1>1, <3>4, Typed, CallTypes
    <3>6. Pos(op[p].head) <= K
      BY <1>1, <3>4, <3>5 DEF HasPlace
    <3>7. Minus(i, op[p].head) = K - Pos(op[p].head)
      BY <3>2, <3>5, <3>6, PosMinus
    <3>8. ComingAt(op, K) = [who |-> p, obj |-> op[p].objs[K - Pos(op[p].head) + 1]]
      BY DEF ComingAt, p
    <3> QED BY <3>1, <3>3, <3>7, <3>8 DEF i
  <2> QED BY <1>2, <2>1 DEF ComingCells
<1>4. QueueCells = [k \in 1 .. A - C |-> ring[Slot(C + k - 1)]]
  <2>1. ASSUME NEW k \in 1 .. A - C PROVE Cell(consHead + k - 1) = Slot(C + k - 1)
    <3>1. k - 1 \in Nat /\ consHead + (k - 1) = consHead + k - 1 /\ C + (k - 1) = C + k - 1
      BY <1>1, Typed DEF Index
    <3> QED BY <3>1, Typed, CellIsSlot
  <2> QED BY <1>2, <2>1 DEF QueueCells
<1>5. LeavingCells = [k \in 1 .. C - D |-> LeavingAt(op, ring, D + k - 1)]
  <2>1. ASSUME NEW k \in 1 .. C - D
        PROVE  LET i == Plus(consTail, k - 1)  c == Owner(Consumers, i)
               IN  [who |-> c, obj |-> IF op[c].at = "copy" THEN ring[Cell(i)]
                                       ELSE op[c].objs[Minus(i, op[c].head) + 1]]
                     = LeavingAt(op, ring, D + k - 1)
    <3>1. PICK K \in D .. C - 1 : K = D + k - 1 /\ K = D + (k - 1)
      BY <1>1
    <3> DEFINE i == Plus(consTail, k - 1)
               c == OwnerAt(op, Consumers, K)
    <3>2. i \in Index /\ Pos(i) = K
      BY <1>1, <3>1, PosPlus, Typed, Sizes
    <3> HIDE DEF i
    <3>3. Owner(Consumers, i) = c
      BY <1>1, <3>2, OwnerByIndex, Typed, Places
    <3>4. c \in Consumers /\ HasPlace(op, c, K)
      BY <1>1, OwnerExists, Typed, Places
    <3>5. Cell(i) = Slot(K)
      <4>1. i + 0 = i /\ Pos(i) + 0 = K
        BY <1>1, <3>2 DEF Index
      <4> QED BY <3>2, <4>1, CellIsSlot
    <3> HIDE DEF c
    <3>6. op[c].head \in Index /\ Pos(op[c].head) \in Nat /\ op[c].n \in Nat
      BY <1>1, <3>4, Typed, CallTypes
    <3>7. CASE op[c].at = "copy"
      BY <3>1, <3>3, <3>5, <3>7 DEF LeavingAt, i, c
    <3>8. CASE op[c].at = "publish"
      <4>1. Pos(op[c].head) <= K /\ K < Pos(op[c].head) + op[c].n
        BY <1>1, <3>4, <3>6 DEF HasPlace
      <4>2. Minus(i, op[c].head) = K - Pos(op[c].head)
        BY <3>2, <3>6, <4>1, PosMinus
      <4>3. PICK j \in 1 .. op[c].n :
              j = Minus(i, op[c].head) + 1 /\ Pos(op[c].head) + j - 1 = K
        BY <1>1, <3>6, <4>1, <4>2
      <4>4. op[c].objs = [m \in 1 .. op[c].n |-> ring[Slot(Pos(op[c].head) + m - 1)]]
        BY <3>4, <3>8 DEF TableSound
      <4>5. op[c].objs[j] = ring[Slot(K)]
        BY <4>3, <4>4
      <4>6. op[c].at # "copy"
        BY <3>8
      <4> QED BY <3>1, <3>3, <4>3, <4>5, <4>6 DEF LeavingAt, i, c
    <3>9. op[c].at = "copy" \/ op[c].at = "publish"
      BY <3>4 DEF HasPlace, Holding
    <3> QED BY <3>7, <3>8, <3>9
  <2> QED BY <1>2, <2>1 DEF LeavingCells
<1> QED BY <1>3, <1>4, <1>5 DEF Mapped

\* The same in the state after a step.
LEMMA MappedNext == RingInv' => Mapped'
<1>1. RingInv => Mapped
  BY MappedByPlaces
<1> QED BY <1>1, PTL

\* What the simulation needs to know of the two ends.
EndsSound ==
  /\ op \in [Processes -> Calls]
  /\ Pos(prodHead) \in Nat /\ Pos(prodTail) \in Nat
  /\ Pos(consHead) \in Nat /\ Pos(consTail) \in Nat
  /\ Pos(consTail) <= Pos(consHead) /\ Pos(consHead) <= Pos(prodTail)
  /\ Pos(prodTail) <= Pos(prodHead) /\ Pos(prodHead) <= Pos(consTail) + Mask
  /\ EndSound(op, Producers, flags.sp, Pos(prodHead), Pos(prodTail), Pos(consTail) + Mask)
  /\ EndSound(op, Consumers, flags.sc, Pos(consHead), Pos(consTail), Pos(prodTail))
  /\ flags.sp \in BOOLEAN /\ flags.sc \in BOOLEAN /\ Pos(consTail) + Mask \in Nat

LEMMA Ends == RingInv => EndsSound
  BY Typed, Places DEF RingInv, PlacesInOrder, EndsSound

LEMMA EndsNext == RingInv' => EndsSound'
  BY Ends, PTL

LEMMA Users == Producers \in SUBSET Processes /\ Consumers \in SUBSET Processes
  BY DEF Processes

\* A call that goes on keeps its places.
LEMMA ComingKept ==
  ASSUME RingInv, RingInv', NEW k \in Pos(prodTail) .. Pos(prodHead) - 1,
         \A p \in Producers : HasPlace(op, p, k) =>
           /\ Holding(op', p) /\ op'[p].head = op[p].head /\ op'[p].n = op[p].n
           /\ op'[p].objs = op[p].objs
  PROVE  ComingAt(op', k) = ComingAt(op, k)
<1> DEFINE p == OwnerAt(op, Producers, k)
<1>1. p \in Producers /\ HasPlace(op, p, k)
  BY Ends, OwnerExists, Users DEF EndsSound
<1>2. k \in Nat
  BY Ends DEF EndsSound
<1> HIDE DEF p
<1>3. HasPlace(op', p, k)
  BY <1>1 DEF HasPlace
<1>4. OwnerAt(op', Producers, k) = p
  BY <1>1, <1>2, <1>3, EndsNext, OwnerIs, Users DEF EndsSound
<1>5. op'[p].head = op[p].head /\ op'[p].objs = op[p].objs
  BY <1>1
<1> QED BY <1>4, <1>5 DEF ComingAt, p

LEMMA LeavingKept ==
  ASSUME RingInv, RingInv', NEW k \in Pos(consTail) .. Pos(consHead) - 1,
         ring'[Slot(k)] = ring[Slot(k)],
         \A c \in Consumers : HasPlace(op, c, k) =>
           Holding(op', c) /\ op'[c].head = op[c].head /\ op'[c].n = op[c].n
  PROVE  LeavingAt(op', ring', k) = LeavingAt(op, ring, k)
<1> DEFINE c == OwnerAt(op, Consumers, k)
<1>1. c \in Consumers /\ HasPlace(op, c, k)
  BY Ends, OwnerExists, Users DEF EndsSound
<1>2. k \in Nat
  BY Ends DEF EndsSound
<1> HIDE DEF c
<1>3. HasPlace(op', c, k)
  BY <1>1 DEF HasPlace
<1>4. OwnerAt(op', Consumers, k) = c
  BY <1>1, <1>2, <1>3, EndsNext, OwnerIs, Users DEF EndsSound
<1> QED BY <1>4 DEF LeavingAt, c

\* Sequences given as functions: joined, and without their first n elements.
LEMMA JoinSeq ==
  ASSUME NEW S, NEW s \in Seq(S), NEW t \in Seq(S), NEW u \in Seq(S),
         Len(u) = Len(s) + Len(t),
         \A k \in 1 .. Len(s) : u[k] = s[k], \A k \in 1 .. Len(t) : u[Len(s) + k] = t[k]
  PROVE  u = s \o t
<1>1. s \o t \in Seq(S) /\ Len(s \o t) = Len(u)
  BY ConcatProperties
<1>2. ASSUME NEW k \in 1 .. Len(u) PROVE u[k] = (s \o t)[k]
  <2>1. CASE k <= Len(s)
    BY <2>1, ConcatProperties
  <2>2. CASE k > Len(s)
    <3>1. k - Len(s) \in 1 .. Len(t) /\ Len(s) + (k - Len(s)) = k
      BY <2>2, LenProperties
    <3>2. u[k] = t[k - Len(s)]
      BY <3>1
    <3>3. (s \o t)[k] = t[k - Len(s)]
      BY <2>2, ConcatProperties
    <3> QED BY <3>2, <3>3
  <2> QED BY <2>1, <2>2, LenProperties
<1> QED BY <1>1, <1>2, SeqEqual

LEMMA RestSeq ==
  ASSUME NEW S, NEW m \in Nat, NEW n \in Nat, NEW l \in Nat, m = n + l,
         NEW s \in [1 .. m -> S], NEW u \in [1 .. l -> S],
         \A k \in 1 .. l : u[k] = s[n + k]
  PROVE  u = SubSeq(s, n + 1, m)
<1>1. s \in Seq(S) /\ Len(s) = m
  BY SeqOf
<1>2. SubSeq(s, n + 1, m) = [k \in 1 .. l |-> s[n + k]]
  BY <1>1
<1> QED BY <1>2

\* The cells are those of users and their objects.
CellsTyped ==
  /\ ComingCells \in [1 .. Pos(prodHead) - Pos(prodTail) -> [who : Producers, obj : Objects]]
  /\ QueueCells \in [1 .. Pos(prodTail) - Pos(consHead) -> Objects]
  /\ LeavingCells \in [1 .. Pos(consHead) - Pos(consTail) -> [who : Consumers, obj : Objects]]

LEMMA CellTypes == RingInv => CellsTyped
<1> SUFFICES ASSUME RingInv PROVE CellsTyped
  OBVIOUS
<1> DEFINE A == Pos(prodTail)
           B == Pos(prodHead)
           C == Pos(consHead)
           D == Pos(consTail)
<1>1. /\ A \in Nat /\ B \in Nat /\ C \in Nat /\ D \in Nat /\ D <= C /\ C <= A /\ A <= B
      /\ op \in [Processes -> Calls]
  BY Ends DEF EndsSound
<1>2. Mapped
  BY MappedByPlaces
<1>3. \A k \in D .. A - 1 : ring[Slot(k)] \in Objects
  BY DEF RingInv, TableSound
<1>4. ASSUME NEW k \in A .. B - 1
      PROVE  ComingAt(op, k) \in [who : Producers, obj : Objects]
  <2> DEFINE p == OwnerAt(op, Producers, k)
  <2>1. p \in Producers /\ HasPlace(op, p, k)
    BY OwnerExists, Ends, Users DEF EndsSound
  <2> HIDE DEF p
  <2>2. /\ Pos(op[p].head) \in Nat /\ op[p].n \in Nat /\ op[p].max \in Nat
        /\ count[p] \in Nat
    BY <1>1, <2>1, CallTypes, Users, Typed, Sizes DEF RingInv
  <2>3. op[p].n <= op[p].max /\ count[p] + op[p].max <= MaxObjs
    <3>1. op[p].at \in {"copy", "publish"} /\ p \in Processes
      BY <2>1, Users DEF HasPlace, Holding
    <3>2. CallsSound
      BY DEF RingInv
    <3>3. op[p].n \in 1 .. op[p].max
      BY <3>1, <3>2 DEF CallsSound
    <3>4. count[p] + op[p].max <= MaxObjs
      BY <2>1, <3>1, <3>2 DEF CallsSound
    <3> QED BY <2>2, <3>3, <3>4
  <2>4. PICK j \in 1 .. op[p].n : j = k - Pos(op[p].head) + 1
    BY <1>1, <2>1, <2>2 DEF HasPlace
  <2>5. op[p].objs[j] = <<p, count[p] + j>>
    BY <2>1 DEF RingInv, CallsSound, HasPlace, Holding, Holds
  <2>6. <<p, count[p] + j>> \in Objects
    BY <2>1, <2>2, <2>3, Sizes DEF Objects
  <2> QED BY <2>1, <2>4, <2>5, <2>6 DEF ComingAt, p
<1>5. ASSUME NEW k \in D .. C - 1
      PROVE  LeavingAt(op, ring, k) \in [who : Consumers, obj : Objects]
  <2>1. OwnerAt(op, Consumers, k) \in Consumers
    BY OwnerExists, Ends, Users DEF EndsSound
  <2>2. k \in D .. A - 1
    BY <1>1
  <2> QED BY <1>3, <2>1, <2>2 DEF LeavingAt
<1>6. /\ \A k \in 1 .. B - A : A + k - 1 \in A .. B - 1
      /\ \A k \in 1 .. A - C : C + k - 1 \in D .. A - 1
      /\ \A k \in 1 .. C - D : D + k - 1 \in D .. C - 1
  BY <1>1
<1> QED BY <1>2, <1>3, <1>4, <1>5, <1>6 DEF Mapped, CellsTyped

LEMMA CellTypesNext == RingInv' => CellsTyped'
  BY CellTypes, PTL

\* The steps that the queue does not see.
LEMMA CellsSame ==
  ASSUME RingInv, RingInv', UNCHANGED <<prodHead, prodTail, consHead, consTail>>,
         \A x \in Processes : Holding(op, x) =>
           /\ Holding(op', x) /\ op'[x].head = op[x].head /\ op'[x].n = op[x].n
           /\ x \in Producers => op'[x].objs = op[x].objs,
         \A k \in Pos(consTail) .. Pos(prodTail) - 1 : ring'[Slot(k)] = ring[Slot(k)]
  PROVE  UNCHANGED <<ComingCells, QueueCells, LeavingCells>>
<1> DEFINE A == Pos(prodTail)
           B == Pos(prodHead)
           C == Pos(consHead)
           D == Pos(consTail)
<1>1. A \in Nat /\ B \in Nat /\ C \in Nat /\ D \in Nat /\ D <= C /\ C <= A /\ A <= B
  BY Ends DEF EndsSound
<1>2. A' = A /\ B' = B /\ C' = C /\ D' = D
  OBVIOUS
<1>3. /\ \A p \in Producers, k \in Nat : HasPlace(op, p, k) =>
           /\ Holding(op', p) /\ op'[p].head = op[p].head /\ op'[p].n = op[p].n
           /\ op'[p].objs = op[p].objs
      /\ \A c \in Consumers, k \in Nat : HasPlace(op, c, k) =>
           Holding(op', c) /\ op'[c].head = op[c].head /\ op'[c].n = op[c].n
  BY Users DEF HasPlace
<1>4. ASSUME NEW k \in 1 .. B - A PROVE ComingAt(op', A + k - 1) = ComingAt(op, A + k - 1)
  <2>1. A + k - 1 \in A .. B - 1 /\ A + k - 1 \in Nat
    BY <1>1
  <2> QED BY <1>3, <2>1, ComingKept
<1>5. ASSUME NEW k \in 1 .. A - C PROVE ring'[Slot(C + k - 1)] = ring[Slot(C + k - 1)]
  <2>1. C + k - 1 \in D .. A - 1
    BY <1>1
  <2> QED BY <2>1
<1>6. ASSUME NEW k \in 1 .. C - D
      PROVE  LeavingAt(op', ring', D + k - 1) = LeavingAt(op, ring, D + k - 1)
  <2>1. D + k - 1 \in D .. C - 1 /\ D + k - 1 \in D .. A - 1 /\ D + k - 1 \in Nat
    BY <1>1
  <2> QED BY <1>3, <2>1, LeavingKept
<1>7. Mapped /\ Mapped'
  BY MappedByPlaces, MappedNext
<1>8. ComingCells' = [k \in 1 .. B - A |-> ComingAt(op', A + k - 1)]
  BY <1>2, <1>7 DEF Mapped
<1>9. QueueCells' = [k \in 1 .. A - C |-> ring'[Slot(C + k - 1)]]
  BY <1>2, <1>7 DEF Mapped
<1>10. LeavingCells' = [k \in 1 .. C - D |-> LeavingAt(op', ring', D + k - 1)]
  BY <1>2, <1>7 DEF Mapped
<1>11. ComingCells' = ComingCells
  BY <1>4, <1>7, <1>8 DEF Mapped
<1>12. QueueCells' = QueueCells
  BY <1>5, <1>7, <1>9 DEF Mapped
<1>13. LeavingCells' = LeavingCells
  BY <1>6, <1>7, <1>10 DEF Mapped
<1> QED BY <1>11, <1>12, <1>13

\* A move of prod.head reserves room.
LEMMA MoveReserves ==
  ASSUME RingInv, NEW p \in Producers, EnqMove(p), op'[p].at = "copy"
  PROVE  RQ!Reserve(p)
<1> DEFINE A == Pos(prodTail)
           B == Pos(prodHead)
           C == Pos(consHead)
           D == Pos(consTail)
           n == op[p].n
<1>0. RingInv' /\ Pos(op[p].head) = B /\ B' = B + n
  BY StepEnqMove
<1>1. /\ A \in Nat /\ B \in Nat /\ C \in Nat /\ D \in Nat /\ D <= C /\ C <= A /\ A <= B
      /\ op \in [Processes -> Calls] /\ p \in Processes
  BY Ends, Users DEF EndsSound
<1>2. /\ A' = A /\ C' = C /\ D' = D /\ ring' = ring /\ op[p].at = "move"
      /\ \A x \in Processes \ {p} : op'[x] = op[x]
  BY <1>1 DEF EnqMove
<1>3. n \in Nat /\ n >= 1 /\ count[p] \in Nat /\ count[p] + n <= MaxObjs
  <2>1. n \in Nat /\ op[p].max \in Nat /\ count[p] \in Nat
    BY <1>1, CallTypes, Typed, Sizes DEF RingInv
  <2>2. n \in 1 .. op[p].max /\ count[p] + op[p].max <= MaxObjs
    BY <1>1, <1>2 DEF RingInv, CallsSound
  <2> QED BY <2>1, <2>2, Sizes
<1>4. /\ op'[p].n = n /\ op'[p].head = op[p].head
      /\ op'[p].objs = [i \in 1 .. n |-> <<p, count[p] + i>>]
  BY <1>1, <1>2 DEF EnqMove, Calls
<1>5. B + n <= D + Mask
  BY <1>0, <1>2, EndsNext DEF EndsSound
<1>6. Mapped /\ Mapped'
  BY <1>0, MappedByPlaces, MappedNext
<1>7. ComingCells = [k \in 1 .. B - A |-> ComingAt(op, A + k - 1)]
  BY <1>6 DEF Mapped
<1>8. ComingCells' = [k \in 1 .. B + n - A |-> ComingAt(op', A + k - 1)]
  BY <1>0, <1>1, <1>2, <1>3, <1>6 DEF Mapped
<1>9. \A k \in Nat : \A x \in Processes : HasPlace(op, x, k) => x # p
  BY <1>2 DEF HasPlace, Holding
<1>10. \A k \in 1 .. B - A : ComingAt(op', A + k - 1) = ComingAt(op, A + k - 1)
  <2>1. ASSUME NEW k \in 1 .. B - A
        PROVE  ComingAt(op', A + k - 1) = ComingAt(op, A + k - 1)
    <3>1. A + k - 1 \in A .. B - 1 /\ A + k - 1 \in Nat
      BY <1>1
    <3>2. \A x \in Producers : HasPlace(op, x, A + k - 1) =>
            /\ Holding(op', x) /\ op'[x].head = op[x].head /\ op'[x].n = op[x].n
            /\ op'[x].objs = op[x].objs
      BY <1>2, <1>9, <3>1, Users DEF HasPlace, Holding
    <3> QED BY <1>0, <3>1, <3>2, ComingKept
  <2> QED BY <2>1
<1>11. \A K \in B .. B + n - 1 : ComingAt(op', K) \in [who : {p}, obj : Objects]
  <2>1. ASSUME NEW K \in B .. B + n - 1
        PROVE  ComingAt(op', K) \in [who : {p}, obj : Objects]
    <3>1. PICK j \in 1 .. n : j = K - Pos(op'[p].head) + 1
      BY <1>0, <1>1, <1>3, <1>4
    <3>2. HasPlace(op', p, K)
      BY <1>0, <1>1, <1>3, <1>4 DEF HasPlace, Holding
    <3>3. OwnerAt(op', Producers, K) = p
      <4>1. K \in Nat
        BY <1>1
      <4> QED BY <1>0, <3>2, <4>1, EndsNext, OwnerIs, Users DEF EndsSound
    <3>4. op'[p].objs[j] = <<p, count[p] + j>>
      BY <1>4
    <3>5. <<p, count[p] + j>> \in Objects
      BY <1>3, Sizes DEF Objects
    <3> QED BY <3>1, <3>3, <3>4, <3>5 DEF ComingAt
  <2> QED BY <2>1
<1>12. UNCHANGED <<QueueCells, LeavingCells>>
  <2>1. QueueCells' = [k \in 1 .. A - C |-> ring[Slot(C + k - 1)]]
    BY <1>2, <1>6 DEF Mapped
  <2>2. LeavingCells' = [k \in 1 .. C - D |-> LeavingAt(op', ring', D + k - 1)]
    BY <1>2, <1>6 DEF Mapped
  <2>3. ASSUME NEW k \in 1 .. C - D
        PROVE  LeavingAt(op', ring', D + k - 1) = LeavingAt(op, ring, D + k - 1)
    <3>1. D + k - 1 \in D .. C - 1 /\ D + k - 1 \in Nat
      BY <1>1
    <3>2. \A c \in Consumers : HasPlace(op, c, D + k - 1) =>
            Holding(op', c) /\ op'[c].head = op[c].head /\ op'[c].n = op[c].n
      BY <1>2, <1>9, <3>1, Users DEF HasPlace, Holding
    <3> QED BY <1>0, <1>2, <3>1, <3>2, LeavingKept
  <2> QED BY <1>6, <2>1, <2>2, <2>3 DEF Mapped
<1> QED
  <2>1. Len(ComingCells) = B - A /\ Len(ComingCells') = B + n - A
    BY <1>1, <1>3, <1>7, <1>8
  <2>2. Len(QueueCells) = A - C /\ Len(LeavingCells) = C - D
    BY <1>1, <1>6 DEF Mapped
  <2>3. RQ!CellsOf(p, ComingCells) = {}
    <3>1. ASSUME NEW k \in 1 .. B - A PROVE ComingCells[k].who # p
      <4>1. PICK K \in A .. B - 1 : K = A + k - 1
        BY <1>1
      <4>2. HasPlace(op, OwnerAt(op, Producers, K), K)
        BY OwnerExists, Ends, Users DEF EndsSound
      <4>3. OwnerAt(op, Producers, K) # p
        BY <1>2, <4>2 DEF HasPlace, Holding
      <4> QED BY <1>7, <4>1, <4>3 DEF ComingAt
    <3> QED BY <1>7, <3>1 DEF RQ!CellsOf
  <2>4. n \in 1 .. RQ!Room
    <3>1. RQ!Room = Mask - (B - A) - (A - C) - (C - D)
      BY <2>1, <2>2 DEF RQ!Room
    <3> QED BY <1>1, <1>3, <1>5, <3>1, Sizes
  <2>5. SubSeq(ComingCells', 1, Len(ComingCells)) = ComingCells
    BY <1>1, <1>3, <1>7, <1>8, <1>10, <2>1
  <2>6. \A i \in 1 .. n : ComingCells'[Len(ComingCells) + i] \in [who : {p}, obj : Objects]
    <3> SUFFICES ASSUME NEW i \in 1 .. n
                 PROVE  ComingCells'[Len(ComingCells) + i] \in [who : {p}, obj : Objects]
      OBVIOUS
    <3>1. PICK K \in B .. B + n - 1 : K = B + i - 1
      BY <1>1, <1>3
    <3>2. PICK k \in 1 .. B + n - A : k = B - A + i /\ A + k - 1 = K
      BY <1>1, <1>3, <3>1
    <3>3. ComingCells'[k] = ComingAt(op', K)
      BY <1>8, <3>2
    <3>4. Len(ComingCells) + i = k
      BY <2>1, <3>2
    <3> QED BY <1>11, <3>3, <3>4
  <2>7. Len(ComingCells') - Len(ComingCells) = n
    BY <1>1, <1>3, <2>1
  <2> QED BY <1>12, <2>3, <2>4, <2>5, <2>6, <2>7 DEF RQ!Reserve

\* prod.tail hands over the objects of the first reservation.
LEMMA PublishHandsOver ==
  ASSUME RingInv, NEW p \in Producers, EnqPublish(p)
  PROVE  RQ!HandOver(p)
<1> DEFINE A == Pos(prodTail)
           B == Pos(prodHead)
           C == Pos(consHead)
           D == Pos(consTail)
           n == op[p].n
<1>0. RingInv' /\ Pos(op[p].head) = A /\ A' = A + n
  BY StepEnqPublish
<1>1. /\ A \in Nat /\ B \in Nat /\ C \in Nat /\ D \in Nat /\ D <= C /\ C <= A /\ A <= B
      /\ op \in [Processes -> Calls] /\ p \in Processes
  BY Ends, Users DEF EndsSound
<1>2. /\ B' = B /\ C' = C /\ D' = D /\ ring' = ring /\ op[p].at = "publish"
      /\ \A x \in Processes \ {p} : op'[x] = op[x]
  BY <1>1 DEF EnqPublish
<1>3. n \in Nat /\ n >= 1
  <2>1. n \in Nat /\ op[p].max \in Nat
    BY <1>1, CallTypes
  <2>2. n \in 1 .. op[p].max
    BY <1>1, <1>2 DEF RingInv, CallsSound
  <2> QED BY <2>1, <2>2
<1>4. A + n <= B
  BY <1>0, <1>2, EndsNext DEF EndsSound
<1>5. Mapped /\ Mapped'
  BY <1>0, MappedByPlaces, MappedNext
<1>6. ComingCells = [k \in 1 .. B - A |-> ComingAt(op, A + k - 1)]
  BY <1>5 DEF Mapped
<1>7. ComingCells' = [k \in 1 .. B - (A + n) |-> ComingAt(op', A + n + k - 1)]
  BY <1>0, <1>1, <1>2, <1>3, <1>5 DEF Mapped
<1>8. QueueCells = [k \in 1 .. A - C |-> ring[Slot(C + k - 1)]]
  BY <1>5 DEF Mapped
<1>9. QueueCells' = [k \in 1 .. A + n - C |-> ring[Slot(C + k - 1)]]
  BY <1>0, <1>1, <1>2, <1>3, <1>5 DEF Mapped
<1>10. ASSUME NEW K \in A .. A + n - 1
       PROVE  ComingAt(op, K) = [who |-> p, obj |-> ring[Slot(K)]]
  <2>1. K \in Nat /\ HasPlace(op, p, K)
    BY <1>0, <1>1, <1>2, <1>3 DEF HasPlace, Holding
  <2>2. OwnerAt(op, Producers, K) = p
    BY <2>1, Ends, OwnerIs, Users DEF EndsSound
  <2>3. PICK j \in 1 .. n : j = K - Pos(op[p].head) + 1 /\ Pos(op[p].head) + j - 1 = K
    BY <1>0, <1>1, <1>3
  <2>4. ring[Slot(K)] = op[p].objs[j]
    BY <1>2, <2>3 DEF RingInv, TableSound
  <2> QED BY <2>2, <2>3, <2>4 DEF ComingAt
<1>11. ASSUME NEW k \in A + n .. B - 1
       PROVE  ComingAt(op', k) = ComingAt(op, k) /\ ComingAt(op, k).who # p
  <2>1. k \in A .. B - 1 /\ k \in Nat
    BY <1>1, <1>3
  <2>2. ~HasPlace(op, p, k)
    BY <1>0, <1>1, <1>3, <2>1 DEF HasPlace
  <2>3. \A x \in Producers : HasPlace(op, x, k) =>
          /\ Holding(op', x) /\ op'[x].head = op[x].head /\ op'[x].n = op[x].n
          /\ op'[x].objs = op[x].objs
    BY <1>2, <2>2, Users DEF HasPlace, Holding
  <2>4. ComingAt(op', k) = ComingAt(op, k)
    BY <1>0, <2>1, <2>3, ComingKept
  <2>5. OwnerAt(op, Producers, k) # p
    BY <2>1, <2>2, OwnerExists, Ends, Users DEF EndsSound
  <2> QED BY <2>4, <2>5 DEF ComingAt
<1>12. RQ!CellsOf(p, ComingCells) = 1 .. n
  <2>1. ASSUME NEW k \in 1 .. B - A PROVE ComingCells[k].who = p <=> k \in 1 .. n
    <3>1. PICK K \in A .. B - 1 : K = A + k - 1
      BY <1>1
    <3>2. ComingCells[k] = ComingAt(op, K)
      BY <1>6, <3>1
    <3>3. CASE k <= n
      <4>1. K \in A .. A + n - 1
        BY <1>1, <1>3, <3>1, <3>3
      <4> QED BY <1>3, <1>10, <3>2, <3>3, <4>1
    <3>4. CASE k > n
      <4>1. K \in A + n .. B - 1
        BY <1>1, <1>3, <3>1, <3>4
      <4> QED BY <1>3, <1>11, <3>2, <3>4, <4>1
    <3> QED BY <1>3, <3>3, <3>4
  <2>2. 1 .. n \subseteq 1 .. B - A
    BY <1>1, <1>3, <1>4
  <2> QED BY <1>6, <2>1, <2>2 DEF RQ!CellsOf
<1>13. UNCHANGED LeavingCells
  <2>1. LeavingCells' = [k \in 1 .. C - D |-> LeavingAt(op', ring', D + k - 1)]
    BY <1>2, <1>5 DEF Mapped
  <2>2. ASSUME NEW k \in 1 .. C - D
        PROVE  LeavingAt(op', ring', D + k - 1) = LeavingAt(op, ring, D + k - 1)
    <3>1. D + k - 1 \in D .. C - 1 /\ D + k - 1 \in Nat
      BY <1>1
    <3>2. \A c \in Consumers : op'[c] = op[c]
      BY <1>2, Users, RteRingAssumption
    <3> QED BY <1>0, <1>2, <3>1, <3>2, LeavingKept DEF HasPlace, Holding
  <2> QED BY <1>5, <2>1, <2>2 DEF Mapped
<1> DEFINE m == A - C
           m2 == A + n - C
           l == B - A
           l2 == B - (A + n)
<1>14. /\ m \in Nat /\ m = A - C /\ m2 \in Nat /\ m2 = A + n - C /\ m2 = m + n
       /\ l \in Nat /\ l = B - A /\ l2 \in Nat /\ l2 = B - (A + n) /\ l = n + l2
  BY <1>1, <1>3, <1>4
<1>15. /\ ComingCells \in [1 .. l -> [who : Producers, obj : Objects]]
       /\ ComingCells' \in [1 .. l2 -> [who : Producers, obj : Objects]]
       /\ QueueCells \in [1 .. m -> Objects] /\ QueueCells' \in [1 .. m2 -> Objects]
  <2>1. CellsTyped /\ CellsTyped'
    BY <1>0, CellTypes, CellTypesNext
  <2>2. B' - A' = l2 /\ A' - C' = m2
    BY <1>0, <1>1, <1>2, <1>3
  <2> QED BY <1>14, <2>1, <2>2 DEF CellsTyped
<1> HIDE DEF m, m2, l, l2, n, A, B, C, D
<1>16. QueueCells' = QueueCells \o RQ!Objs(ComingCells, n)
  <2> DEFINE new == RQ!Objs(ComingCells, n)
  <2>1. ASSUME NEW j \in 1 .. n
        PROVE  ComingCells[j].obj \in Objects /\ QueueCells'[m + j] = ComingCells[j].obj
    <3>1. j \in 1 .. l
      BY <1>3, <1>14
    <3>2. PICK K \in A .. A + n - 1 : K = A + j - 1
      BY <1>1, <1>3
    <3>3. ComingCells[j].obj = ring[Slot(K)]
      BY <1>6, <1>10, <1>14, <3>1, <3>2
    <3>4. PICK k \in 1 .. A + n - C : k = m + j /\ C + k - 1 = K
      BY <1>1, <1>3, <1>14, <3>2
    <3>5. QueueCells'[k] = ring[Slot(K)]
      BY <1>9, <3>4
    <3>6. ComingCells[j].obj \in Objects
      BY <1>15, <3>1
    <3> QED BY <3>3, <3>4, <3>5, <3>6
  <2>2. new \in [1 .. n -> Objects] /\ \A j \in 1 .. n : new[j] = ComingCells[j].obj
    BY <2>1 DEF RQ!Objs
  <2>3. \A k \in 1 .. m : QueueCells'[k] = QueueCells[k]
    BY <1>1, <1>3, <1>8, <1>9, <1>14
  <2>4. \A k \in 1 .. n : QueueCells'[m + k] = new[k]
    BY <2>1, <2>2
  <2> HIDE DEF new
  <2>5. QueueCells' = QueueCells \o new
    <3>1. m \in Nat /\ n \in Nat /\ m2 \in Nat /\ m2 = m + n
      BY <1>3, <1>14
    <3>2. QueueCells \in [1 .. m -> Objects] /\ QueueCells' \in [1 .. m2 -> Objects]
      BY <1>15
    <3>3. new \in [1 .. n -> Objects]
      BY <2>2
    <3>4. /\ QueueCells \in Seq(Objects) /\ Len(QueueCells) = m
          /\ QueueCells' \in Seq(Objects) /\ Len(QueueCells') = m2
          /\ new \in Seq(Objects) /\ Len(new) = n
      BY <3>1, <3>2, <3>3, SeqOf
    <3>5. /\ Len(QueueCells') = Len(QueueCells) + Len(new)
          /\ \A k \in 1 .. Len(QueueCells) : QueueCells'[k] = QueueCells[k]
          /\ \A k \in 1 .. Len(new) : QueueCells'[Len(QueueCells) + k] = new[k]
      BY <2>3, <2>4, <3>1, <3>4
    <3>6. /\ QueueCells \in Seq(Objects) /\ QueueCells' \in Seq(Objects)
          /\ new \in Seq(Objects)
      BY <3>4
    <3> QED BY <3>5, <3>6, JoinSeq
  <2> QED BY <2>5 DEF new
<1>17. ComingCells' = RQ!Rest(ComingCells, n)
  <2>1. ASSUME NEW k \in 1 .. l2
        PROVE  ComingCells'[k] = ComingCells[n + k]
    <3>1. PICK K \in A + n .. B - 1 : K = A + n + k - 1
      BY <1>1, <1>3, <1>4, <1>14
    <3>2. k \in 1 .. B - (A + n) /\ n + k \in 1 .. B - A /\ A + (n + k) - 1 = K
      BY <1>1, <1>3, <1>4, <1>14, <3>1
    <3>3. ComingCells'[k] = ComingAt(op', K)
      BY <1>7, <3>1, <3>2
    <3>4. ComingCells[n + k] = ComingAt(op, K)
      BY <1>6, <3>2
    <3> QED BY <1>11, <3>3, <3>4
  <2>2. ComingCells' = SubSeq(ComingCells, n + 1, l)
    BY <1>3, <1>14, <1>15, <2>1, RestSeq
  <2>3. Len(ComingCells) = l
    BY <1>14, <1>15, SeqOf
  <2> QED BY <2>2, <2>3 DEF RQ!Rest
<1>18. n \in 1 .. Len(ComingCells)
  <2>1. Len(ComingCells) = l
    BY <1>14, <1>15, SeqOf
  <2> QED BY <1>3, <1>14, <2>1
<1> QED BY <1>12, <1>13, <1>16, <1>17, <1>18 DEF RQ!HandOver

\* A move of cons.head takes the oldest objects out.
LEMMA MoveTakes ==
  ASSUME RingInv, NEW c \in Consumers, DeqMove(c), op'[c].at = "copy"
  PROVE  RQ!Take(c)
<1> DEFINE A == Pos(prodTail)
           B == Pos(prodHead)
           C == Pos(consHead)
           D == Pos(consTail)
           n == op[c].n
<1>0. RingInv' /\ Pos(op[c].head) = C /\ C' = C + n
  BY StepDeqMove
<1>1. /\ A \in Nat /\ B \in Nat /\ C \in Nat /\ D \in Nat /\ D <= C /\ C <= A /\ A <= B
      /\ op \in [Processes -> Calls] /\ c \in Processes
  BY Ends, Users DEF EndsSound
<1>2. /\ A' = A /\ B' = B /\ D' = D /\ ring' = ring /\ op[c].at = "move"
      /\ \A x \in Processes \ {c} : op'[x] = op[x]
  BY <1>1 DEF DeqMove
<1>3. n \in Nat /\ n >= 1 /\ op'[c].n = n /\ op'[c].head = op[c].head
  <2>1. n \in Nat /\ op[c].max \in Nat
    BY <1>1, CallTypes
  <2>2. n \in 1 .. op[c].max
    BY <1>1, <1>2 DEF RingInv, CallsSound
  <2>3. op'[c].n = n /\ op'[c].head = op[c].head
    BY <1>1, <1>2 DEF DeqMove, Calls
  <2> QED BY <2>1, <2>2, <2>3
<1>4. C + n <= A
  BY <1>0, <1>2, EndsNext DEF EndsSound
<1>5. Mapped /\ Mapped'
  BY <1>0, MappedByPlaces, MappedNext
<1>6. LeavingCells = [k \in 1 .. C - D |-> LeavingAt(op, ring, D + k - 1)]
  BY <1>5 DEF Mapped
<1>7. LeavingCells' = [k \in 1 .. C + n - D |-> LeavingAt(op', ring', D + k - 1)]
  BY <1>0, <1>1, <1>2, <1>3, <1>5 DEF Mapped
<1>8. QueueCells = [k \in 1 .. A - C |-> ring[Slot(C + k - 1)]]
  BY <1>5 DEF Mapped
<1>9. QueueCells' = [k \in 1 .. A - (C + n) |-> ring[Slot(C + n + k - 1)]]
  BY <1>0, <1>1, <1>2, <1>3, <1>5 DEF Mapped
<1>10. ASSUME NEW K \in D .. C - 1
       PROVE  LeavingAt(op', ring', K) = LeavingAt(op, ring, K) /\ LeavingAt(op, ring, K).who # c
  <2>1. \A x \in Consumers : HasPlace(op, x, K) =>
          Holding(op', x) /\ op'[x].head = op[x].head /\ op'[x].n = op[x].n
    BY <1>2, Users DEF HasPlace, Holding
  <2>2. LeavingAt(op', ring', K) = LeavingAt(op, ring, K)
    BY <1>0, <1>2, <2>1, LeavingKept
  <2>3. HasPlace(op, OwnerAt(op, Consumers, K), K)
    BY OwnerExists, Ends, Users DEF EndsSound
  <2>4. OwnerAt(op, Consumers, K) # c
    BY <1>2, <2>3 DEF HasPlace, Holding
  <2> QED BY <2>2, <2>4 DEF LeavingAt
<1>11. ASSUME NEW K \in C .. C + n - 1
       PROVE  LeavingAt(op', ring', K) = [who |-> c, obj |-> ring[Slot(K)]]
  <2>1. K \in Nat /\ HasPlace(op', c, K)
    BY <1>0, <1>1, <1>3 DEF HasPlace, Holding
  <2>2. OwnerAt(op', Consumers, K) = c
    BY <1>0, <2>1, EndsNext, OwnerIs, Users DEF EndsSound
  <2> QED BY <1>2, <2>2 DEF LeavingAt
<1>12. RQ!CellsOf(c, LeavingCells) = {}
  <2>1. ASSUME NEW k \in 1 .. C - D PROVE LeavingCells[k].who # c
    <3>1. PICK K \in D .. C - 1 : K = D + k - 1
      BY <1>1
    <3> QED BY <1>6, <1>10, <3>1
  <2> QED BY <1>6, <2>1 DEF RQ!CellsOf
<1>13. UNCHANGED ComingCells
  <2>1. ComingCells' = [k \in 1 .. B - A |-> ComingAt(op', A + k - 1)]
    BY <1>2, <1>5 DEF Mapped
  <2>2. ASSUME NEW k \in 1 .. B - A
        PROVE  ComingAt(op', A + k - 1) = ComingAt(op, A + k - 1)
    <3>1. A + k - 1 \in A .. B - 1 /\ A + k - 1 \in Nat
      BY <1>1
    <3>2. \A x \in Producers : op'[x] = op[x]
      BY <1>2, Users, RteRingAssumption
    <3> QED BY <1>0, <3>1, <3>2, ComingKept DEF HasPlace, Holding
  <2> QED BY <1>5, <2>1, <2>2 DEF Mapped
<1> DEFINE m == C - D
           m2 == C + n - D
           l == A - C
           l2 == A - (C + n)
           Cells == [who : Consumers, obj : Objects]
<1>14. /\ m \in Nat /\ m = C - D /\ m2 \in Nat /\ m2 = C + n - D /\ m2 = m + n
       /\ l \in Nat /\ l = A - C /\ l2 \in Nat /\ l2 = A - (C + n) /\ l = n + l2 /\ n <= l
  BY <1>1, <1>3, <1>4
<1>15. /\ LeavingCells \in [1 .. m -> Cells] /\ LeavingCells' \in [1 .. m2 -> Cells]
       /\ QueueCells \in [1 .. l -> Objects] /\ QueueCells' \in [1 .. l2 -> Objects]
  <2>1. CellsTyped /\ CellsTyped'
    BY <1>0, CellTypes, CellTypesNext
  <2>2. C' - D' = m2 /\ A' - C' = l2
    BY <1>0, <1>1, <1>2, <1>3
  <2> QED BY <1>14, <2>1, <2>2 DEF CellsTyped
<1> HIDE DEF m, m2, l, l2, n, A, B, C, D, Cells
<1>16. LeavingCells' = LeavingCells \o RQ!Of(c, SubSeq(QueueCells, 1, n))
  <2> DEFINE new == RQ!Of(c, SubSeq(QueueCells, 1, n))
  <2>1. SubSeq(QueueCells, 1, n) = [k \in 1 .. n |-> QueueCells[k]]
    <3>1. QueueCells \in Seq(Objects) /\ Len(QueueCells) = l
      BY <1>14, <1>15, SeqOf
    <3> QED BY <1>3, <1>14, <3>1
  <2>2. new = [k \in 1 .. n |-> [who |-> c, obj |-> QueueCells[k]]]
    BY <2>1 DEF RQ!Of
  <2>3. ASSUME NEW j \in 1 .. n
        PROVE  QueueCells[j] \in Objects /\ LeavingCells'[m + j] = new[j]
    <3>1. j \in 1 .. l
      BY <1>3, <1>14
    <3>2. PICK K \in C .. C + n - 1 : K = C + j - 1
      BY <1>1, <1>3
    <3>3. QueueCells[j] = ring[Slot(K)]
      BY <1>8, <1>14, <3>1, <3>2
    <3>4. PICK k \in 1 .. C + n - D : k = m + j /\ D + k - 1 = K
      BY <1>1, <1>3, <1>14, <3>2
    <3>5. LeavingCells'[k] = [who |-> c, obj |-> ring[Slot(K)]]
      BY <1>7, <1>11, <3>4
    <3>6. QueueCells[j] \in Objects
      BY <1>15, <3>1
    <3> QED BY <2>2, <3>3, <3>4, <3>5, <3>6
  <2>4. new \in [1 .. n -> Cells]
    BY <2>2, <2>3 DEF Cells
  <2>5. \A k \in 1 .. m : LeavingCells'[k] = LeavingCells[k]
    <3>1. ASSUME NEW k \in 1 .. m PROVE LeavingCells'[k] = LeavingCells[k]
      <4>1. PICK K \in D .. C - 1 : K = D + k - 1
        BY <1>1, <1>14
      <4>2. k \in 1 .. C - D /\ k \in 1 .. C + n - D
        BY <1>1, <1>3, <1>14
      <4> QED BY <1>6, <1>7, <1>10, <4>1, <4>2
    <3> QED BY <3>1
  <2>6. \A k \in 1 .. n : LeavingCells'[m + k] = new[k]
    BY <2>3
  <2> HIDE DEF new
  <2>7. LeavingCells' = LeavingCells \o new
    <3>0. m \in Nat /\ n \in Nat /\ m2 \in Nat
      BY <1>3, <1>14
    <3>1. /\ LeavingCells \in Seq(Cells) /\ Len(LeavingCells) = m
          /\ LeavingCells' \in Seq(Cells) /\ Len(LeavingCells') = m2
          /\ new \in Seq(Cells) /\ Len(new) = n
      <4>1. LeavingCells \in Seq(Cells) /\ Len(LeavingCells) = m
        BY <1>15, <3>0, SeqOf
      <4>2. LeavingCells' \in Seq(Cells) /\ Len(LeavingCells') = m2
        BY <1>15, <3>0, SeqOf
      <4>3. new \in Seq(Cells) /\ Len(new) = n
        BY <2>4, <3>0, SeqOf
      <4> QED BY <4>1, <4>2, <4>3
    <3>2. /\ Len(LeavingCells') = Len(LeavingCells) + Len(new)
          /\ \A k \in 1 .. Len(LeavingCells) : LeavingCells'[k] = LeavingCells[k]
          /\ \A k \in 1 .. Len(new) : LeavingCells'[Len(LeavingCells) + k] = new[k]
      BY <1>14, <2>5, <2>6, <3>1
    <3>3. /\ LeavingCells \in Seq(Cells) /\ LeavingCells' \in Seq(Cells)
          /\ new \in Seq(Cells)
      BY <3>1
    <3> QED BY <3>2, <3>3, JoinSeq
  <2> QED BY <2>7 DEF new
<1>17. QueueCells' = RQ!Rest(QueueCells, n)
  <2>1. ASSUME NEW k \in 1 .. l2
        PROVE  QueueCells'[k] = QueueCells[n + k]
    <3>1. k \in 1 .. A - (C + n) /\ n + k \in 1 .. A - C /\ C + (n + k) - 1 = C + n + k - 1
      BY <1>1, <1>3, <1>4, <1>14
    <3>2. QueueCells'[k] = ring[Slot(C + n + k - 1)]
      BY <1>9, <3>1
    <3>3. QueueCells[n + k] = ring[Slot(C + n + k - 1)]
      BY <1>8, <3>1
    <3> QED BY <3>2, <3>3
  <2>2. QueueCells' = SubSeq(QueueCells, n + 1, l)
    BY <1>3, <1>14, <1>15, <2>1, RestSeq
  <2>3. Len(QueueCells) = l
    BY <1>14, <1>15, SeqOf
  <2> QED BY <2>2, <2>3 DEF RQ!Rest
<1>18. n \in 1 .. Len(QueueCells)
  <2>1. Len(QueueCells) = l
    BY <1>14, <1>15, SeqOf
  <2> QED BY <1>3, <1>14, <2>1
<1> QED BY <1>12, <1>13, <1>16, <1>17, <1>18 DEF RQ!Take

\* cons.tail gives the room of the first of them back.
LEMMA PublishGivesBack ==
  ASSUME RingInv, NEW c \in Consumers, DeqPublish(c)
  PROVE  RQ!GiveBack(c)
<1> DEFINE A == Pos(prodTail)
           B == Pos(prodHead)
           C == Pos(consHead)
           D == Pos(consTail)
           n == op[c].n
<1>0. RingInv' /\ Pos(op[c].head) = D /\ D' = D + n
  BY StepDeqPublish
<1>1. /\ A \in Nat /\ B \in Nat /\ C \in Nat /\ D \in Nat /\ D <= C /\ C <= A /\ A <= B
      /\ op \in [Processes -> Calls] /\ c \in Processes
  BY Ends, Users DEF EndsSound
<1>2. /\ A' = A /\ B' = B /\ C' = C /\ ring' = ring /\ op[c].at = "publish"
      /\ \A x \in Processes \ {c} : op'[x] = op[x]
  BY <1>1 DEF DeqPublish
<1>3. n \in Nat /\ n >= 1
  <2>1. n \in Nat /\ op[c].max \in Nat
    BY <1>1, CallTypes
  <2>2. n \in 1 .. op[c].max
    BY <1>1, <1>2 DEF RingInv, CallsSound
  <2> QED BY <2>1, <2>2
<1>4. D + n <= C
  BY <1>0, <1>2, EndsNext DEF EndsSound
<1>5. Mapped /\ Mapped'
  BY <1>0, MappedByPlaces, MappedNext
<1>6. LeavingCells = [k \in 1 .. C - D |-> LeavingAt(op, ring, D + k - 1)]
  BY <1>5 DEF Mapped
<1>7. LeavingCells' = [k \in 1 .. C - (D + n) |-> LeavingAt(op', ring', D + n + k - 1)]
  BY <1>0, <1>1, <1>2, <1>3, <1>5 DEF Mapped
<1>8. QueueCells' = QueueCells
  BY <1>2, <1>5 DEF Mapped
<1>9. ComingCells' = ComingCells
  <2>1. ComingCells' = [k \in 1 .. B - A |-> ComingAt(op', A + k - 1)]
    BY <1>2, <1>5 DEF Mapped
  <2>2. ASSUME NEW k \in 1 .. B - A
        PROVE  ComingAt(op', A + k - 1) = ComingAt(op, A + k - 1)
    <3>1. A + k - 1 \in A .. B - 1 /\ A + k - 1 \in Nat
      BY <1>1
    <3>2. \A x \in Producers : op'[x] = op[x]
      BY <1>2, Users, RteRingAssumption
    <3> QED BY <1>0, <3>1, <3>2, ComingKept DEF HasPlace, Holding
  <2> QED BY <1>5, <2>1, <2>2 DEF Mapped
<1>10. ASSUME NEW K \in D .. D + n - 1 PROVE LeavingAt(op, ring, K).who = c
  <2>1. K \in Nat /\ HasPlace(op, c, K)
    BY <1>0, <1>1, <1>2, <1>3 DEF HasPlace, Holding
  <2>2. OwnerAt(op, Consumers, K) = c
    BY <2>1, Ends, OwnerIs, Users DEF EndsSound
  <2> QED BY <2>2 DEF LeavingAt
<1>11. ASSUME NEW K \in D + n .. C - 1
       PROVE  LeavingAt(op', ring', K) = LeavingAt(op, ring, K) /\ LeavingAt(op, ring, K).who # c
  <2>1. K \in D .. C - 1 /\ K \in Nat
    BY <1>1, <1>3
  <2>2. ~HasPlace(op, c, K)
    BY <1>0, <1>1, <1>3, <2>1 DEF HasPlace
  <2>3. \A x \in Consumers : HasPlace(op, x, K) =>
          Holding(op', x) /\ op'[x].head = op[x].head /\ op'[x].n = op[x].n
    BY <1>2, <2>2, Users DEF HasPlace, Holding
  <2>4. LeavingAt(op', ring', K) = LeavingAt(op, ring, K)
    BY <1>0, <1>2, <2>1, <2>3, LeavingKept
  <2>5. OwnerAt(op, Consumers, K) # c
    BY <2>1, <2>2, OwnerExists, Ends, Users DEF EndsSound
  <2> QED BY <2>4, <2>5 DEF LeavingAt
<1>12. RQ!CellsOf(c, LeavingCells) = 1 .. n
  <2>1. ASSUME NEW k \in 1 .. C - D PROVE LeavingCells[k].who = c <=> k \in 1 .. n
    <3>1. PICK K \in D .. C - 1 : K = D + k - 1
      BY <1>1
    <3>2. LeavingCells[k] = LeavingAt(op, ring, K)
      BY <1>6, <3>1
    <3>3. CASE k <= n
      <4>1. K \in D .. D + n - 1
        BY <1>1, <1>3, <3>1, <3>3
      <4> QED BY <1>3, <1>10, <3>2, <3>3, <4>1
    <3>4. CASE k > n
      <4>1. K \in D + n .. C - 1
        BY <1>1, <1>3, <3>1, <3>4
      <4> QED BY <1>3, <1>11, <3>2, <3>4, <4>1
    <3> QED BY <1>3, <3>3, <3>4
  <2>2. 1 .. n \subseteq 1 .. C - D
    BY <1>1, <1>3, <1>4
  <2> QED BY <1>6, <2>1, <2>2 DEF RQ!CellsOf
<1> DEFINE l == C - D
           l2 == C - (D + n)
           Cells == [who : Consumers, obj : Objects]
<1>13. /\ l \in Nat /\ l = C - D /\ l2 \in Nat /\ l2 = C - (D + n) /\ l = n + l2 /\ n <= l
  BY <1>1, <1>3, <1>4
<1>14. LeavingCells \in [1 .. l -> Cells] /\ LeavingCells' \in [1 .. l2 -> Cells]
  <2>1. CellsTyped /\ CellsTyped'
    BY <1>0, CellTypes, CellTypesNext
  <2>2. C' - D' = l2
    BY <1>0, <1>1, <1>2, <1>3
  <2> QED BY <1>13, <2>1, <2>2 DEF CellsTyped
<1> HIDE DEF l, l2, n, A, B, C, D, Cells
<1>15. LeavingCells' = RQ!Rest(LeavingCells, n)
  <2>1. ASSUME NEW k \in 1 .. l2
        PROVE  LeavingCells'[k] = LeavingCells[n + k]
    <3>1. PICK K \in D + n .. C - 1 : K = D + n + k - 1
      BY <1>1, <1>3, <1>4, <1>13
    <3>2. k \in 1 .. C - (D + n) /\ n + k \in 1 .. C - D /\ D + (n + k) - 1 = K
      BY <1>1, <1>3, <1>4, <1>13, <3>1
    <3>3. LeavingCells'[k] = LeavingAt(op', ring', K)
      BY <1>7, <3>1, <3>2
    <3>4. LeavingCells[n + k] = LeavingAt(op, ring, K)
      BY <1>6, <3>2
    <3> QED BY <1>11, <3>3, <3>4
  <2>2. LeavingCells' = SubSeq(LeavingCells, n + 1, l)
    BY <1>3, <1>13, <1>14, <2>1, RestSeq
  <2>3. Len(LeavingCells) = l
    BY <1>13, <1>14, SeqOf
  <2> QED BY <2>2, <2>3 DEF RQ!Rest
<1>16. n \in 1 .. Len(LeavingCells)
  <2>1. Len(LeavingCells) = l
    BY <1>13, <1>14, SeqOf
  <2> QED BY <1>3, <1>13, <2>1
<1> QED BY <1>8, <1>9, <1>12, <1>15, <1>16 DEF RQ!GiveBack

\* A step of a call that has not moved its head.
LEMMA UnseenBefore ==
  ASSUME RingInv, RingInv', UNCHANGED <<prodHead, prodTail, consHead, consTail, ring>>,
         NEW x \in Processes, ~Holding(op, x), \A y \in Processes \ {x} : op'[y] = op[y]
  PROVE  UNCHANGED <<ComingCells, QueueCells, LeavingCells>>
<1>1. \A y \in Processes : Holding(op, y) =>
        /\ Holding(op', y) /\ op'[y].head = op[y].head /\ op'[y].n = op[y].n
        /\ y \in Producers => op'[y].objs = op[y].objs
  BY DEF Holding
<1> QED BY <1>1, CellsSame

LEMMA EnqueueSimulates ==
  ASSUME RingInv, TakeTurns, NEW p \in Producers, Enqueue(p)
  PROVE  RQ!Reserve(p) \/ RQ!HandOver(p) \/ UNCHANGED <<ComingCells, QueueCells, LeavingCells>>
<1>1. RingInv' /\ op \in [Processes -> Calls] /\ p \in Processes
  BY StepEnqLoad, StepEnqCheck, StepEnqMove, StepEnqCopy, StepEnqPublish, Ends, Users
  DEF Enqueue, EndsSound
<1>2. CASE EnqLoad(p)
  BY <1>1, <1>2, UnseenBefore DEF EnqLoad, Load, Call, Holding, indices
<1>3. CASE EnqCheck(p)
  BY <1>1, <1>3, UnseenBefore DEF EnqCheck, Check, Holding, indices
<1>4. CASE EnqMove(p)
  <2>1. op[p].at = "move" /\ UNCHANGED <<prodTail, consHead, consTail, ring>>
        /\ \A y \in Processes \ {p} : op'[y] = op[y]
    BY <1>1, <1>4 DEF EnqMove
  <2>2. op'[p].at = "copy" \/ UNCHANGED prodHead
    BY <1>1, <1>4 DEF EnqMove, Calls
  <2>3. CASE op'[p].at = "copy"
    BY <1>4, <2>3, MoveReserves
  <2>4. CASE UNCHANGED prodHead
    BY <1>1, <2>1, <2>4, UnseenBefore DEF Holding
  <2> QED BY <2>2, <2>3, <2>4
<1>5. CASE EnqCopy(p)
  <2> DEFINE low == Pos(consTail)
             high == Pos(prodHead)
             n == op[p].n
  <2>1. UNCHANGED <<prodHead, prodTail, consHead, consTail>> /\ op[p].at = "copy"
    BY <1>5 DEF EnqCopy, indices
  <2>2. \A y \in Processes : Holding(op, y) =>
          /\ Holding(op', y) /\ op'[y].head = op[y].head /\ op'[y].n = op[y].n
          /\ y \in Producers => op'[y].objs = op[y].objs
    <3>1. \A y \in Processes \ {p} : op'[y] = op[y]
      BY <1>1, <1>5 DEF EnqCopy
    <3>2. /\ op'[p].at = "publish" /\ op'[p].head = op[p].head /\ op'[p].n = op[p].n
          /\ op'[p].objs = op[p].objs
      BY <1>1, <1>5 DEF EnqCopy, Calls
    <3> QED BY <3>1, <3>2 DEF Holding
  <2>3. /\ op[p] \in Calls /\ op[p].head \in Index /\ n \in Nat /\ Pos(op[p].head) \in Nat
    BY <1>1, CallTypes, Typed DEF RingInv
  <2>4. /\ low \in Nat /\ high \in Nat /\ high <= low + Mask /\ Pos(prodTail) \in Nat
        /\ low <= Pos(prodTail) /\ Pos(prodTail) <= high
        /\ Pos(prodTail) <= Pos(op[p].head) /\ Pos(op[p].head) + n <= high
    BY <2>1, Ends, Sizes DEF EndsSound, EndSound, Holding
  <2>5. low <= Pos(op[p].head)
    BY <2>3, <2>4
  <2>6. \A k \in low .. high - 1 :
          k \notin Pos(op[p].head) .. Pos(op[p].head) + n - 1 => ring'[Slot(k)] = ring[Slot(k)]
    BY <1>1, <1>5, <2>3, <2>4, <2>5, Copied
  <2>7. ASSUME NEW k \in low .. Pos(prodTail) - 1 PROVE ring'[Slot(k)] = ring[Slot(k)]
    <3>1. k \in low .. high - 1 /\ k \notin Pos(op[p].head) .. Pos(op[p].head) + n - 1
      BY <2>3, <2>4
    <3> QED BY <2>6, <3>1
  <2> QED BY <1>1, <2>1, <2>2, <2>7, CellsSame
<1>6. CASE EnqPublish(p)
  BY <1>6, PublishHandsOver
<1> QED BY <1>2, <1>3, <1>4, <1>5, <1>6 DEF Enqueue

LEMMA DequeueSimulates ==
  ASSUME RingInv, TakeTurns, NEW c \in Consumers, Dequeue(c)
  PROVE  RQ!Take(c) \/ RQ!GiveBack(c) \/ UNCHANGED <<ComingCells, QueueCells, LeavingCells>>
<1>1. RingInv' /\ op \in [Processes -> Calls] /\ c \in Processes
  BY StepDeqLoad, StepDeqCheck, StepDeqMove, StepDeqCopy, StepDeqPublish, Ends, Users
  DEF Dequeue, EndsSound
<1>2. CASE DeqLoad(c)
  BY <1>1, <1>2, UnseenBefore DEF DeqLoad, Load, Call, Holding, indices
<1>3. CASE DeqCheck(c)
  BY <1>1, <1>3, UnseenBefore DEF DeqCheck, Check, Holding, indices
<1>4. CASE DeqMove(c)
  <2>1. op[c].at = "move" /\ UNCHANGED <<prodHead, prodTail, consTail, ring>>
        /\ \A y \in Processes \ {c} : op'[y] = op[y]
    BY <1>1, <1>4 DEF DeqMove
  <2>2. op'[c].at = "copy" \/ UNCHANGED consHead
    BY <1>1, <1>4 DEF DeqMove, Calls
  <2>3. CASE op'[c].at = "copy"
    BY <1>4, <2>3, MoveTakes
  <2>4. CASE UNCHANGED consHead
    BY <1>1, <2>1, <2>4, UnseenBefore DEF Holding
  <2> QED BY <2>2, <2>3, <2>4
<1>5. CASE DeqCopy(c)
  <2>1. UNCHANGED <<prodHead, prodTail, consHead, consTail, ring>>
    BY <1>5 DEF DeqCopy, indices
  <2>2. \A y \in Processes : Holding(op, y) =>
          /\ Holding(op', y) /\ op'[y].head = op[y].head /\ op'[y].n = op[y].n
          /\ y \in Producers => op'[y].objs = op[y].objs
    <3>1. \A y \in Processes \ {c} : op'[y] = op[y]
      BY <1>1, <1>5 DEF DeqCopy
    <3>2. op'[c].at = "publish" /\ op'[c].head = op[c].head /\ op'[c].n = op[c].n
      BY <1>1, <1>5 DEF DeqCopy, Calls
    <3>3. c \notin Producers
      BY RteRingAssumption
    <3> QED BY <3>1, <3>2, <3>3 DEF Holding
  <2> QED BY <1>1, <2>1, <2>2, CellsSame
<1>6. CASE DeqPublish(c)
  BY <1>6, PublishGivesBack
<1> QED BY <1>2, <1>3, <1>4, <1>5, <1>6 DEF Dequeue

LEMMA RingSimulates ==
  ASSUME RingInv, TakeTurns, [Next]_vars
  PROVE  [RQ!QNext]_(RQ!qvars)
<1>1. ASSUME NEW p \in Producers, Enqueue(p) PROVE [RQ!QNext]_(RQ!qvars)
  BY <1>1, EnqueueSimulates DEF RQ!QNext, RQ!qvars
<1>2. ASSUME NEW c \in Consumers, Dequeue(c) PROVE [RQ!QNext]_(RQ!qvars)
  BY <1>2, DequeueSimulates DEF RQ!QNext, RQ!qvars
<1>3. ASSUME UNCHANGED <<indices, ring, op>> PROVE UNCHANGED RQ!qvars
  BY <1>3 DEF indices, RQ!qvars, ComingCells, QueueCells, LeavingCells, Owner, Holds
<1>4. ASSUME NEW x \in Processes, Die(x) PROVE UNCHANGED RQ!qvars
  BY <1>3, <1>4 DEF Die
<1>5. ASSUME UNCHANGED vars PROVE UNCHANGED RQ!qvars
  BY <1>3, <1>5 DEF vars
<1> QED BY <1>1, <1>2, <1>4, <1>5 DEF Next

\* The ring implements the bounded FIFO queue, whatever the number of its users,
\* its size, the value its indices start from and the deaths in the middle of a
\* call: no object is lost, duplicated, overtaken or read before it is written.
THEOREM RingImplementsQueue ==
  ASSUME TakeTurns
  PROVE  Spec => ImplementsQueue
<1>1. Init => RQ!QInit
  <2> SUFFICES ASSUME Init PROVE RQ!QInit
    OBVIOUS
  <2>1. Minus(Start, Start) = 0
    <3>1. Pos(Start) = Start - Start
      BY PosFacts, Sizes DEF Index
    <3> QED BY <3>1, Sizes DEF Pos, Index
  <2> QED BY <2>1 DEF Init, RQ!QInit, ComingCells, QueueCells, LeavingCells
<1>2. RingInv /\ [Next]_vars => [RQ!QNext]_(RQ!qvars)
  BY RingSimulates
<1> QED BY <1>1, <1>2, RingInvariant, PTL DEF Spec, ImplementsQueue, RQ!QSpec
===========================================================================
