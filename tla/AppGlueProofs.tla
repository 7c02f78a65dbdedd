--------------------------- MODULE AppGlueProofs ---------------------------
(***************************************************************************)
(* The lists of app_glue.c stay consistent with the flags, lengths and     *)
(* references of the sockets, for any number of connections, slots and     *)
(* waiting connections.                                                    *)
(***************************************************************************)
EXTENDS AppGlue, TLAPS, FiniteSetTheorems, SequenceTheorems

States == {"new", "dgram", "syn", "listen", "est", "fin", "reset", "refused", "freed"}

\* No entry twice.
Once(q) == \A i, j \in DOMAIN q : q[i] = q[j] => i = j

---------------------------------------------------------------------------
(* The inductive invariant.                                                *)

\* One socket listens, so a callback makes at most one entry in the accept list.
OneListener == \A s, t \in Slots : state[s] = "listen" /\ state[t] = "listen" => s = t

\* A list holds the sockets with its flag, each once.
ListSound(n) == Once(lists[n]) /\ \A s \in Slots : In(s, lists[n]) <=> n \in present[s]
ListsSound == \A n \in Names : ListSound(n)
LensSound == \A n \in Counted : len[n] = Len(lists[n])

\* The reference of the socket itself, and one for each flag.
Flags(s) == Cardinality(present[s])
Own(s) == IF state[s] = "freed" THEN 0 ELSE 1
HeldSound(s) == refs[s] >= Flags(s) + Own(s)

\* A slot is free once, and only if its socket is freed.
PoolSound == Once(pool) /\ \A s \in Slots : In(s, pool) => state[s] = "freed"

\* The closed list holds sockets that were reset, so it frees none twice; a freed
\* socket that is still referenced was freed by it.
Wanted(s) == present[s] # {} \/ Attached(s) \/ s \in handed
SlotSound(s) ==
  /\ "closed" \in present[s] => state[s] = "reset"
  /\ Wanted(s) /\ s \notin fatal => state[s] # "freed"

\* A connection's socket leads back to it, and is not handed to another one.
ConnSound(c) == table[c] # NULL => user[table[c]] = c /\ table[c] \notin handed

Sound ==
  /\ ListsSound /\ LensSound /\ PoolSound
  /\ \A s \in Slots : HeldSound(s) /\ SlotSound(s)
  /\ \A c \in Conns : ConnSound(c)

GlueInv == TypeOK /\ OneListener /\ fault # "exit" /\ (fault = "none" => Sound)

---------------------------------------------------------------------------
(* Sequences without repetition.                                           *)

LEMMA OnceAppend ==
  ASSUME NEW S, NEW q \in Seq(S), NEW x \in S
  PROVE  /\ Append(q, x) \in Seq(S) /\ Len(Append(q, x)) = Len(q) + 1
         /\ \A t : In(t, Append(q, x)) <=> In(t, q) \/ t = x
         /\ Once(q) /\ ~In(x, q) => Once(Append(q, x))
<1>1. PICK l \in Nat : l = Len(q) /\ DOMAIN q = 1 .. l
  OBVIOUS
<1>2. PICK a : a = Append(q, x)
  OBVIOUS
<1>3. /\ a \in Seq(S) /\ Len(a) = l + 1 /\ DOMAIN a = 1 .. l + 1 /\ a[l + 1] = x
      /\ \A i \in 1 .. l : a[i] = q[i]
  BY <1>1, <1>2
<1>4. ASSUME NEW t PROVE In(t, a) <=> In(t, q) \/ t = x
  BY <1>1, <1>3 DEF In
<1>5. ASSUME Once(q), ~In(x, q) PROVE Once(a)
  BY <1>1, <1>3, <1>5 DEF In, Once
<1> QED BY <1>1, <1>2, <1>3, <1>4, <1>5

LEMMA OnceTail ==
  ASSUME NEW S, NEW q \in Seq(S), q # <<>>
  PROVE  /\ Tail(q) \in Seq(S) /\ Head(q) \in S /\ In(Head(q), q)
         /\ Len(q) > 0 /\ Len(Tail(q)) = Len(q) - 1
         /\ \A t : In(t, Tail(q)) => In(t, q)
         /\ \A t : In(t, q) /\ t # Head(q) => In(t, Tail(q))
         /\ Once(q) => Once(Tail(q)) /\ ~In(Head(q), Tail(q))
<1>1. PICK l \in Nat : l = Len(q) /\ DOMAIN q = 1 .. l /\ l > 0
  OBVIOUS
<1>2. PICK a, x : a = Tail(q) /\ x = Head(q)
  OBVIOUS
<1>3. /\ a \in Seq(S) /\ Len(a) = l - 1 /\ DOMAIN a = 1 .. l - 1 /\ x = q[1] /\ x \in S
      /\ \A i \in 1 .. l - 1 : a[i] = q[i + 1]
  BY <1>1, <1>2
<1>4. In(x, q)
  BY <1>1, <1>3 DEF In
<1>5. ASSUME NEW t, In(t, a) PROVE In(t, q)
  BY <1>1, <1>3, <1>5 DEF In
<1>6. ASSUME NEW t, In(t, q), t # x PROVE In(t, a)
  <2>1. PICK i \in 1 .. l : q[i] = t
    BY <1>1, <1>6 DEF In
  <2>2. i - 1 \in 1 .. l - 1 /\ (i - 1) + 1 = i
    BY <1>1, <1>3, <1>6, <2>1
  <2>3. a[i - 1] = t
    BY <1>3, <2>1, <2>2
  <2> QED BY <1>3, <2>2, <2>3 DEF In
<1>7. ASSUME Once(q) PROVE Once(a) /\ ~In(x, a)
  <2>1. ASSUME NEW i \in 1 .. l - 1, NEW j \in 1 .. l - 1, a[i] = a[j] PROVE i = j
    <3>1. i + 1 \in 1 .. l /\ j + 1 \in 1 .. l /\ q[i + 1] = q[j + 1]
      BY <1>1, <1>3, <2>1
    <3> QED BY <1>1, <1>7, <3>1 DEF Once
  <2>2. ASSUME NEW i \in 1 .. l - 1, a[i] = x PROVE FALSE
    <3>1. i + 1 \in 1 .. l /\ 1 \in 1 .. l /\ q[i + 1] = q[1] /\ i + 1 # 1
      BY <1>1, <1>3, <2>2
    <3> QED BY <1>1, <1>7, <3>1 DEF Once
  <2> QED BY <1>3, <2>1, <2>2 DEF Once, In
<1> QED BY <1>1, <1>2, <1>3, <1>4, <1>5, <1>6, <1>7

LEMMA OnceUnlink ==
  ASSUME NEW S, NEW q \in Seq(S), NEW x, Once(q), In(x, q)
  PROVE  /\ Unlink(q, x) \in Seq(S) /\ Once(Unlink(q, x))
         /\ Len(q) > 0 /\ Len(Unlink(q, x)) = Len(q) - 1
         /\ \A t : In(t, Unlink(q, x)) <=> In(t, q) /\ t # x
<1>1. PICK l \in Nat : l = Len(q) /\ DOMAIN q = 1 .. l
  OBVIOUS
<1>2. PICK k : k = CHOOSE i \in DOMAIN q : q[i] = x
  OBVIOUS
<1>3. k \in 1 .. l /\ q[k] = x
  BY <1>1, <1>2 DEF In
<1>4. PICK a : a = [j \in 1 .. l - 1 |-> IF j < k THEN q[j] ELSE q[j + 1]]
  OBVIOUS
<1>5. Unlink(q, x) = a
  BY <1>1, <1>2, <1>4 DEF Unlink
<1>6. l > 0 /\ l - 1 \in Nat
  BY <1>3
<1>7. ASSUME NEW j \in 1 .. l - 1
      PROVE  (j < k => a[j] = q[j] /\ j \in 1 .. l) /\ (~(j < k) => a[j] = q[j + 1] /\ j + 1 \in 1 .. l)
  BY <1>3, <1>4
<1>8. a \in Seq(S) /\ Len(a) = l - 1 /\ DOMAIN a = 1 .. l - 1
  <2>1. \A i \in 1 .. l : q[i] \in S
    BY <1>1
  <2>2. \A j \in 1 .. l - 1 : a[j] \in S
    BY <1>7, <2>1, <1>3
  <2>3. DOMAIN a = 1 .. l - 1 /\ a = [j \in 1 .. l - 1 |-> a[j]]
    BY <1>4
  <2>4. a \in [1 .. l - 1 -> S]
    BY <2>2, <2>3
  <2> QED BY <1>6, <2>3, <2>4, SeqDef, LenProperties
<1>9. Once(a)
  <2> SUFFICES ASSUME NEW i \in 1 .. l - 1, NEW j \in 1 .. l - 1, a[i] = a[j] PROVE i = j
    BY <1>8 DEF Once
  <2>1. \A u, v \in 1 .. l : q[u] = q[v] => u = v
    BY <1>1 DEF Once
  <2>2. CASE i < k /\ j < k
    BY <1>7, <2>1, <2>2
  <2>3. CASE i < k /\ ~(j < k)
    BY <1>3, <1>7, <2>1, <2>3
  <2>4. CASE ~(i < k) /\ j < k
    BY <1>3, <1>7, <2>1, <2>4
  <2>5. CASE ~(i < k) /\ ~(j < k)
    BY <1>3, <1>7, <2>1, <2>5
  <2> QED BY <2>2, <2>3, <2>4, <2>5
<1>10. ASSUME NEW t PROVE In(t, a) <=> In(t, q) /\ t # x
  <2>1. \A u, v \in 1 .. l : q[u] = q[v] => u = v
    BY <1>1 DEF Once
  <2>2. ASSUME In(t, a) PROVE In(t, q) /\ t # x
    <3>1. PICK j \in 1 .. l - 1 : a[j] = t
      BY <1>8, <2>2 DEF In
    <3>2. CASE j < k
      BY <1>1, <1>3, <1>7, <2>1, <3>1, <3>2 DEF In
    <3>3. CASE ~(j < k)
      BY <1>1, <1>3, <1>7, <2>1, <3>1, <3>3 DEF In
    <3> QED BY <3>2, <3>3
  <2>3. ASSUME In(t, q), t # x PROVE In(t, a)
    <3>1. PICK i \in 1 .. l : q[i] = t
      BY <1>1, <2>3 DEF In
    <3>2. CASE i < k
      <4>1. i \in 1 .. l - 1 /\ a[i] = t
        BY <1>3, <1>7, <3>1, <3>2
      <4> QED BY <1>8, <4>1 DEF In
    <3>3. CASE i > k
      <4>1. i - 1 \in 1 .. l - 1 /\ ~(i - 1 < k) /\ (i - 1) + 1 = i
        BY <1>3, <3>3
      <4>2. a[i - 1] = t
        BY <1>7, <3>1, <4>1
      <4> QED BY <1>8, <4>1, <4>2 DEF In
    <3> QED BY <1>3, <2>3, <3>1, <3>2, <3>3
  <2> QED BY <2>2, <2>3
<1> QED BY <1>1, <1>5, <1>6, <1>8, <1>9, <1>10

\* The first k entries leave.
LEMMA OnceDrop ==
  ASSUME NEW S, NEW q \in Seq(S), NEW k \in 0 .. Len(q)
  PROVE  /\ SubSeq(q, k + 1, Len(q)) \in Seq(S) /\ SubSeq(q, 1, k) \in Seq(S)
         /\ Len(SubSeq(q, k + 1, Len(q))) = Len(q) - k /\ Len(SubSeq(q, 1, k)) = k
         /\ \A i \in 1 .. k : SubSeq(q, 1, k)[i] = q[i]
         /\ \A i \in 1 .. Len(q) - k : SubSeq(q, k + 1, Len(q))[i] = q[k + i]
         /\ \A t : In(t, SubSeq(q, k + 1, Len(q))) => In(t, q)
         /\ Once(q) => /\ Once(SubSeq(q, k + 1, Len(q)))
                       /\ \A i \in 1 .. k : ~In(q[i], SubSeq(q, k + 1, Len(q)))
<1>1. PICK l \in Nat : l = Len(q) /\ DOMAIN q = 1 .. l
  OBVIOUS
<1>2. PICK a, b : a = SubSeq(q, k + 1, l) /\ b = SubSeq(q, 1, k)
  OBVIOUS
<1>3. k \in Nat /\ k <= l
  BY <1>1
<1>4. /\ b \in Seq(S) /\ Len(b) = k /\ \A i \in 1 .. k : b[i] = q[i]
  BY <1>1, <1>2, <1>3
<1>5. /\ a \in Seq(S) /\ Len(a) = l - k /\ DOMAIN a = 1 .. l - k
      /\ \A i \in 1 .. l - k : a[i] = q[k + i]
  <2>1. a \in Seq(S) /\ Len(a) = l - k
    BY <1>1, <1>2, <1>3, SubSeqProperties
  <2>2. ASSUME NEW i \in 1 .. l - k PROVE a[i] = q[k + i]
    <3>1. a[i] = q[(k + 1) + i - 1]
      BY <1>1, <1>2, <1>3, SubSeqProperties
    <3>2. (k + 1) + i - 1 = k + i
      BY <1>3
    <3> QED BY <3>1, <3>2
  <2> QED BY <2>1, <2>2
<1>6. \A i \in 1 .. l - k : k + i \in 1 .. l
  BY <1>3
<1>7. \A t : In(t, a) => In(t, q)
  BY <1>1, <1>5, <1>6 DEF In
<1>8. ASSUME Once(q) PROVE Once(a) /\ \A i \in 1 .. k : ~In(q[i], a)
  <2>1. \A u, v \in 1 .. l : q[u] = q[v] => u = v
    BY <1>1, <1>8 DEF Once
  <2>2. ASSUME NEW i \in 1 .. l - k, NEW j \in 1 .. l - k, a[i] = a[j] PROVE i = j
    <3>1. k + i = k + j
      BY <1>5, <1>6, <2>1, <2>2
    <3> QED BY <1>3, <3>1
  <2>3. ASSUME NEW i \in 1 .. k, NEW j \in 1 .. l - k, a[j] = q[i] PROVE FALSE
    <3>1. i \in 1 .. l /\ k + j # i
      BY <1>3
    <3> QED BY <1>5, <1>6, <2>1, <2>3, <3>1
  <2> QED BY <1>5, <2>2, <2>3 DEF Once, In
<1> QED BY <1>1, <1>2, <1>4, <1>5, <1>7, <1>8

\* The first k entries go to the end.
Rotate(q, k) == SubSeq(q, k + 1, Len(q)) \o SubSeq(q, 1, k)

LEMMA OnceRotate ==
  ASSUME NEW S, NEW q \in Seq(S), NEW k \in 0 .. Len(q)
  PROVE  /\ Rotate(q, k) \in Seq(S)
         /\ \A t : In(t, Rotate(q, k)) <=> In(t, q)
         /\ Once(q) => Once(Rotate(q, k))
<1>1. PICK l \in Nat : l = Len(q) /\ DOMAIN q = 1 .. l
  OBVIOUS
<1>2. k \in Nat /\ k <= l
  BY <1>1
<1>3. PICK m \in Nat : m = l - k /\ m + k = l
  BY <1>2
<1>4. PICK z \in Seq(S) :
        /\ z = Rotate(q, k) /\ DOMAIN z = 1 .. l
        /\ \A i \in 1 .. m : z[i] = q[k + i]
        /\ \A i \in 1 .. k : z[m + i] = q[i]
  <2>1. PICK a, b : a = SubSeq(q, k + 1, Len(q)) /\ b = SubSeq(q, 1, k)
    OBVIOUS
  <2>2. a \in Seq(S) /\ b \in Seq(S) /\ Len(a) = m /\ Len(b) = k
    BY <1>1, <1>3, <2>1, OnceDrop
  <2>3. \A i \in 1 .. k : b[i] = q[i]
    BY <2>1, OnceDrop
  <2>4. \A i \in 1 .. m : a[i] = q[k + i]
    BY <1>1, <1>3, <2>1, OnceDrop
  <2>5. a \o b \in Seq(S) /\ Len(a \o b) = l
    BY <1>3, <2>2
  <2>6. DOMAIN (a \o b) = 1 .. l
    BY <2>5
  <2>7. ASSUME NEW i \in 1 .. m PROVE (a \o b)[i] = q[k + i]
    <3>1. (a \o b)[i] = a[i]
      BY <2>2
    <3> QED BY <2>4, <3>1
  <2>8. ASSUME NEW i \in 1 .. k PROVE (a \o b)[m + i] = q[i]
    <3>1. (a \o b)[m + i] = b[i]
      BY <2>2
    <3> QED BY <2>3, <3>1
  <2> QED BY <2>1, <2>5, <2>6, <2>7, <2>8 DEF Rotate
<1>5. ASSUME NEW t PROVE In(t, z) <=> In(t, q)
  <2>1. ASSUME In(t, z) PROVE In(t, q)
    <3>1. PICK i \in 1 .. l : z[i] = t
      BY <1>4, <2>1 DEF In
    <3>2. PICK j \in 1 .. l : z[i] = q[j]
      <4>1. CASE i <= m
        <5>1. k + i \in 1 .. l /\ i \in 1 .. m
          BY <1>3, <4>1
        <5> QED BY <1>4, <5>1
      <4>2. CASE ~(i <= m)
        <5>1. PICK j \in 1 .. k : i = m + j /\ j \in 1 .. l
          BY <1>3, <4>2
        <5> QED BY <1>4, <5>1
      <4> QED BY <4>1, <4>2
    <3> QED BY <1>1, <3>1, <3>2 DEF In
  <2>2. ASSUME In(t, q) PROVE In(t, z)
    <3>1. PICK j \in 1 .. l : q[j] = t
      BY <1>1, <2>2 DEF In
    <3>2. CASE j > k
      <4>1. PICK i \in 1 .. m : k + i = j /\ i \in 1 .. l
        BY <1>3, <3>2
      <4> QED BY <1>4, <3>1, <4>1 DEF In
    <3>3. CASE ~(j > k)
      <4>1. m + j \in 1 .. l /\ j \in 1 .. k
        BY <1>3, <3>3
      <4> QED BY <1>4, <3>1, <4>1 DEF In
    <3> QED BY <3>2, <3>3
  <2> QED BY <2>1, <2>2
<1>6. ASSUME Once(q) PROVE Once(z)
  <2>1. \A u, v \in 1 .. l : q[u] = q[v] => u = v
    BY <1>1, <1>6 DEF Once
  <2>2. \A i \in 1 .. l : \E u \in 1 .. l :
          z[i] = q[u] /\ (i <= m => u = k + i) /\ (i > m => m + u = i)
    <3> SUFFICES ASSUME NEW i \in 1 .. l
                 PROVE  \E u \in 1 .. l :
                          z[i] = q[u] /\ (i <= m => u = k + i) /\ (i > m => m + u = i)
      OBVIOUS
    <3>1. CASE i <= m
      <4>1. k + i \in 1 .. l /\ i \in 1 .. m
        BY <1>3, <3>1
      <4>2. z[i] = q[k + i]
        BY <1>4, <4>1
      <4> QED BY <3>1, <4>1, <4>2
    <3>2. CASE i > m
      <4>1. PICK j \in 1 .. k : m + j = i /\ j \in 1 .. l
        BY <1>3, <3>2
      <4>2. z[i] = q[j]
        BY <1>4, <4>1
      <4> QED BY <3>2, <4>1, <4>2
    <3> QED BY <3>1, <3>2
  <2>3. ASSUME NEW i \in 1 .. l, NEW j \in 1 .. l, z[i] = z[j] PROVE i = j
    <3>1. PICK u \in 1 .. l : z[i] = q[u] /\ (i <= m => u = k + i) /\ (i > m => m + u = i)
      BY <2>2
    <3>2. PICK v \in 1 .. l : z[j] = q[v] /\ (j <= m => v = k + j) /\ (j > m => m + v = j)
      BY <2>2
    <3>3. u = v
      BY <2>1, <2>3, <3>1, <3>2
    <3> QED BY <1>3, <3>1, <3>2, <3>3
  <2> QED BY <1>4, <2>3 DEF Once
<1> QED BY <1>4, <1>5, <1>6

---------------------------------------------------------------------------
(* Entries in the lists.                                                   *)

LEMMA NamesFinite == IsFiniteSet(Names) /\ Counted \subseteq Names
<1>1. IsFiniteSet({"read"})
  BY FS_Singleton
<1>2. IsFiniteSet({"read"} \cup {"write"})
  BY <1>1, FS_AddElement
<1>3. IsFiniteSet({"read"} \cup {"write"} \cup {"accept"})
  BY <1>2, FS_AddElement
<1>4. IsFiniteSet({"read"} \cup {"write"} \cup {"accept"} \cup {"closed"})
  BY <1>3, FS_AddElement
<1>5. {"read"} \cup {"write"} \cup {"accept"} \cup {"closed"} = Names
  BY DEF Names
<1> QED BY <1>4, <1>5, Zenon DEF Names, Counted

LEMMA FlagsCount ==
  ASSUME NEW P \in SUBSET Names
  PROVE  IsFiniteSet(P) /\ Cardinality(P) \in Nat
  BY NamesFinite, FS_Subset, FS_CardinalityType

\* At most one entry for each list.
Single(E) == \A e, f \in E : e[1] = f[1] => e = f

Entries(W, s) == {f \in W : f[2] = s}
Named(P, W, s) == P \cup {e[1] : e \in Entries(W, s)}

LEMMA Grows ==
  ASSUME NEW P \in SUBSET Names, NEW W \in SUBSET (Names \X Slots), NEW s \in Slots
  PROVE  /\ Cardinality(Entries(W, s)) \in Nat
         /\ Cardinality(Named(P, W, s)) <= Cardinality(P) + Cardinality(Entries(W, s))
<1>1. PICK F : F = Entries(W, s)
  OBVIOUS
<1>2. PICK N : N = {e[1] : e \in F}
  OBVIOUS
<1>3. IsFiniteSet(F) /\ Cardinality(F) \in Nat
  <2>1. IsFiniteSet(Slots)
    BY AppGlueAssumption, FS_Interval DEF Slots
  <2>2. IsFiniteSet(Names \X Slots)
    BY <2>1, NamesFinite, FS_Product
  <2>3. F \in SUBSET (Names \X Slots)
    BY <1>1 DEF Entries
  <2>4. IsFiniteSet(F)
    BY <2>2, <2>3, FS_Subset
  <2> QED BY <2>4, FS_CardinalityType
<1>4. N \subseteq Names
  BY <1>1, <1>2 DEF Entries
<1>5. Cardinality(N) <= Cardinality(F)
  <2>1. PICK g : g = [e \in F |-> e[1]]
    OBVIOUS
  <2>2. g \in Surjection(F, N)
    BY <1>2, <2>1 DEF Surjection
  <2> QED BY <1>3, <2>2, FS_Surjection
<1>6. Cardinality(P \cup N) <= Cardinality(P) + Cardinality(N)
  <2>1. IsFiniteSet(P) /\ IsFiniteSet(N) /\ Cardinality(P) \in Nat /\ Cardinality(N) \in Nat
    BY <1>4, FlagsCount
  <2>2. P \cap N \in SUBSET Names
    BY <1>4
  <2>3. Cardinality(P \cap N) \in Nat
    BY <2>2, FlagsCount
  <2>4. Cardinality(P \cup N) = Cardinality(P) + Cardinality(N) - Cardinality(P \cap N)
    BY <2>1, FS_Union
  <2> QED BY <2>1, <2>3, <2>4
<1>7. Named(P, W, s) = P \cup N
  BY <1>1, <1>2 DEF Named
<1>8. Cardinality(P) \in Nat /\ Cardinality(N) \in Nat /\ Cardinality(P \cup N) \in Nat
  <2>1. P \cup N \in SUBSET Names
    BY <1>4
  <2> QED BY <1>4, <2>1, FlagsCount
<1>9. Cardinality(P \cup N) <= Cardinality(P) + Cardinality(F)
  BY <1>3, <1>5, <1>6, <1>8
<1> QED BY <1>1, <1>3, <1>7, <1>9, Zenon

\* What Enlist does: the new entries are made at the ends of the lists, with a
\* flag and at least one reference each.
LEMMA EnlistKeeps ==
  ASSUME TypeOK, ListsSound, LensSound, NEW E \in SUBSET (Names \X Slots), Single(E), Enlist(E)
  PROVE  /\ present' \in [Slots -> SUBSET Names] /\ lists' \in [Names -> Seq(Slots)]
         /\ len' \in [Counted -> Nat] /\ refs' \in [Slots -> Int]
         /\ ListsSound' /\ LensSound'
         /\ \A n \in Names, s \in Slots : n \in present'[s] <=> n \in present[s] \/ <<n, s>> \in E
         /\ \A s \in Slots : refs'[s] + Flags(s) >= refs[s] + Flags(s)'
<1>1. PICK W : W = {e \in E : e[1] \notin present[e[2]]}
  OBVIOUS
<1>2. /\ present' = [s \in Slots |-> present[s] \cup {e[1] : e \in {f \in W : f[2] = s}}]
      /\ lists' = [n \in Names |-> lists[n] \o
                   (IF \E s \in Slots : <<n, s>> \in W
                    THEN <<CHOOSE s \in Slots : <<n, s>> \in W>> ELSE <<>>)]
      /\ refs' = [s \in Slots |-> refs[s] + Cardinality({e \in W : e[2] = s})]
      /\ len' = [n \in Counted |-> len[n] + Cardinality({e \in W : e[1] = n})]
  BY <1>1, Zenon DEF Enlist
<1>3. /\ W \in SUBSET (Names \X Slots)
      /\ \A n \in Names, s \in Slots : <<n, s>> \in W <=> <<n, s>> \in E /\ n \notin present[s]
      /\ \A e, f \in W : e[1] = f[1] => e = f
  BY <1>1 DEF Single
<1>4. /\ present \in [Slots -> SUBSET Names] /\ lists \in [Names -> Seq(Slots)]
      /\ len \in [Counted -> Nat] /\ refs \in [Slots -> Int]
  BY DEF TypeOK
<1>5. \A n \in Names, s \in Slots : n \in present'[s] <=> n \in present[s] \/ <<n, s>> \in W
  <2> SUFFICES ASSUME NEW n \in Names, NEW s \in Slots
               PROVE  n \in present'[s] <=> n \in present[s] \/ <<n, s>> \in W
    OBVIOUS
  <2>1. present'[s] = present[s] \cup {e[1] : e \in {f \in W : f[2] = s}}
    BY <1>2
  <2>2. n \in {e[1] : e \in {f \in W : f[2] = s}} <=> <<n, s>> \in W
    <3>1. ASSUME NEW e \in W, e[2] = s, e[1] = n PROVE <<n, s>> \in W
      <4>1. e = <<e[1], e[2]>>
        BY <1>3
      <4> QED BY <3>1, <4>1
    <3>2. ASSUME <<n, s>> \in W PROVE \E e \in W : e[2] = s /\ e[1] = n
      BY <3>2
    <3> QED BY <3>1, <3>2
  <2> QED BY <2>1, <2>2
<1>6. present' \in [Slots -> SUBSET Names]
  <2>1. \A s \in Slots : {e[1] : e \in {f \in W : f[2] = s}} \subseteq Names
    BY <1>3
  <2> QED BY <1>2, <1>4, <2>1
<1>7. ASSUME NEW n \in Names, NEW x \in Slots, <<n, x>> \in W
      PROVE  /\ lists'[n] = Append(lists[n], x)
             /\ \A t \in Slots : <<n, t>> \in W => t = x
             /\ {e \in W : e[1] = n} = {<<n, x>>}
  <2>1. ASSUME NEW t \in Slots, <<n, t>> \in W PROVE t = x
    <3>1. <<n, t>> = <<n, x>>
      BY <1>3, <1>7, <2>1
    <3> QED BY <3>1
  <2>2. (CHOOSE s \in Slots : <<n, s>> \in W) = x
    <3>1. \E s \in Slots : <<n, s>> \in W
      BY <1>7
    <3>2. PICK y : y = CHOOSE s \in Slots : <<n, s>> \in W
      OBVIOUS
    <3>3. y \in Slots /\ <<n, y>> \in W
      BY <3>1, <3>2
    <3> QED BY <2>1, <3>2, <3>3
  <2>3. lists'[n] = lists[n] \o <<x>>
    BY <1>2, <1>7, <2>2
  <2>4. lists[n] \o <<x>> = Append(lists[n], x)
    BY <1>4, AppendIsConcat
  <2>5. ASSUME NEW e \in W, e[1] = n PROVE e = <<n, x>>
    BY <1>3, <1>7, <2>5
  <2>6. {e \in W : e[1] = n} = {<<n, x>>}
    BY <1>7, <2>5
  <2> QED BY <2>1, <2>3, <2>4, <2>6
<1>8. ASSUME NEW n \in Names, ~ \E s \in Slots : <<n, s>> \in W
      PROVE  lists'[n] = lists[n] /\ {e \in W : e[1] = n} = {}
  <2>1. lists'[n] = lists[n] \o <<>>
    BY <1>2, <1>8
  <2>2. lists[n] \o <<>> = lists[n]
    BY <1>4
  <2>3. ASSUME NEW e \in W, e[1] = n PROVE FALSE
    <3>1. e = <<e[1], e[2]>> /\ e[2] \in Slots
      BY <1>3
    <3> QED BY <1>8, <2>3, <3>1
  <2> QED BY <2>1, <2>2, <2>3
<1>9. ASSUME NEW n \in Names
      PROVE  /\ lists'[n] \in Seq(Slots) /\ ListSound(n)'
             /\ n \in Counted => len'[n] \in Nat /\ len'[n] = Len(lists'[n])
  <2>1. PICK q \in Seq(Slots) : q = lists[n] /\ Once(q)
                                /\ \A s \in Slots : In(s, q) <=> n \in present[s]
    BY <1>4 DEF ListsSound, ListSound
  <2>2. PICK l \in Nat : l = Len(q)
    OBVIOUS
  <2>3. n \in Counted => len[n] = l /\ len'[n] = len[n] + Cardinality({e \in W : e[1] = n})
    BY <1>2, <2>1, <2>2 DEF LensSound
  <2>4. CASE \E s \in Slots : <<n, s>> \in W
    <3>1. PICK x \in Slots : <<n, x>> \in W
      BY <2>4
    <3>2. PICK a : a = Append(q, x)
      OBVIOUS
    <3>3. lists'[n] = a /\ \A t \in Slots : <<n, t>> \in W => t = x
      BY <1>7, <2>1, <3>1, <3>2
    <3>4. Cardinality({e \in W : e[1] = n}) = 1
      BY <1>7, <3>1, FS_Singleton
    <3>5. ~In(x, q)
      BY <1>3, <2>1, <3>1
    <3>6. a \in Seq(Slots) /\ Len(a) = l + 1 /\ Once(a) /\ \A t : In(t, a) <=> In(t, q) \/ t = x
      BY <2>1, <2>2, <3>2, <3>5, OnceAppend
    <3>7. \A s \in Slots : In(s, a) <=> n \in present'[s]
      BY <1>5, <2>1, <3>1, <3>3, <3>6
    <3>8. n \in Counted => len'[n] = l + 1
      BY <2>3, <3>4
    <3> QED BY <3>3, <3>6, <3>7, <3>8 DEF ListSound
  <2>5. CASE ~ \E s \in Slots : <<n, s>> \in W
    <3>1. lists'[n] = q /\ Cardinality({e \in W : e[1] = n}) = 0
      BY <1>8, <2>1, <2>5, FS_EmptySet
    <3>2. \A s \in Slots : In(s, q) <=> n \in present'[s]
      BY <1>5, <2>1, <2>5
    <3>3. n \in Counted => len'[n] = l
      BY <2>3, <3>1
    <3> QED BY <2>1, <2>2, <3>1, <3>2, <3>3 DEF ListSound
  <2> QED BY <2>4, <2>5
<1>10. lists' \in [Names -> Seq(Slots)]
  <2>1. DOMAIN lists' = Names /\ lists' = [n \in Names |-> lists'[n]]
    BY <1>2
  <2> QED BY <1>9, <2>1
<1>11. len' \in [Counted -> Nat]
  <2>1. \A n \in Counted : len'[n] \in Nat
    BY <1>9, NamesFinite
  <2>2. len' = [n \in Counted |-> len'[n]]
    BY <1>2
  <2> QED BY <2>1, <2>2
<1>12. ASSUME NEW s \in Slots
       PROVE  refs'[s] \in Int /\ refs'[s] + Flags(s) >= refs[s] + Flags(s)'
  <2>1. PICK P \in SUBSET Names, Q \in SUBSET Names : P = present[s] /\ Q = present'[s]
    BY <1>4, <1>6
  <2>2. Q = Named(P, W, s) /\ {f \in W : f[2] = s} = Entries(W, s)
    BY <1>2, <2>1 DEF Named, Entries
  <2>3. /\ Cardinality(Entries(W, s)) \in Nat
        /\ Cardinality(Q) <= Cardinality(P) + Cardinality(Entries(W, s))
    BY <1>3, <2>2, Grows
  <2>4. Cardinality(P) \in Nat /\ Cardinality(Q) \in Nat
    BY FlagsCount
  <2>5. PICK k \in Nat, p \in Nat, p2 \in Nat :
          k = Cardinality(Entries(W, s)) /\ p = Cardinality(P) /\ p2 = Cardinality(Q)
    BY <2>3, <2>4
  <2>6. PICK r \in Int : r = refs[s]
    BY <1>4
  <2>7. refs'[s] = r + k /\ p2 <= p + k
    BY <1>2, <2>2, <2>3, <2>5, <2>6
  <2>8. Flags(s) = p /\ Flags(s)' = p2
    BY <2>1, <2>5 DEF Flags
  <2> QED BY <2>6, <2>7, <2>8
<1>13. refs' \in [Slots -> Int]
  <2>1. refs' = [s \in Slots |-> refs'[s]]
    BY <1>2
  <2> QED BY <1>12, <2>1
<1>14. ListsSound' /\ LensSound'
  BY <1>9, NamesFinite DEF ListsSound, LensSound
<1>15. \A n \in Names, s \in Slots : n \in present'[s] <=> n \in present[s] \/ <<n, s>> \in E
  BY <1>3, <1>5
<1> QED BY <1>6, <1>10, <1>11, <1>12, <1>13, <1>14, <1>15

---------------------------------------------------------------------------
(* The callbacks.                                                          *)

\* The socket is not freed, allocated or taken back from a reset.
SameKind(s) ==
  /\ state'[s] = "freed" <=> state[s] = "freed"
  /\ state[s] = "reset" => state'[s] = "reset"

LEMMA Typed ==
  ASSUME TypeOK, NEW s \in Slots
  PROVE  /\ state[s] \in States /\ refs[s] \in Int /\ present[s] \in SUBSET Names
         /\ Flags(s) \in Nat /\ Own(s) \in Nat
<1>1. state[s] \in States /\ refs[s] \in Int /\ present[s] \in SUBSET Names
  BY DEF TypeOK, States
<1>2. Flags(s) \in Nat
  BY <1>1, FlagsCount DEF Flags
<1> QED BY <1>1, <1>2 DEF Own

\* Entries for sockets that are not freed, in the closed list for those reset.
LEMMA CallbackKeeps ==
  ASSUME GlueInv, fault = "none", NEW E \in SUBSET (Names \X Slots), Single(E), Enlist(E),
         state' \in [Slots -> States], \A s \in Slots : SameKind(s), OneListener',
         \A n \in Names, s \in Slots :
           <<n, s>> \in E => state'[s] # "freed" /\ (n = "closed" => state'[s] = "reset"),
         noSpace' \subseteq Slots, pending' \in 0 .. MaxPending,
         UNCHANGED <<pool, user, child, apps, fatal, phase, limit, fault>>
  PROVE  GlueInv'
<1>1. TypeOK /\ Sound
  BY DEF GlueInv
<1>2. /\ present' \in [Slots -> SUBSET Names] /\ lists' \in [Names -> Seq(Slots)]
      /\ len' \in [Counted -> Nat] /\ refs' \in [Slots -> Int]
      /\ ListsSound' /\ LensSound'
      /\ \A n \in Names, s \in Slots : n \in present'[s] <=> n \in present[s] \/ <<n, s>> \in E
      /\ \A s \in Slots : refs'[s] + Flags(s) >= refs[s] + Flags(s)'
  BY <1>1, EnlistKeeps DEF Sound
<1>3. TypeOK'
  BY <1>1, <1>2 DEF TypeOK, States, apps
<1>4. ASSUME NEW s \in Slots PROVE HeldSound(s)'
  <2>1. Own(s)' = Own(s)
    BY DEF Own, SameKind
  <2>2. PICK r \in Int, r2 \in Int, p \in Nat, p2 \in Nat, o \in Nat :
          r = refs[s] /\ r2 = refs'[s] /\ p = Flags(s) /\ p2 = Flags(s)' /\ o = Own(s)
    <3>1. Flags(s)' \in Nat
      BY <1>2, FlagsCount DEF Flags
    <3> QED BY <1>1, <1>2, <3>1, Typed
  <2>3. r >= p + o /\ r2 + p >= r + p2
    BY <1>1, <1>2, <2>2 DEF Sound, HeldSound
  <2>4. r2 >= p2 + o
    BY <2>3
  <2> QED BY <2>1, <2>2, <2>4 DEF HeldSound
<1>5. ASSUME NEW s \in Slots PROVE SlotSound(s)'
  <2>1. SlotSound(s) /\ SameKind(s)
    BY <1>1 DEF Sound
  <2>2. "closed" \in present'[s] => state'[s] = "reset"
    BY <1>2, <2>1 DEF SlotSound, SameKind, Names
  <2>3. ASSUME Wanted(s)', s \notin fatal' PROVE state'[s] # "freed"
    <3>1. Attached(s)' = Attached(s) /\ handed' = handed /\ fatal' = fatal
      BY DEF Attached, apps
    <3>2. CASE Wanted(s)
      BY <2>1, <2>3, <3>1, <3>2 DEF SlotSound, SameKind
    <3>3. CASE ~Wanted(s)
      <4>1. PICK n \in Names : n \in present'[s]
        BY <1>2, <2>3, <3>1, <3>3 DEF Wanted
      <4>2. <<n, s>> \in E
        BY <1>2, <3>3, <4>1 DEF Wanted
      <4> QED BY <4>2
    <3> QED BY <3>2, <3>3
  <2> QED BY <2>2, <2>3 DEF SlotSound
<1>6. PoolSound'
  BY <1>1 DEF Sound, PoolSound, SameKind
<1>7. \A c \in Conns : ConnSound(c)'
  BY <1>1 DEF Sound, ConnSound, apps
<1>8. fault' = "none"
  OBVIOUS
<1> QED BY <1>2, <1>3, <1>4, <1>5, <1>6, <1>7, <1>8 DEF GlueInv, Sound

\* No list, socket or connection changes hands.
LEMMA QuietKeeps ==
  ASSUME GlueInv, fault = "none", TypeOK', \A s \in Slots : SameKind(s), OneListener',
         fault' \in {fault, "stale"}, UNCHANGED <<pool, user, glue, table, handed, fatal>>
  PROVE  GlueInv'
<1>1. Sound
  BY DEF GlueInv
<1>2. ListsSound' /\ LensSound' /\ PoolSound'
  BY <1>1 DEF Sound, ListsSound, ListSound, LensSound, PoolSound, SameKind, glue
<1>3. ASSUME NEW s \in Slots PROVE HeldSound(s)' /\ SlotSound(s)'
  <2>1. Own(s)' = Own(s) /\ Flags(s)' = Flags(s) /\ Wanted(s)' = Wanted(s) /\ refs' = refs
    BY DEF Own, SameKind, Flags, Wanted, Attached, glue
  <2>2. HeldSound(s)'
    BY <1>1, <2>1 DEF Sound, HeldSound
  <2>3. SlotSound(s)'
    BY <1>1, <2>1 DEF Sound, SlotSound, SameKind, glue
  <2> QED BY <2>2, <2>3
<1>4. \A c \in Conns : ConnSound(c)'
  BY <1>1 DEF Sound, ConnSound
<1> QED BY <1>2, <1>3, <1>4 DEF GlueInv, Sound

\* A state change of one socket that is neither freed nor reset and does not listen.
LEMMA StateChange ==
  ASSUME TypeOK, OneListener, NEW s \in Slots, NEW x \in States,
         state[s] \notin {"freed", "reset"}, x \notin {"freed", "listen"},
         state' = [state EXCEPT ![s] = x]
  PROVE  /\ state' \in [Slots -> States] /\ \A t \in Slots : SameKind(t)
         /\ OneListener' /\ state'[s] = x /\ \A t \in Slots : t # s => state'[t] = state[t]
<1>1. state \in [Slots -> States]
  BY DEF TypeOK, States
<1>2. state' \in [Slots -> States] /\ state'[s] = x /\ \A t \in Slots : t # s => state'[t] = state[t]
  BY <1>1
<1>3. ASSUME NEW t \in Slots PROVE SameKind(t)
  BY <1>2 DEF SameKind
<1>4. OneListener'
  BY <1>2 DEF OneListener
<1> QED BY <1>2, <1>3, <1>4

LEMMA StateSame ==
  ASSUME TypeOK, OneListener, UNCHANGED state
  PROVE  state' \in [Slots -> States] /\ (\A t \in Slots : SameKind(t)) /\ OneListener'
  BY DEF TypeOK, States, SameKind, OneListener

\* The entries the callbacks make.
LEMMA OneEntry ==
  ASSUME NEW n \in Names, NEW s \in Slots
  PROVE  {<<n, s>>} \in SUBSET (Names \X Slots) /\ Single({<<n, s>>})
  BY DEF Single

LEMMA WakeupEntries ==
  ASSUME TypeOK, OneListener, NEW s \in Slots, state[s] # "listen"
  PROVE  /\ Wakeup(s) \in SUBSET (Names \X Slots) /\ Single(Wakeup(s))
         /\ {<<"closed", s>>} \cup Wakeup(s) \in SUBSET (Names \X Slots)
         /\ Single({<<"closed", s>>} \cup Wakeup(s))
         /\ \A n \in Names, t \in Slots : <<n, t>> \in Wakeup(s) =>
              n = "accept" /\ t # s /\ state[t] = "listen"
<1>1. PICK L : L = Listeners
  OBVIOUS
<1>2. L \subseteq Slots /\ (\A t \in L : state[t] = "listen" /\ t # s) /\ \A t, u \in L : t = u
  BY <1>1 DEF Listeners, OneListener
<1>3. Wakeup(s) = {"accept"} \X L \/ Wakeup(s) = {}
  BY <1>1 DEF Wakeup
<1>4. \A e \in Wakeup(s) : e[1] = "accept" /\ e[2] \in L /\ e = <<e[1], e[2]>>
  BY <1>3
<1>5. "accept" \in Names /\ "closed" \in Names
  BY DEF Names
<1>6. Wakeup(s) \in SUBSET (Names \X Slots)
  BY <1>2, <1>3, <1>5
<1>7. Single(Wakeup(s))
  <2> SUFFICES ASSUME NEW e \in Wakeup(s), NEW f \in Wakeup(s) PROVE e = f
    BY DEF Single
  <2>1. e[1] = f[1] /\ e[2] = f[2] /\ e = <<e[1], e[2]>> /\ f = <<f[1], f[2]>>
    BY <1>2, <1>4
  <2> QED BY <2>1, Zenon
<1>8. Single({<<"closed", s>>} \cup Wakeup(s))
  <2> SUFFICES ASSUME NEW e \in {<<"closed", s>>} \cup Wakeup(s),
                      NEW f \in {<<"closed", s>>} \cup Wakeup(s), e[1] = f[1]
               PROVE  e = f
    BY DEF Single
  <2>1. \A g \in Wakeup(s) : g[1] # "closed"
    BY <1>4
  <2>2. CASE e \in Wakeup(s) /\ f \in Wakeup(s)
    BY <1>7, <2>2 DEF Single
  <2>3. CASE e = <<"closed", s>> /\ f = <<"closed", s>>
    BY <2>3
  <2>4. CASE (e = <<"closed", s>> /\ f \in Wakeup(s)) \/ (f = <<"closed", s>> /\ e \in Wakeup(s))
    BY <2>1, <2>4
  <2> QED BY <2>2, <2>3, <2>4
<1>9. \A n \in Names, t \in Slots : <<n, t>> \in Wakeup(s) => n = "accept" /\ t \in L
  BY <1>4
<1>10. {<<"closed", s>>} \cup Wakeup(s) \in SUBSET (Names \X Slots)
  BY <1>5, <1>6
<1> QED BY <1>2, <1>6, <1>7, <1>8, <1>9, <1>10

LEMMA StepSockReadable ==
  ASSUME GlueInv, NEW s \in Slots, SockReadable(s)
  PROVE  GlueInv'
<1>1. /\ fault = "none" /\ state[s] \in {"est", "dgram"} /\ Enlist({<<"read", s>>})
      /\ UNCHANGED <<pool, state, user, child, noSpace, pending, apps, fatal, phase, limit>>
      /\ fault' = IF "read" \in present[s] /\ len["read"] = 0 THEN "exit" ELSE fault
  BY DEF SockReadable, Idle
<1>2. TypeOK /\ OneListener /\ Sound
  BY <1>1 DEF GlueInv
<1>3. "read" \in Names /\ "read" \in Counted
  BY DEF Names, Counted
<1>4. ~("read" \in present[s] /\ len["read"] = 0)
  <2> SUFFICES ASSUME "read" \in present[s], len["read"] = 0 PROVE FALSE
    OBVIOUS
  <2>1. PICK q \in Seq(Slots) : q = lists["read"]
    BY <1>2, <1>3 DEF TypeOK
  <2>2. In(s, q) /\ Len(q) = 0
    BY <1>2, <1>3, <2>1 DEF Sound, ListsSound, ListSound, LensSound
  <2> QED BY <2>2 DEF In
<1>5. UNCHANGED fault
  BY <1>1, <1>4
<1>6. state' \in [Slots -> States] /\ (\A t \in Slots : SameKind(t)) /\ OneListener'
  BY <1>1, <1>2, StateSame
<1>7. {<<"read", s>>} \in SUBSET (Names \X Slots) /\ Single({<<"read", s>>})
  BY <1>3, OneEntry
<1>8. \A n \in Names, t \in Slots :
        <<n, t>> \in {<<"read", s>>} => state'[t] # "freed" /\ (n = "closed" => state'[t] = "reset")
  BY <1>1
<1>9. noSpace' \subseteq Slots /\ pending' \in 0 .. MaxPending
  BY <1>1, <1>2 DEF TypeOK
<1> QED BY <1>1, <1>5, <1>6, <1>7, <1>8, <1>9, CallbackKeeps

LEMMA StepSockWriteSpace ==
  ASSUME GlueInv, NEW s \in Slots, SockWriteSpace(s)
  PROVE  GlueInv'
<1>1. /\ fault = "none" /\ state[s] \in {"est", "dgram"} /\ Enlist({<<"write", s>>})
      /\ noSpace' = noSpace \ {s}
      /\ UNCHANGED <<pool, state, user, child, pending, apps, fatal, phase, limit, fault>>
  BY DEF SockWriteSpace, Idle
<1>2. TypeOK /\ OneListener
  BY DEF GlueInv
<1>3. {<<"write", s>>} \in SUBSET (Names \X Slots) /\ Single({<<"write", s>>})
  BY OneEntry DEF Names
<1>4. state' \in [Slots -> States] /\ (\A t \in Slots : SameKind(t)) /\ OneListener'
  BY <1>1, <1>2, StateSame
<1>5. \A n \in Names, t \in Slots :
        <<n, t>> \in {<<"write", s>>} => state'[t] # "freed" /\ (n = "closed" => state'[t] = "reset")
  BY <1>1
<1>6. noSpace' \subseteq Slots /\ pending' \in 0 .. MaxPending
  BY <1>1, <1>2 DEF TypeOK
<1> QED BY <1>1, <1>3, <1>4, <1>5, <1>6, CallbackKeeps

LEMMA StepEstablished ==
  ASSUME GlueInv, NEW s \in Slots, Established(s)
  PROVE  GlueInv'
<1>1. /\ fault = "none" /\ state[s] = "syn" /\ Enlist({<<"write", s>>})
      /\ state' = [state EXCEPT ![s] = "est"]
      /\ UNCHANGED <<pool, user, child, noSpace, pending, apps, fatal, phase, limit, fault>>
  BY DEF Established, Idle
<1>2. TypeOK /\ OneListener
  BY DEF GlueInv
<1>3. {<<"write", s>>} \in SUBSET (Names \X Slots) /\ Single({<<"write", s>>})
  BY OneEntry DEF Names
<1>4. /\ state' \in [Slots -> States] /\ (\A t \in Slots : SameKind(t)) /\ OneListener'
      /\ state'[s] = "est"
  BY <1>1, <1>2, StateChange DEF States
<1>5. \A n \in Names, t \in Slots :
        <<n, t>> \in {<<"write", s>>} => state'[t] # "freed" /\ (n = "closed" => state'[t] = "reset")
  BY <1>4
<1>6. noSpace' \subseteq Slots /\ pending' \in 0 .. MaxPending
  BY <1>1, <1>2 DEF TypeOK
<1> QED BY <1>1, <1>3, <1>4, <1>5, <1>6, CallbackKeeps

LEMMA StepRefused ==
  ASSUME GlueInv, NEW s \in Slots, Refused(s)
  PROVE  GlueInv'
<1>1. /\ fault = "none" /\ state[s] = "syn" /\ state' = [state EXCEPT ![s] = "refused"]
      /\ UNCHANGED <<pool, user, child, noSpace, glue, pending, apps, fatal, phase, limit, fault>>
  BY DEF Refused, Idle
<1>2. TypeOK /\ OneListener
  BY DEF GlueInv
<1>3. /\ state' \in [Slots -> States] /\ (\A t \in Slots : SameKind(t)) /\ OneListener'
  BY <1>1, <1>2, StateChange DEF States
<1>4. TypeOK'
  BY <1>1, <1>2, <1>3 DEF TypeOK, States, glue, apps
<1> QED BY <1>1, <1>3, <1>4, QuietKeeps DEF apps

LEMMA StepNewConnection ==
  ASSUME GlueInv, NEW l \in Slots, NewConnection(l)
  PROVE  GlueInv'
<1>1. /\ fault = "none" /\ state[l] = "listen" /\ Enlist({<<"accept", l>>})
      /\ pending < MaxPending /\ pending' = pending + 1
      /\ UNCHANGED <<pool, state, user, child, noSpace, apps, fatal, phase, limit, fault>>
  BY DEF NewConnection, Idle, Listeners
<1>2. TypeOK /\ OneListener
  BY DEF GlueInv
<1>3. {<<"accept", l>>} \in SUBSET (Names \X Slots) /\ Single({<<"accept", l>>})
  BY OneEntry DEF Names
<1>4. state' \in [Slots -> States] /\ (\A t \in Slots : SameKind(t)) /\ OneListener'
  BY <1>1, <1>2, StateSame
<1>5. \A n \in Names, t \in Slots :
        <<n, t>> \in {<<"accept", l>>} => state'[t] # "freed" /\ (n = "closed" => state'[t] = "reset")
  BY <1>1
<1>6. noSpace' \subseteq Slots /\ pending' \in 0 .. MaxPending
  BY <1>1, <1>2, AppGlueAssumption DEF TypeOK
<1> QED BY <1>1, <1>3, <1>4, <1>5, <1>6, CallbackKeeps

LEMMA StepPeerCloses ==
  ASSUME GlueInv, NEW s \in Slots, PeerCloses(s)
  PROVE  GlueInv'
<1>1. /\ fault = "none" /\ state[s] = "est" /\ Enlist(Wakeup(s))
      /\ state' = [state EXCEPT ![s] = "fin"]
      /\ UNCHANGED <<pool, user, child, noSpace, pending, apps, fatal, phase, limit, fault>>
  BY DEF PeerCloses, Idle
<1>2. TypeOK /\ OneListener
  BY DEF GlueInv
<1>3. /\ state' \in [Slots -> States] /\ (\A t \in Slots : SameKind(t)) /\ OneListener'
      /\ \A t \in Slots : t # s => state'[t] = state[t]
  BY <1>1, <1>2, StateChange DEF States
<1>4. /\ Wakeup(s) \in SUBSET (Names \X Slots) /\ Single(Wakeup(s))
      /\ \A n \in Names, t \in Slots : <<n, t>> \in Wakeup(s) =>
           n = "accept" /\ t # s /\ state[t] = "listen"
  BY <1>1, <1>2, WakeupEntries
<1>5. \A n \in Names, t \in Slots :
        <<n, t>> \in Wakeup(s) => state'[t] # "freed" /\ (n = "closed" => state'[t] = "reset")
  BY <1>3, <1>4
<1>6. noSpace' \subseteq Slots /\ pending' \in 0 .. MaxPending
  BY <1>1, <1>2 DEF TypeOK
<1> QED BY <1>1, <1>3, <1>4, <1>5, <1>6, CallbackKeeps

LEMMA StepReset ==
  ASSUME GlueInv, NEW s \in Slots, Reset(s)
  PROVE  GlueInv'
<1>1. /\ fault = "none" /\ state[s] \in {"est", "fin"}
      /\ Enlist({<<"closed", s>>} \cup Wakeup(s)) /\ state' = [state EXCEPT ![s] = "reset"]
      /\ UNCHANGED <<pool, user, child, noSpace, pending, apps, fatal, phase, limit, fault>>
  BY DEF Reset, Idle
<1>2. TypeOK /\ OneListener
  BY DEF GlueInv
<1>3. /\ state' \in [Slots -> States] /\ (\A t \in Slots : SameKind(t)) /\ OneListener'
      /\ state'[s] = "reset" /\ \A t \in Slots : t # s => state'[t] = state[t]
  BY <1>1, <1>2, StateChange DEF States
<1>4. PICK E : E = {<<"closed", s>>} \cup Wakeup(s)
  OBVIOUS
<1>5. /\ E \in SUBSET (Names \X Slots) /\ Single(E)
      /\ \A n \in Names, t \in Slots : <<n, t>> \in Wakeup(s) =>
           n = "accept" /\ t # s /\ state[t] = "listen"
  BY <1>1, <1>2, <1>4, WakeupEntries
<1>6. \A n \in Names, t \in Slots :
        <<n, t>> \in E => state'[t] # "freed" /\ (n = "closed" => state'[t] = "reset")
  BY <1>3, <1>4, <1>5
<1>7. noSpace' \subseteq Slots /\ pending' \in 0 .. MaxPending
  BY <1>1, <1>2 DEF TypeOK
<1> QED BY <1>1, <1>3, <1>4, <1>5, <1>6, <1>7, CallbackKeeps

---------------------------------------------------------------------------
(* The commands.                                                           *)

\* A socket that is not referenced is in no list, attached to no connection and
\* not on its way to an application.
LEMMA NotWanted ==
  ASSUME TypeOK, ListsSound, NEW s \in Slots
  PROVE  Referenced(s) <=> Wanted(s)
<1>1. \A n \in Names : In(s, lists[n]) <=> n \in present[s]
  BY DEF ListsSound, ListSound
<1>2. Listed(s) = present[s]
  BY <1>1, Typed DEF Listed
<1> QED BY <1>2 DEF Referenced, Wanted

LEMMA StepCreate ==
  ASSUME GlueInv, NEW c \in Conns, NEW type \in {"new", "dgram"}, NEW sel \in BOOLEAN,
         Create(c, type, sel)
  PROVE  GlueInv'
<1>1. TypeOK /\ OneListener /\ Sound /\ fault = "none"
  BY DEF GlueInv, Create, Idle
<1>2. pool \in Seq(Slots) /\ pool # <<>> /\ table[c] = NULL
  BY <1>1 DEF TypeOK, Create
<1>3. PICK s \in Slots : s = Head(pool)
  BY <1>2
<1>4. PICK write \in BOOLEAN : write <=> type = "dgram"
  OBVIOUS
<1>5. /\ state' = [state EXCEPT ![s] = type] /\ user' = [user EXCEPT ![s] = c]
      /\ child' = child \ {s} /\ noSpace' = noSpace \ {s} /\ fatal' = fatal \ {s}
      /\ table' = [table EXCEPT ![c] = s]
      /\ pool' = Tail(pool) /\ selector' = [selector EXCEPT ![c] = sel]
      /\ reported' = reported \ {c} /\ lost' = lost \ {c}
      /\ UNCHANGED <<pending, handed, phase, limit>>
  BY <1>3 DEF Create
<1>6. /\ refs' = [refs EXCEPT ![s] = IF write THEN 2 ELSE 1]
      /\ present' = [present EXCEPT ![s] = IF write THEN {"write"} ELSE {}]
      /\ lists' = IF write THEN [lists EXCEPT !["write"] = Append(@, s)] ELSE lists
      /\ len' = IF write THEN [len EXCEPT !["write"] = @ + 1] ELSE len
  BY <1>3, <1>4 DEF Create
<1>7. fault' = IF Referenced(s) THEN "stale" ELSE fault
  BY <1>3 DEF Create, StaleIf, Dangles
<1>8. PICK q \in Seq(Slots) : q = lists["write"]
  BY <1>1 DEF TypeOK, Names
<1>9. /\ Append(q, s) \in Seq(Slots) /\ Len(Append(q, s)) = Len(q) + 1
      /\ \A t : In(t, Append(q, s)) <=> In(t, q) \/ t = s
      /\ Once(q) /\ ~In(s, q) => Once(Append(q, s))
  BY OnceAppend
<1>10. /\ lists \in [Names -> Seq(Slots)] /\ present \in [Slots -> SUBSET Names]
       /\ len \in [Counted -> Nat] /\ refs \in [Slots -> Int] /\ state \in [Slots -> States]
       /\ table \in [Conns -> Slots \cup {NULL}] /\ user \in [Slots -> Conns \cup {NONE}]
  BY <1>1 DEF TypeOK, States
<1>11. "write" \in Names /\ "write" \in Counted /\ type \in States /\ type # "freed"
       /\ type # "listen"
  BY DEF Names, Counted, States
<1>12. /\ lists' \in [Names -> Seq(Slots)] /\ present' \in [Slots -> SUBSET Names]
       /\ len' \in [Counted -> Nat] /\ refs' \in [Slots -> Int] /\ state' \in [Slots -> States]
  <2>1. lists' \in [Names -> Seq(Slots)]
    BY <1>6, <1>8, <1>9, <1>10, <1>11
  <2>2. present' \in [Slots -> SUBSET Names]
    BY <1>6, <1>10, <1>11
  <2>3. len' \in [Counted -> Nat]
    BY <1>6, <1>10, <1>11
  <2>4. refs' \in [Slots -> Int]
    BY <1>6, <1>10
  <2>5. state' \in [Slots -> States]
    BY <1>5, <1>10, <1>11
  <2> QED BY <2>1, <2>2, <2>3, <2>4, <2>5
<1>13. table' \in [Conns -> Slots \cup {NULL}] /\ user' \in [Slots -> Conns \cup {NONE}]
  BY <1>5, <1>10
<1>14. pool' \in Seq(Slots) /\ fault' \in {"none", "stale"}
  BY <1>1, <1>2, <1>5, <1>7, OnceTail
<1>15. TypeOK'
  <2>1. /\ child' \subseteq Slots /\ noSpace' \subseteq Slots /\ fatal' \subseteq Slots
        /\ pending' \in 0 .. MaxPending /\ selector' \in [Conns -> BOOLEAN]
        /\ handed' \subseteq Slots /\ reported' \subseteq Conns /\ lost' \subseteq Conns
        /\ phase' \in {"idle", "closed", "accept", "read", "write"} /\ limit' \in Nat
    BY <1>1, <1>5 DEF TypeOK
  <2> QED BY <1>12, <1>13, <1>14, <2>1 DEF TypeOK, States
<1>16. OneListener'
  BY <1>1, <1>5, <1>10, <1>11 DEF OneListener
<1>17. ASSUME fault' = "none" PROVE Sound'
  <2>1. ~Wanted(s)
    <3>1. ~Referenced(s)
      BY <1>7, <1>17
    <3> QED BY <1>1, <3>1, NotWanted DEF Sound
  <2>2. present[s] = {} /\ ~Attached(s) /\ s \notin handed
    BY <2>1 DEF Wanted
  <2>3. /\ present'[s] = IF write THEN {"write"} ELSE {}
        /\ refs'[s] = IF write THEN 2 ELSE 1
        /\ state'[s] = type
    BY <1>5, <1>6, <1>10
  <2>4. \A t \in Slots : t # s => present'[t] = present[t] /\ refs'[t] = refs[t]
                                  /\ state'[t] = state[t] /\ user'[t] = user[t]
    BY <1>5, <1>6, <1>10
  <2>5. ASSUME NEW n \in Names PROVE ListSound(n)'
    <3>1. ListSound(n)
      BY <1>1 DEF Sound, ListsSound
    <3>2. CASE write /\ n = "write"
      <4>1. lists'[n] = Append(q, s)
        BY <1>6, <1>8, <1>10, <3>2
      <4>2. Once(q) /\ \A t \in Slots : In(t, q) <=> n \in present[t]
        BY <1>8, <3>1, <3>2 DEF ListSound
      <4>3. ~In(s, q)
        BY <2>2, <4>2
      <4>4. \A t \in Slots : In(t, Append(q, s)) <=> n \in present'[t]
        BY <1>9, <2>3, <2>4, <3>2, <4>2
      <4> QED BY <1>9, <4>1, <4>2, <4>3, <4>4 DEF ListSound
    <3>3. CASE ~(write /\ n = "write")
      <4>1. lists'[n] = lists[n]
        BY <1>6, <1>10, <3>3
      <4>2. n \notin present'[s]
        BY <2>3, <3>3
      <4>3. \A t \in Slots : n \in present'[t] <=> n \in present[t]
        BY <2>2, <2>4, <4>2
      <4> QED BY <3>1, <4>1, <4>3 DEF ListSound
    <3> QED BY <3>2, <3>3
  <2>6. LensSound'
    <3> SUFFICES ASSUME NEW n \in Counted PROVE len'[n] = Len(lists'[n])
      BY DEF LensSound
    <3>1. len[n] = Len(lists[n]) /\ n \in Names
      BY <1>1, NamesFinite DEF Sound, LensSound
    <3>2. CASE write /\ n = "write"
      <4>1. lists'[n] = Append(q, s) /\ len'[n] = len[n] + 1 /\ len[n] = Len(q)
        BY <1>6, <1>8, <1>10, <3>1, <3>2
      <4> QED BY <1>9, <4>1
    <3>3. CASE ~(write /\ n = "write")
      <4>1. lists'[n] = lists[n] /\ len'[n] = len[n]
        BY <1>6, <1>10, <3>1, <3>3
      <4> QED BY <3>1, <4>1
    <3> QED BY <3>2, <3>3
  <2>7. ASSUME NEW t \in Slots PROVE HeldSound(t)'
    <3>1. CASE t = s
      <4>1. Own(t)' = 1 /\ Flags(t)' = IF write THEN 1 ELSE 0
        BY <1>11, <2>3, <3>1, FS_Singleton, FS_EmptySet DEF Own, Flags
      <4> QED BY <2>3, <3>1, <4>1 DEF HeldSound
    <3>2. CASE t # s
      <4>1. HeldSound(t) /\ Own(t)' = Own(t) /\ Flags(t)' = Flags(t) /\ refs'[t] = refs[t]
        BY <1>1, <2>4, <3>2 DEF Sound, Own, Flags
      <4> QED BY <4>1 DEF HeldSound
    <3> QED BY <3>1, <3>2
  <2>8. ASSUME NEW t \in Slots PROVE SlotSound(t)'
    <3>1. CASE t = s
      BY <1>11, <2>3, <3>1 DEF SlotSound
    <3>2. CASE t # s
      <4>1. Attached(t)' <=> Attached(t)
        <5>1. \A d \in Conns : table'[d] = t <=> table[d] = t
          BY <1>2, <1>5, <1>10, <3>2, AppGlueAssumption DEF NULL, Slots
        <5> QED BY <5>1 DEF Attached
      <4>2. (Wanted(t)' <=> Wanted(t)) /\ (t \in fatal' <=> t \in fatal) /\ SlotSound(t)
        BY <1>1, <1>5, <2>4, <3>2, <4>1 DEF Wanted, Sound
      <4> QED BY <2>4, <3>2, <4>2 DEF SlotSound
    <3> QED BY <3>1, <3>2
  <2>9. PoolSound'
    <3>1. /\ Once(Tail(pool)) /\ ~In(s, Tail(pool)) /\ \A t : In(t, Tail(pool)) => In(t, pool)
      BY <1>1, <1>2, <1>3, OnceTail DEF Sound, PoolSound
    <3>2. \A t \in Slots : In(t, pool) => state[t] = "freed"
      BY <1>1 DEF Sound, PoolSound
    <3> QED BY <1>5, <2>4, <3>1, <3>2 DEF PoolSound
  <2>10. ASSUME NEW d \in Conns PROVE ConnSound(d)'
    <3>1. CASE d = c
      BY <1>5, <1>10, <2>2, <3>1 DEF ConnSound
    <3>2. CASE d # c
      <4>1. table'[d] = table[d] /\ table[d] # s /\ ConnSound(d)
        BY <1>1, <1>5, <1>10, <2>2, <3>2 DEF Attached, Sound
      <4>2. table[d] # NULL => table[d] \in Slots /\ user'[table[d]] = user[table[d]]
        BY <1>10, <2>4, <4>1
      <4> QED BY <1>5, <4>1, <4>2 DEF ConnSound
    <3> QED BY <3>1, <3>2
  <2> QED BY <2>5, <2>6, <2>7, <2>8, <2>9, <2>10 DEF Sound, ListsSound
<1> QED BY <1>14, <1>15, <1>16, <1>17 DEF GlueInv

LEMMA StepConnect ==
  ASSUME GlueInv, NEW c \in Conns, Connect(c)
  PROVE  GlueInv'
<1>1. /\ fault = "none" /\ table[c] # NULL /\ state[table[c]] = "new"
      /\ state' = [state EXCEPT ![table[c]] = "syn"]
      /\ UNCHANGED <<pool, user, child, noSpace, glue, pending, apps, fatal, phase, limit, fault>>
  BY DEF Connect, Idle
<1>2. TypeOK /\ OneListener
  BY DEF GlueInv
<1>3. PICK s \in Slots : s = table[c]
  BY <1>1, <1>2 DEF TypeOK
<1>4. state' \in [Slots -> States] /\ (\A t \in Slots : SameKind(t)) /\ OneListener'
  BY <1>1, <1>2, <1>3, StateChange DEF States
<1>5. TypeOK'
  BY <1>1, <1>2, <1>4 DEF TypeOK, States, glue, apps
<1> QED BY <1>1, <1>4, <1>5, QuietKeeps DEF apps

LEMMA StepListen ==
  ASSUME GlueInv, NEW c \in Conns, Listen(c)
  PROVE  GlueInv'
<1>1. /\ fault = "none" /\ table[c] # NULL /\ state[table[c]] = "new" /\ Listeners = {}
      /\ state' = [state EXCEPT ![table[c]] = "listen"]
      /\ UNCHANGED <<pool, user, child, noSpace, glue, pending, apps, fatal, phase, limit, fault>>
  BY DEF Listen, Idle
<1>2. TypeOK /\ state \in [Slots -> States]
  BY DEF GlueInv, TypeOK, States
<1>3. PICK s \in Slots : s = table[c]
  BY <1>1, <1>2 DEF TypeOK
<1>4. /\ state' \in [Slots -> States] /\ state'[s] = "listen" /\ state[s] = "new"
      /\ \A t \in Slots : t # s => state'[t] = state[t]
  BY <1>1, <1>2, <1>3 DEF States
<1>5. \A t \in Slots : SameKind(t)
  BY <1>4 DEF SameKind
<1>6. OneListener'
  <2>1. \A t \in Slots : state'[t] = "listen" => t = s
    BY <1>1, <1>4 DEF Listeners
  <2> QED BY <2>1 DEF OneListener
<1>7. TypeOK'
  BY <1>1, <1>2, <1>4 DEF TypeOK, States, glue, apps
<1> QED BY <1>1, <1>5, <1>6, <1>7, QuietKeeps DEF apps

LEMMA StepSetSocketSelect ==
  ASSUME GlueInv, NEW c \in Conns, SetSocketSelect(c)
  PROVE  GlueInv'
<1>1. /\ fault = "none" /\ selector' = [selector EXCEPT ![c] = TRUE]
      /\ fault' \in {fault, "stale"}
      /\ UNCHANGED <<pool, state, user, child, noSpace, glue, pending, table, handed, reported,
                     lost, fatal, phase, limit>>
  BY DEF SetSocketSelect, Idle, StaleIf
<1>2. TypeOK /\ OneListener
  BY DEF GlueInv
<1>3. (\A t \in Slots : SameKind(t)) /\ OneListener'
  BY <1>1, <1>2, StateSame
<1>4. TypeOK'
  BY <1>1, <1>2 DEF TypeOK, glue
<1> QED BY <1>1, <1>3, <1>4, QuietKeeps

LEMMA StepKick ==
  ASSUME GlueInv, NEW c \in Conns, Kick(c)
  PROVE  GlueInv'
<1>1. /\ fault = "none" /\ table[c] # NULL /\ noSpace' \in {noSpace, noSpace \cup {table[c]}}
      /\ fault' \in {fault, "stale"}
      /\ UNCHANGED <<pool, state, user, child, glue, pending, apps, fatal, phase, limit>>
  BY DEF Kick, Idle, StaleIf
<1>2. TypeOK /\ OneListener
  BY DEF GlueInv
<1>3. (\A t \in Slots : SameKind(t)) /\ OneListener'
  BY <1>1, <1>2, StateSame
<1>4. noSpace' \subseteq Slots
  BY <1>1, <1>2 DEF TypeOK
<1>5. TypeOK'
  BY <1>1, <1>2, <1>4 DEF TypeOK, glue, apps
<1> QED BY <1>1, <1>3, <1>5, QuietKeeps DEF apps

LEMMA StepSetSocketRing ==
  ASSUME GlueInv, NEW c \in Conns, NEW s \in Slots, SetSocketRing(c, s)
  PROVE  GlueInv'
<1>1. /\ fault = "none" /\ s \in handed /\ table[c] = NULL
      /\ table' = [table EXCEPT ![c] = s] /\ user' = [user EXCEPT ![s] = c]
      /\ handed' = handed \ {s} /\ reported' = reported \ {c} /\ lost' = lost \ {c}
      /\ fault' \in {fault, "stale"}
      /\ UNCHANGED <<pool, state, child, noSpace, glue, pending, selector, fatal, phase, limit>>
  BY DEF SetSocketRing, Idle, StaleIf
<1>2. TypeOK /\ OneListener /\ Sound
  BY <1>1 DEF GlueInv
<1>3. /\ table \in [Conns -> Slots \cup {NULL}] /\ user \in [Slots -> Conns \cup {NONE}]
      /\ table' \in [Conns -> Slots \cup {NULL}] /\ user' \in [Slots -> Conns \cup {NONE}]
  BY <1>1, <1>2 DEF TypeOK
<1>4. TypeOK'
  BY <1>1, <1>2, <1>3 DEF TypeOK, glue
<1>5. OneListener'
  BY <1>1, <1>2 DEF OneListener
<1>6. ListsSound' /\ LensSound' /\ PoolSound'
  BY <1>1, <1>2 DEF Sound, ListsSound, ListSound, LensSound, PoolSound, glue
<1>7. ASSUME NEW t \in Slots PROVE HeldSound(t)' /\ SlotSound(t)'
  <2>1. /\ Own(t)' = Own(t) /\ Flags(t)' = Flags(t) /\ refs' = refs /\ present' = present
        /\ state' = state /\ fatal' = fatal
    BY <1>1 DEF Own, Flags, glue
  <2>2. HeldSound(t)'
    BY <1>2, <2>1 DEF Sound, HeldSound
  <2>3. ASSUME Wanted(t)' PROVE Wanted(t)
    <3>1. ASSUME Attached(t)' PROVE Wanted(t)
      <4>1. PICK d \in Conns : table'[d] = t
        BY <3>1 DEF Attached
      <4>2. CASE d = c
        BY <1>1, <1>3, <4>1, <4>2 DEF Wanted
      <4>3. CASE d # c
        BY <1>1, <1>3, <4>1, <4>3 DEF Wanted, Attached
      <4> QED BY <4>2, <4>3
    <3> QED BY <1>1, <2>1, <2>3, <3>1 DEF Wanted
  <2>4. SlotSound(t)'
    BY <1>2, <2>1, <2>3 DEF Sound, SlotSound
  <2> QED BY <2>2, <2>4
<1>8. ASSUME NEW d \in Conns PROVE ConnSound(d)'
  <2>1. CASE d = c
    BY <1>1, <1>3, <2>1 DEF ConnSound
  <2>2. CASE d # c
    <3>1. table'[d] = table[d] /\ ConnSound(d)
      BY <1>1, <1>2, <1>3, <2>2 DEF Sound
    <3>2. table[d] # NULL => table[d] # s /\ table[d] \in Slots
      BY <1>1, <1>3, <3>1 DEF ConnSound
    <3>3. table[d] # NULL => user'[table[d]] = user[table[d]]
      BY <1>1, <1>3, <3>2
    <3> QED BY <1>1, <3>1, <3>2, <3>3 DEF ConnSound
  <2> QED BY <2>1, <2>2
<1> QED BY <1>1, <1>4, <1>5, <1>6, <1>7, <1>8 DEF GlueInv, Sound

\* app_glue_close_socket of a socket that nobody refers to afterwards.
LEMMA CloseKeeps ==
  ASSUME GlueInv, fault = "none", NEW s \in Slots, CloseSocket(s),
         table' \in [Conns -> Slots \cup {NULL}], selector' \in [Conns -> BOOLEAN],
         handed' \subseteq handed, s \notin handed',
         \A c \in Conns : table'[c] # NULL => table'[c] = table[c] /\ table[c] # s,
         UNCHANGED <<reported, lost, fatal, phase, limit>>
  PROVE  GlueInv'
<1>1. TypeOK /\ OneListener /\ Sound
  BY DEF GlueInv
<1>2. /\ lists \in [Names -> Seq(Slots)] /\ present \in [Slots -> SUBSET Names]
      /\ len \in [Counted -> Nat] /\ refs \in [Slots -> Int] /\ state \in [Slots -> States]
      /\ user \in [Slots -> Conns \cup {NONE}] /\ pool \in Seq(Slots)
      /\ pending \in 0 .. MaxPending
  BY <1>1 DEF TypeOK, States
<1>3. /\ lists' = [n \in Names |-> IF n \in present[s]
                               THEN Unlink(lists[n], s) ELSE lists[n]]
      /\ len' = [n \in Counted |-> len[n] - (IF n \in present[s] THEN 1 ELSE 0)]
      /\ present' = [present EXCEPT ![s] = {}]
      /\ user' = [user EXCEPT ![s] = NONE]
      /\ child' = child \ {s} /\ noSpace' = noSpace \ {s}
      /\ pending' = IF state[s] = "listen" THEN 0 ELSE pending
      /\ state' = [state EXCEPT ![s] = "freed"]
  BY DEF CloseSocket, KernelClose
<1>4. PICK tried, freed :
        /\ tried = IF "accept" \in present[s] THEN DOMAIN pool \cap (1 .. pending + 1) ELSE {}
        /\ freed = IF state[s] = "freed" THEN <<>> ELSE <<s>>
        /\ fault' = IF SkFreed(s) \/ Dangles({pool[i] : i \in tried}) THEN "stale" ELSE fault
        /\ pool' = SubSeq(pool, Cardinality(tried) + 1, Len(pool))
                      \o SubSeq(pool, 1, Cardinality(tried)) \o freed
        /\ refs' = [refs EXCEPT ![s] = @ - 1]
  BY DEF CloseSocket, KernelClose, StaleIf
<1>5. fault' \in {"none", "stale"}
  BY <1>4
<1>6. PICK k \in 0 .. Len(pool) : k = Cardinality(tried)
  <2>1. PICK l \in Nat : l = Len(pool) /\ DOMAIN pool = 1 .. l
    BY <1>2
  <2>2. tried \in SUBSET (1 .. l)
    BY <1>4, <2>1
  <2>3. IsFiniteSet(1 .. l) /\ Cardinality(1 .. l) = IF 1 > l THEN 0 ELSE l - 1 + 1
    BY FS_Interval
  <2>4. Cardinality(1 .. l) = l
    BY <2>3
  <2>5. IsFiniteSet(tried) /\ Cardinality(tried) <= Cardinality(1 .. l)
    BY <2>2, <2>3, FS_Subset
  <2>6. Cardinality(tried) \in Nat
    BY <2>5, FS_CardinalityType
  <2> QED BY <2>1, <2>4, <2>5, <2>6
<1>7. PICK z \in Seq(Slots) :
        /\ z = Rotate(pool, k) /\ Once(z) /\ \A t : In(t, z) <=> In(t, pool)
        /\ pool' = z \o freed
  <2>1. /\ Rotate(pool, k) \in Seq(Slots) /\ Once(Rotate(pool, k))
        /\ \A t : In(t, Rotate(pool, k)) <=> In(t, pool)
    BY <1>1, <1>2, <1>6, OnceRotate DEF Sound, PoolSound
  <2>2. pool' = Rotate(pool, k) \o freed
    BY <1>4, <1>6 DEF Rotate
  <2> QED BY <2>1, <2>2
<1>8. /\ pool' \in Seq(Slots) /\ Once(pool')
      /\ \A t : In(t, pool') => In(t, pool) \/ t = s
  <2>1. CASE state[s] = "freed"
    <3>1. pool' = z \o <<>>
      BY <1>4, <1>7, <2>1
    <3>2. z \o <<>> = z
      OBVIOUS
    <3> QED BY <1>7, <3>1, <3>2
  <2>2. CASE state[s] # "freed"
    <3>1. pool' = Append(z, s)
      BY <1>4, <1>7, <2>2, AppendIsConcat
    <3>2. ~In(s, z)
      BY <1>1, <1>7, <2>2 DEF Sound, PoolSound
    <3>3. /\ Append(z, s) \in Seq(Slots) /\ Once(Append(z, s))
          /\ \A t : In(t, Append(z, s)) <=> In(t, z) \/ t = s
      BY <1>7, <3>2, OnceAppend
    <3> QED BY <1>7, <3>1, <3>3
  <2> QED BY <2>1, <2>2
<1>9. /\ present'[s] = {} /\ state'[s] = "freed"
      /\ \A t \in Slots : t # s => present'[t] = present[t] /\ state'[t] = state[t]
                                   /\ user'[t] = user[t] /\ refs'[t] = refs[t]
  BY <1>2, <1>3, <1>4
<1>10. ASSUME NEW n \in Names
       PROVE  /\ lists'[n] \in Seq(Slots) /\ ListSound(n)'
              /\ n \in Counted => len'[n] \in Nat /\ len'[n] = Len(lists'[n])
  <2>1. PICK q \in Seq(Slots) : q = lists[n] /\ Once(q)
                                /\ \A t \in Slots : In(t, q) <=> n \in present[t]
    BY <1>1, <1>2 DEF Sound, ListsSound, ListSound
  <2>2. n \in Counted => len[n] = Len(q)
    BY <1>1, <2>1 DEF Sound, LensSound
  <2>3. CASE n \in present[s]
    <3>1. PICK a : a = Unlink(q, s)
      OBVIOUS
    <3>2. lists'[n] = a /\ (n \in Counted => len'[n] = len[n] - 1)
      BY <1>3, <2>1, <2>3, <3>1
    <3>3. /\ a \in Seq(Slots) /\ Once(a) /\ Len(q) > 0 /\ Len(a) = Len(q) - 1
          /\ \A t : In(t, a) <=> In(t, q) /\ t # s
      BY <2>1, <2>3, <3>1, OnceUnlink
    <3>4. \A t \in Slots : In(t, a) <=> n \in present'[t]
      BY <1>9, <2>1, <3>3
    <3>5. n \in Counted => len'[n] \in Nat /\ len'[n] = Len(a)
      BY <2>2, <3>2, <3>3
    <3> QED BY <3>2, <3>3, <3>4, <3>5 DEF ListSound
  <2>4. CASE n \notin present[s]
    <3>1. lists'[n] = q /\ (n \in Counted => len'[n] = len[n] /\ len[n] \in Nat)
      BY <1>2, <1>3, <2>1, <2>4
    <3>2. \A t \in Slots : In(t, q) <=> n \in present'[t]
      BY <1>9, <2>1, <2>4
    <3> QED BY <2>1, <2>2, <3>1, <3>2 DEF ListSound
  <2> QED BY <2>3, <2>4
<1>11. lists' \in [Names -> Seq(Slots)]
  <2>1. lists' = [n \in Names |-> lists'[n]]
    BY <1>3
  <2> QED BY <1>10, <2>1
<1>12. len' \in [Counted -> Nat]
  <2>1. \A n \in Counted : len'[n] \in Nat
    BY <1>10, NamesFinite
  <2>2. len' = [n \in Counted |-> len'[n]]
    BY <1>3
  <2> QED BY <2>1, <2>2
<1>13. refs'[s] \in Int /\ (fault' = "none" => refs'[s] >= 0)
  <2>1. PICK r \in Int, p \in Nat, o \in Nat : r = refs[s] /\ p = Flags(s) /\ o = Own(s) /\ r >= p + o
    BY <1>1, Typed DEF Sound, HeldSound
  <2>2. refs'[s] = r - 1
    BY <1>2, <1>4, <2>1
  <2>3. fault' = "none" => o = 1 \/ r # 0
    BY <1>4, <2>1 DEF SkFreed, Own
  <2> QED BY <2>1, <2>2, <2>3
<1>14. refs' \in [Slots -> Int]
  <2>1. refs' = [t \in Slots |-> refs'[t]]
    BY <1>2, <1>4
  <2> QED BY <1>2, <1>9, <1>13, <2>1
<1>15. TypeOK'
  <2>1. /\ present' \in [Slots -> SUBSET Names] /\ state' \in [Slots -> States]
        /\ user' \in [Slots -> Conns \cup {NONE}] /\ pending' \in 0 .. MaxPending
    BY <1>2, <1>3, AppGlueAssumption DEF States
  <2>2. /\ child' \subseteq Slots /\ noSpace' \subseteq Slots /\ fatal' \subseteq Slots
        /\ handed' \subseteq Slots /\ reported' \subseteq Conns /\ lost' \subseteq Conns
        /\ phase' \in {"idle", "closed", "accept", "read", "write"} /\ limit' \in Nat
    BY <1>1, <1>3 DEF TypeOK
  <2> QED BY <1>5, <1>8, <1>11, <1>12, <1>14, <2>1, <2>2 DEF TypeOK, States
<1>16. OneListener'
  BY <1>1, <1>9 DEF OneListener
<1>17. ASSUME fault' = "none", NEW t \in Slots PROVE HeldSound(t)' /\ SlotSound(t)'
  <2>1. CASE t = s
    <3>1. Own(t)' = 0 /\ Flags(t)' = 0
      BY <1>9, <2>1, FS_EmptySet DEF Own, Flags
    <3>2. HeldSound(t)'
      BY <1>13, <1>17, <2>1, <3>1 DEF HeldSound
    <3>3. ~Wanted(t)'
      BY <1>9, <2>1, AppGlueAssumption DEF Wanted, Attached, NULL, Slots
    <3> QED BY <1>9, <2>1, <3>2, <3>3 DEF SlotSound
  <2>2. CASE t # s
    <3>1. /\ HeldSound(t) /\ SlotSound(t) /\ Own(t)' = Own(t) /\ Flags(t)' = Flags(t)
          /\ refs'[t] = refs[t] /\ present'[t] = present[t] /\ state'[t] = state[t]
      BY <1>1, <1>9, <2>2 DEF Sound, Own, Flags
    <3>2. ASSUME Attached(t)' PROVE Attached(t)
      BY <3>2, AppGlueAssumption DEF Attached, NULL, Slots
    <3>3. Wanted(t)' => Wanted(t)
      BY <3>1, <3>2 DEF Wanted
    <3>4. HeldSound(t)'
      BY <3>1 DEF HeldSound
    <3> QED BY <3>1, <3>3, <3>4 DEF SlotSound
  <2> QED BY <2>1, <2>2
<1>18. PoolSound'
  <2>1. \A t \in Slots : In(t, pool) => state[t] = "freed"
    BY <1>1 DEF Sound, PoolSound
  <2> QED BY <1>8, <1>9, <2>1 DEF PoolSound
<1>19. ASSUME NEW c \in Conns, table'[c] # NULL PROVE user'[table'[c]] = c /\ table'[c] \notin handed'
  <2>1. table'[c] = table[c] /\ table[c] # s /\ table[c] \in Slots /\ table[c] # NULL
    BY <1>1, <1>19 DEF TypeOK
  <2>2. ConnSound(c)
    BY <1>1 DEF Sound
  <2> QED BY <1>9, <2>1, <2>2 DEF ConnSound
<1> QED BY <1>5, <1>10, <1>15, <1>16, <1>17, <1>18, <1>19, NamesFinite
        DEF GlueInv, Sound, ListsSound, LensSound, ConnSound

LEMMA StepExecClose ==
  ASSUME GlueInv, NEW c \in Conns, ExecClose(c)
  PROVE  GlueInv'
<1>1. /\ fault = "none" /\ table[c] # NULL /\ CloseSocket(table[c])
      /\ table' = [table EXCEPT ![c] = NULL] /\ selector' = [selector EXCEPT ![c] = FALSE]
      /\ UNCHANGED <<handed, reported, lost, fatal, phase, limit>>
  BY DEF ExecClose, Idle
<1>2. TypeOK /\ Sound /\ table \in [Conns -> Slots \cup {NULL}] /\ selector \in [Conns -> BOOLEAN]
  BY <1>1 DEF GlueInv, TypeOK
<1>3. PICK s \in Slots : s = table[c]
  BY <1>1, <1>2
<1>4. table' \in [Conns -> Slots \cup {NULL}] /\ selector' \in [Conns -> BOOLEAN]
  BY <1>1, <1>2
<1>5. s \notin handed
  BY <1>1, <1>2, <1>3 DEF Sound, ConnSound
<1>6. ASSUME NEW d \in Conns, table'[d] # NULL PROVE table'[d] = table[d] /\ table[d] # s
  <2>1. d # c /\ table'[d] = table[d]
    BY <1>1, <1>2, <1>6
  <2>2. ConnSound(c) /\ ConnSound(d)
    BY <1>2 DEF Sound
  <2> QED BY <1>1, <1>3, <1>6, <2>1, <2>2 DEF ConnSound
<1> QED BY <1>1, <1>3, <1>4, <1>5, <1>6, CloseKeeps

LEMMA StepExecDecline ==
  ASSUME GlueInv, NEW s \in Slots, ExecDecline(s)
  PROVE  GlueInv'
<1>1. /\ fault = "none" /\ s \in handed /\ CloseSocket(s) /\ handed' = handed \ {s}
      /\ UNCHANGED <<table, selector, reported, lost, fatal, phase, limit>>
  BY DEF ExecDecline, Idle
<1>2. Sound /\ table \in [Conns -> Slots \cup {NULL}] /\ selector \in [Conns -> BOOLEAN]
  BY <1>1 DEF GlueInv, TypeOK
<1>3. ASSUME NEW d \in Conns, table'[d] # NULL PROVE table'[d] = table[d] /\ table[d] # s
  BY <1>1, <1>2, <1>3 DEF Sound, ConnSound
<1> QED BY <1>1, <1>2, <1>3, CloseKeeps

---------------------------------------------------------------------------
(* app_glue_periodic                                                       *)

LEMMA StepLoops ==
  ASSUME GlueInv, StartRx \/ StartTx \/ NextList
  PROVE  GlueInv'
<1>1. /\ fault = "none" /\ UNCHANGED <<pool, state, user, child, noSpace, glue, pending, apps, fatal, fault>>
      /\ phase' \in {"idle", "closed", "accept", "read", "write"}
      /\ limit' = limit \/ limit' = 0 \/ \E n \in Counted : limit' = len[n]
  <2>1. CASE StartRx
    BY <2>1 DEF StartRx, Idle
  <2>2. CASE StartTx
    BY <2>2 DEF StartTx, Idle, Counted
  <2>3. CASE NextList
    BY <2>3 DEF NextList, Counted
  <2> QED BY <2>1, <2>2, <2>3
<1>2. TypeOK /\ OneListener
  BY DEF GlueInv
<1>3. (\A t \in Slots : SameKind(t)) /\ OneListener'
  BY <1>1, <1>2, StateSame
<1>4. limit' \in Nat
  BY <1>1, <1>2 DEF TypeOK
<1>5. TypeOK'
  BY <1>1, <1>2, <1>4 DEF TypeOK, glue, apps
<1> QED BY <1>1, <1>3, <1>5, QuietKeeps DEF apps

\* The first socket of a list loses its place and its flag, or goes to the end.
LEMMA ServeKeeps ==
  ASSUME TypeOK, ListsSound, NEW n \in Names, lists[n] # <<>>, NEW again \in BOOLEAN,
         Serve(n, again), NEW s, s = Head(lists[n])
  PROVE  /\ s \in Slots /\ n \in present[s] /\ lists' \in [Names -> Seq(Slots)]
         /\ present' \in [Slots -> SUBSET Names] /\ ListsSound'
         /\ \A m \in Names : m # n => lists'[m] = lists[m]
         /\ Len(lists[n]) > 0 /\ Len(lists'[n]) = Len(lists[n]) - (IF again THEN 0 ELSE 1)
         /\ present'[s] = IF again THEN present[s] ELSE present[s] \ {n}
         /\ \A t \in Slots : t # s => present'[t] = present[t]
         /\ Flags(s) = Flags(s)' + (IF again THEN 0 ELSE 1)
<1>1. lists \in [Names -> Seq(Slots)] /\ present \in [Slots -> SUBSET Names]
  BY DEF TypeOK
<1>2. PICK q \in Seq(Slots) : q = lists[n] /\ q # <<>> /\ Once(q)
                              /\ \A t \in Slots : In(t, q) <=> n \in present[t]
  BY <1>1 DEF ListsSound, ListSound
<1>3. PICK a \in Seq(Slots) :
        /\ a = Tail(q) /\ s \in Slots /\ In(s, q) /\ Len(q) > 0 /\ Len(a) = Len(q) - 1
        /\ (\A t : In(t, a) => In(t, q)) /\ (\A t : In(t, q) /\ t # s => In(t, a))
        /\ Once(a) /\ ~In(s, a)
  BY <1>2, OnceTail
<1>4. n \in present[s]
  BY <1>2, <1>3
<1>5. /\ lists' = [lists EXCEPT ![n] = IF again THEN Append(a, s) ELSE a]
      /\ present' = [present EXCEPT ![s] = IF again THEN @ ELSE @ \ {n}]
  BY <1>2, <1>3 DEF Serve
<1>6. /\ Append(a, s) \in Seq(Slots) /\ Len(Append(a, s)) = Len(a) + 1
      /\ (\A t : In(t, Append(a, s)) <=> In(t, a) \/ t = s) /\ Once(Append(a, s))
  BY <1>3, OnceAppend
<1>7. lists' \in [Names -> Seq(Slots)] /\ present' \in [Slots -> SUBSET Names]
  BY <1>1, <1>3, <1>5, <1>6
<1>8. /\ lists'[n] = IF again THEN Append(a, s) ELSE a
      /\ \A m \in Names : m # n => lists'[m] = lists[m]
      /\ present'[s] = IF again THEN present[s] ELSE present[s] \ {n}
      /\ \A t \in Slots : t # s => present'[t] = present[t]
  BY <1>1, <1>3, <1>5
<1>9. Len(lists'[n]) = Len(lists[n]) - (IF again THEN 0 ELSE 1)
  BY <1>2, <1>3, <1>6, <1>8
<1>10. ASSUME NEW m \in Names PROVE ListSound(m)'
  <2>1. CASE m = n
    <3>1. Once(lists'[n])
      BY <1>3, <1>6, <1>8
    <3>2. CASE again
      <4>1. \A t \in Slots : In(t, Append(a, s)) <=> In(t, q)
        BY <1>3, <1>6
      <4>2. \A t \in Slots : n \in present'[t] <=> n \in present[t]
        BY <1>8, <3>2
      <4> QED BY <1>2, <1>8, <2>1, <3>1, <3>2, <4>1, <4>2 DEF ListSound
    <3>3. CASE ~again
      <4>1. \A t \in Slots : In(t, a) <=> In(t, q) /\ t # s
        BY <1>3
      <4>2. \A t \in Slots : n \in present'[t] <=> n \in present[t] /\ t # s
        BY <1>8, <3>3
      <4> QED BY <1>2, <1>8, <2>1, <3>1, <3>3, <4>1, <4>2 DEF ListSound
    <3> QED BY <3>2, <3>3
  <2>2. CASE m # n
    <3>1. \A t \in Slots : m \in present'[t] <=> m \in present[t]
      BY <1>8, <2>2
    <3>2. ListSound(m) /\ lists'[m] = lists[m]
      BY <1>8, <2>2 DEF ListsSound
    <3> QED BY <3>1, <3>2 DEF ListSound
  <2> QED BY <2>1, <2>2
<1>11. Flags(s) = Flags(s)' + (IF again THEN 0 ELSE 1)
  <2>1. PICK P \in SUBSET Names : P = present[s]
    BY <1>1, <1>3
  <2>2. IsFiniteSet(P) /\ Cardinality(P) \in Nat /\ n \in P
    BY <1>4, <2>1, FlagsCount
  <2>3. Cardinality(P \ {n}) = Cardinality(P) - 1
    BY <2>2, FS_RemoveElement
  <2> QED BY <1>8, <2>1, <2>2, <2>3 DEF Flags
<1> QED BY <1>2, <1>3, <1>4, <1>7, <1>8, <1>9, <1>10, <1>11 DEF ListsSound

\* The loops over the readable and the writable list.
LEMMA CountedKeeps ==
  ASSUME GlueInv, fault = "none", NEW n \in Counted, lists[n] # <<>>, limit > 0,
         NEW again \in BOOLEAN, Serve(n, again), NEW s, s = Head(lists[n]),
         refs' = [refs EXCEPT ![s] = IF again THEN @ ELSE @ - 1],
         len' = [len EXCEPT ![n] = IF again THEN @ ELSE @ - 1],
         limit' = limit - 1, noSpace' \subseteq noSpace \cup {s},
         UNCHANGED <<pool, state, user, child, pending, apps, fatal, phase, fault>>
  PROVE  GlueInv'
<1>1. TypeOK /\ OneListener /\ Sound /\ n \in Names
  BY NamesFinite DEF GlueInv
<1>2. /\ s \in Slots /\ n \in present[s] /\ lists' \in [Names -> Seq(Slots)]
      /\ present' \in [Slots -> SUBSET Names] /\ ListsSound'
      /\ \A m \in Names : m # n => lists'[m] = lists[m]
      /\ Len(lists[n]) > 0 /\ Len(lists'[n]) = Len(lists[n]) - (IF again THEN 0 ELSE 1)
      /\ present'[s] = IF again THEN present[s] ELSE present[s] \ {n}
      /\ \A t \in Slots : t # s => present'[t] = present[t]
      /\ Flags(s) = Flags(s)' + (IF again THEN 0 ELSE 1)
  BY <1>1, ServeKeeps DEF Sound
<1>3. len \in [Counted -> Nat] /\ refs \in [Slots -> Int] /\ limit \in Nat /\ noSpace \subseteq Slots
  BY <1>1 DEF TypeOK
<1>4. PICK l \in Nat : l = len[n] /\ l = Len(lists[n]) /\ l > 0
  BY <1>1, <1>2, <1>3 DEF Sound, LensSound
<1>5. /\ len'[n] = IF again THEN l ELSE l - 1
      /\ \A m \in Counted : m # n => len'[m] = len[m]
  BY <1>3, <1>4
<1>6. len' \in [Counted -> Nat]
  BY <1>3, <1>4
<1>7. PICK r \in Int, p \in Nat, p2 \in Nat, o \in Nat :
        r = refs[s] /\ p = Flags(s) /\ p2 = Flags(s)' /\ o = Own(s) /\ r >= p + o
        /\ p = p2 + (IF again THEN 0 ELSE 1)
  <2>1. Flags(s)' \in Nat
    BY <1>2, FlagsCount DEF Flags
  <2> QED BY <1>1, <1>2, <2>1, Typed DEF Sound, HeldSound
<1>8. /\ refs'[s] = IF again THEN r ELSE r - 1
      /\ \A t \in Slots : t # s => refs'[t] = refs[t]
  BY <1>2, <1>3, <1>7
<1>9. refs' \in [Slots -> Int]
  <2>1. r - 1 \in Nat \/ again
    BY <1>7
  <2> QED BY <1>2, <1>3, <1>7, <2>1
<1>10. TypeOK'
  <2>1. limit' \in Nat /\ noSpace' \subseteq Slots
    BY <1>2, <1>3
  <2> QED BY <1>1, <1>2, <1>6, <1>9, <2>1 DEF TypeOK, apps
<1>11. OneListener'
  BY <1>1 DEF OneListener
<1>12. LensSound'
  <2> SUFFICES ASSUME NEW m \in Counted PROVE len'[m] = Len(lists'[m])
    BY DEF LensSound
  <2>1. CASE m = n
    <3>1. Len(lists'[n]) = l - (IF again THEN 0 ELSE 1)
      BY <1>2, <1>4
    <3> QED BY <1>5, <2>1, <3>1
  <2>2. CASE m # n
    <3>1. len'[m] = len[m] /\ lists'[m] = lists[m]
      BY <1>2, <1>5, <2>2, NamesFinite
    <3> QED BY <1>1, <3>1 DEF Sound, LensSound
  <2> QED BY <2>1, <2>2
<1>13. ASSUME NEW t \in Slots PROVE HeldSound(t)' /\ SlotSound(t)'
  <2>1. Own(t)' = Own(t) /\ HeldSound(t) /\ SlotSound(t)
    BY <1>1 DEF Own, Sound
  <2>2. HeldSound(t)'
    <3>1. CASE t = s
      BY <1>7, <1>8, <2>1, <3>1 DEF HeldSound
    <3>2. CASE t # s
      <4>1. Flags(t)' = Flags(t) /\ refs'[t] = refs[t]
        BY <1>2, <1>8, <3>2 DEF Flags
      <4> QED BY <2>1, <4>1 DEF HeldSound
    <3> QED BY <3>1, <3>2
  <2>3. present'[t] \subseteq present[t]
    BY <1>2
  <2>4. Wanted(t)' => Wanted(t)
    BY <2>3 DEF Wanted, Attached, apps
  <2>5. SlotSound(t)'
    BY <2>1, <2>3, <2>4 DEF SlotSound
  <2> QED BY <2>2, <2>5
<1>14. PoolSound' /\ \A c \in Conns : ConnSound(c)'
  BY <1>1 DEF Sound, PoolSound, ConnSound, apps
<1> QED BY <1>2, <1>10, <1>11, <1>12, <1>13, <1>14 DEF GlueInv, Sound

LEMMA StepProcessRead ==
  ASSUME GlueInv, ProcessRead
  PROVE  GlueInv'
<1>1. /\ fault = "none" /\ lists["read"] # <<>> /\ limit > 0 /\ limit' = limit - 1
      /\ UNCHANGED <<pool, state, user, child, noSpace, pending, apps, fatal, phase, fault>>
  BY DEF ProcessRead, Loops, Counted
<1>2. PICK s : s = Head(lists["read"])
  OBVIOUS
<1>3. PICK again \in BOOLEAN :
         /\ Serve("read", again)
         /\ refs' = [refs EXCEPT ![s] = IF again THEN @ ELSE @ - 1]
         /\ len' = [len EXCEPT !["read"] = IF again THEN @ ELSE @ - 1]
  BY <1>2 DEF ProcessRead
<1>4. "read" \in Counted /\ noSpace' \subseteq noSpace \cup {s}
  BY <1>1 DEF Counted
<1> QED BY <1>1, <1>2, <1>3, <1>4, CountedKeeps

LEMMA StepProcessWrite ==
  ASSUME GlueInv, ProcessWrite
  PROVE  GlueInv'
<1>1. PICK s : s = Head(lists["write"])
  OBVIOUS
<1>2. /\ fault = "none" /\ lists["write"] # <<>> /\ limit > 0 /\ limit' = limit - 1
      /\ Serve("write", FALSE) /\ noSpace' = noSpace \cup {s}
      /\ refs' = [refs EXCEPT ![s] = @ - 1] /\ len' = [len EXCEPT !["write"] = @ - 1]
      /\ UNCHANGED <<pool, state, user, child, pending, apps, fatal, phase, fault>>
  BY <1>1 DEF ProcessWrite, Loops, Counted
<1>3. PICK again \in BOOLEAN : again = FALSE
  OBVIOUS
<1>4. /\ Serve("write", again) /\ refs' = [refs EXCEPT ![s] = IF again THEN @ ELSE @ - 1]
      /\ len' = [len EXCEPT !["write"] = IF again THEN @ ELSE @ - 1]
      /\ "write" \in Counted /\ noSpace' \subseteq noSpace \cup {s}
  BY <1>2, <1>3 DEF Counted
<1> QED BY <1>1, <1>2, <1>3, <1>4, CountedKeeps

LEMMA StepProcessClosed ==
  ASSUME GlueInv, ProcessClosed
  PROVE  GlueInv'
<1>1. PICK s : s = Head(lists["closed"])
  OBVIOUS
<1>2. /\ fault = "none" /\ lists["closed"] # <<>>
      /\ Serve("closed", FALSE) /\ refs' = [refs EXCEPT ![s] = @ - 2]
      /\ state' = [state EXCEPT ![s] = "freed"] /\ fatal' = fatal \cup {s}
      /\ pool' = Append(pool, s)
      /\ UNCHANGED <<user, child, noSpace, len, pending, table, selector, handed, phase, limit,
                     fault>>
  BY <1>1 DEF ProcessClosed, Loops
<1>3. TypeOK /\ OneListener /\ Sound
  BY <1>2 DEF GlueInv
<1>4. "closed" \in Names /\ "closed" \notin Counted /\ FALSE \in BOOLEAN
  BY DEF Names, Counted
<1>5. /\ s \in Slots /\ "closed" \in present[s] /\ lists' \in [Names -> Seq(Slots)]
      /\ present' \in [Slots -> SUBSET Names] /\ ListsSound'
      /\ \A m \in Names : m # "closed" => lists'[m] = lists[m]
      /\ present'[s] = present[s] \ {"closed"}
      /\ \A t \in Slots : t # s => present'[t] = present[t]
      /\ Flags(s) = Flags(s)' + 1
  <2>1. PICK again \in BOOLEAN : again = FALSE
    OBVIOUS
  <2>2. Serve("closed", again) /\ ListsSound
    BY <1>2, <1>3, <2>1 DEF Sound
  <2>3. /\ s \in Slots /\ "closed" \in present[s] /\ lists' \in [Names -> Seq(Slots)]
        /\ present' \in [Slots -> SUBSET Names] /\ ListsSound'
        /\ \A m \in Names : m # "closed" => lists'[m] = lists[m]
        /\ present'[s] = IF again THEN present[s] ELSE present[s] \ {"closed"}
        /\ \A t \in Slots : t # s => present'[t] = present[t]
        /\ Flags(s) = Flags(s)' + (IF again THEN 0 ELSE 1)
    BY <1>1, <1>2, <1>3, <1>4, <2>2, ServeKeeps
  <2> QED BY <2>1, <2>3
<1>6. state[s] = "reset"
  BY <1>3, <1>5 DEF Sound, SlotSound
<1>7. /\ refs \in [Slots -> Int] /\ state \in [Slots -> States] /\ pool \in Seq(Slots)
      /\ user \in [Slots -> Conns \cup {NONE}]
  BY <1>3 DEF TypeOK, States
<1>8. PICK r \in Int, p \in Nat, p2 \in Nat :
        r = refs[s] /\ p = Flags(s) /\ p2 = Flags(s)' /\ r >= p + 1 /\ p = p2 + 1
  <2>1. Flags(s)' \in Nat
    BY <1>5, FlagsCount DEF Flags
  <2>2. Own(s) = 1 /\ HeldSound(s)
    BY <1>3, <1>5, <1>6 DEF Own, Sound
  <2> QED BY <1>3, <1>5, <2>1, <2>2, Typed DEF HeldSound
<1>9. /\ refs'[s] = r - 2 /\ r - 2 \in Nat /\ r - 2 >= p2
      /\ \A t \in Slots : t # s => refs'[t] = refs[t]
  BY <1>2, <1>5, <1>7, <1>8
<1>10. refs' \in [Slots -> Int]
  BY <1>2, <1>5, <1>7, <1>8, <1>9
<1>11. /\ state' \in [Slots -> States] /\ state'[s] = "freed"
       /\ \A t \in Slots : t # s => state'[t] = state[t]
  BY <1>2, <1>5, <1>7 DEF States
<1>12. ~In(s, pool) /\ Once(pool) /\ \A t \in Slots : In(t, pool) => state[t] = "freed"
  BY <1>3, <1>5, <1>6 DEF Sound, PoolSound
<1>13. pool' \in Seq(Slots) /\ Once(pool') /\ \A t : In(t, pool') <=> In(t, pool) \/ t = s
  BY <1>2, <1>5, <1>7, <1>12, OnceAppend
<1>14. TypeOK'
  <2>1. reported' \subseteq Conns /\ lost' \subseteq Conns
    <3>1. PICK told : told = {c \in {user[s]} \ {NONE} : selector[c]}
      OBVIOUS
    <3>2. /\ reported' = reported \cup told \/ reported' = reported
          /\ lost' = lost \cup told \/ lost' = lost
      BY <1>1, <3>1 DEF ProcessClosed
    <3>3. told \subseteq Conns
      BY <1>5, <1>7, <3>1
    <3> QED BY <1>3, <3>2, <3>3 DEF TypeOK
  <2>2. fatal' \subseteq Slots
    BY <1>2, <1>3, <1>5 DEF TypeOK
  <2> QED BY <1>2, <1>3, <1>5, <1>10, <1>11, <1>13, <2>1, <2>2 DEF TypeOK, States
<1>15. OneListener'
  BY <1>3, <1>11 DEF OneListener
<1>16. LensSound'
  <2> SUFFICES ASSUME NEW m \in Counted PROVE len'[m] = Len(lists'[m])
    BY DEF LensSound
  <2>1. m \in Names /\ m # "closed"
    BY <1>4, NamesFinite
  <2> QED BY <1>2, <1>3, <1>5, <2>1 DEF Sound, LensSound
<1>17. PoolSound'
  BY <1>11, <1>12, <1>13 DEF PoolSound
<1>18. ASSUME NEW t \in Slots PROVE HeldSound(t)' /\ SlotSound(t)'
  <2>1. CASE t = s
    <3>1. Own(t)' = 0 /\ s \in fatal'
      BY <1>2, <1>11, <2>1 DEF Own
    <3>2. HeldSound(t)'
      BY <1>8, <1>9, <2>1, <3>1 DEF HeldSound
    <3> QED BY <1>5, <2>1, <3>1, <3>2 DEF SlotSound
  <2>2. CASE t # s
    <3>1. /\ HeldSound(t) /\ SlotSound(t) /\ Own(t)' = Own(t) /\ Flags(t)' = Flags(t)
          /\ refs'[t] = refs[t] /\ present'[t] = present[t] /\ state'[t] = state[t]
          /\ (t \in fatal' <=> t \in fatal)
      BY <1>2, <1>3, <1>5, <1>9, <1>11, <2>2 DEF Sound, Own, Flags
    <3>2. Wanted(t)' <=> Wanted(t)
      BY <1>2, <3>1 DEF Wanted, Attached
    <3> QED BY <3>1, <3>2 DEF HeldSound, SlotSound
  <2> QED BY <2>1, <2>2
<1>19. \A c \in Conns : ConnSound(c)'
  BY <1>2, <1>3 DEF Sound, ConnSound
<1> QED BY <1>2, <1>5, <1>14, <1>15, <1>16, <1>17, <1>18, <1>19 DEF GlueInv, Sound

\* The slots that user_on_accept takes leave the pool.
LEMMA PoolTaken ==
  ASSUME TypeOK, Once(pool)
  PROVE  /\ Accepts \in 0 .. Len(pool) /\ Accepts <= pending
         /\ PoolAfter \in Seq(Slots) /\ Once(PoolAfter) /\ Taken \subseteq Slots /\ Taken \subseteq Tried
         /\ \A t : In(t, PoolAfter) => In(t, pool) /\ t \notin Taken
<1>1. pool \in Seq(Slots) /\ pending \in Nat
  BY AppGlueAssumption DEF TypeOK
<1>2. PICK l \in Nat : l = Len(pool) /\ DOMAIN pool = 1 .. l
  BY <1>1
<1>3. PICK a \in 0 .. Len(pool) : a = Accepts /\ a <= pending /\ a \in 0 .. l
  BY <1>1, <1>2 DEF Accepts
<1>4. PICK q \in Seq(Slots) :
        /\ q = SubSeq(pool, a + 1, Len(pool)) /\ Once(q) /\ (\A t : In(t, q) => In(t, pool))
        /\ \A i \in 1 .. a : ~In(pool[i], q)
  BY <1>1, OnceDrop
<1>5. Taken = {pool[i] : i \in 1 .. a} /\ Taken \subseteq Slots /\ Taken \subseteq Tried
  <2>1. \A i \in 1 .. a : i \in DOMAIN pool /\ pool[i] \in Slots /\ i \in 1 .. a + 1
    BY <1>1, <1>2, <1>3
  <2> QED BY <1>3, <2>1 DEF Taken, Tried
<1>6. CASE q = <<>>
  <2>1. PoolAfter = q
    BY <1>3, <1>4, <1>6 DEF PoolAfter
  <2> QED BY <1>3, <1>4, <1>5, <2>1
<1>7. CASE q # <<>>
  <2>1. PoolAfter = Append(Tail(q), Head(q))
    BY <1>3, <1>4, <1>7 DEF PoolAfter
  <2>2. /\ Tail(q) \in Seq(Slots) /\ Head(q) \in Slots /\ In(Head(q), q)
        /\ (\A t : In(t, Tail(q)) => In(t, q)) /\ Once(Tail(q)) /\ ~In(Head(q), Tail(q))
    BY <1>4, <1>7, OnceTail
  <2>3. PICK b, x : b = Tail(q) /\ x = Head(q)
    OBVIOUS
  <2>4. /\ PoolAfter \in Seq(Slots) /\ Once(PoolAfter)
        /\ \A t : In(t, PoolAfter) <=> In(t, b) \/ t = x
    BY <2>1, <2>2, <2>3, OnceAppend
  <2>5. \A t : In(t, PoolAfter) => In(t, q)
    BY <2>2, <2>3, <2>4
  <2> QED BY <1>3, <1>4, <1>5, <2>4, <2>5
<1> QED BY <1>6, <1>7

LEMMA StepProcessAccept ==
  ASSUME GlueInv, ProcessAccept
  PROVE  GlueInv'
<1>1. PICK s : s = Head(lists["accept"])
  OBVIOUS
<1>2. PICK T : T = Taken
  OBVIOUS
<1>3. /\ fault = "none" /\ lists["accept"] # <<>> /\ Serve("accept", FALSE)
      /\ pool' = PoolAfter /\ pending' = pending - Accepts
      /\ state' = [t \in Slots |-> IF t \in T THEN "est" ELSE state[t]]
      /\ user' = [t \in Slots |-> IF t \in T THEN NONE ELSE user[t]]
      /\ refs' = [t \in Slots |-> IF t \in T THEN 1 ELSE refs[t] - (IF t = s THEN 1 ELSE 0)]
      /\ child' = child \cup T /\ noSpace' = noSpace \ T /\ fatal' = fatal \ T
      /\ handed' = handed \cup T
      /\ UNCHANGED <<len, table, selector, reported, lost, phase, limit>>
  BY <1>1, <1>2 DEF ProcessAccept, Loops
<1>4. fault' = IF \E t \in Tried : Referenced(t) THEN "stale" ELSE fault
  BY DEF ProcessAccept, StaleIf, Dangles
<1>5. TypeOK /\ OneListener /\ Sound
  BY <1>3 DEF GlueInv
<1>6. "accept" \in Names /\ "accept" \notin Counted
  BY DEF Names, Counted
<1>7. /\ s \in Slots /\ "accept" \in present[s] /\ lists' \in [Names -> Seq(Slots)]
      /\ present' \in [Slots -> SUBSET Names] /\ ListsSound'
      /\ \A m \in Names : m # "accept" => lists'[m] = lists[m]
      /\ present'[s] = present[s] \ {"accept"}
      /\ \A t \in Slots : t # s => present'[t] = present[t]
      /\ Flags(s) = Flags(s)' + 1
  <2>1. PICK again \in BOOLEAN : again = FALSE
    OBVIOUS
  <2>2. Serve("accept", again) /\ ListsSound
    BY <1>3, <1>5, <2>1 DEF Sound
  <2>3. /\ s \in Slots /\ "accept" \in present[s] /\ lists' \in [Names -> Seq(Slots)]
        /\ present' \in [Slots -> SUBSET Names] /\ ListsSound'
        /\ \A m \in Names : m # "accept" => lists'[m] = lists[m]
        /\ present'[s] = IF again THEN present[s] ELSE present[s] \ {"accept"}
        /\ \A t \in Slots : t # s => present'[t] = present[t]
        /\ Flags(s) = Flags(s)' + (IF again THEN 0 ELSE 1)
    BY <1>1, <1>3, <1>5, <1>6, <2>2, ServeKeeps
  <2> QED BY <2>1, <2>3
<1>8. /\ Accepts \in 0 .. Len(pool) /\ Accepts <= pending
      /\ pool' \in Seq(Slots) /\ Once(pool') /\ T \subseteq Slots /\ T \subseteq Tried
      /\ \A t : In(t, pool') => In(t, pool) /\ t \notin T
  BY <1>2, <1>3, <1>5, PoolTaken DEF Sound, PoolSound
<1>9. /\ refs \in [Slots -> Int] /\ state \in [Slots -> States] /\ pool \in Seq(Slots)
      /\ user \in [Slots -> Conns \cup {NONE}] /\ table \in [Conns -> Slots \cup {NULL}]
  BY <1>5 DEF TypeOK, States
<1>10. PICK r \in Int, p2 \in Nat, o \in Nat :
         r = refs[s] /\ p2 = Flags(s)' /\ o = Own(s) /\ r >= (p2 + 1) + o
  <2>1. Flags(s)' \in Nat
    BY <1>7, FlagsCount DEF Flags
  <2> QED BY <1>5, <1>7, <2>1, Typed DEF Sound, HeldSound
<1>11. \A t \in Slots :
         /\ t \in T => state'[t] = "est" /\ user'[t] = NONE /\ refs'[t] = 1
         /\ t \notin T => state'[t] = state[t] /\ user'[t] = user[t]
         /\ t \notin T /\ t # s => refs'[t] = refs[t]
         /\ t \notin T /\ t = s => refs'[t] = r - 1
  BY <1>3, <1>9, <1>10
<1>12. r - 1 \in Nat /\ r - 1 >= p2 + o
  BY <1>10
<1>13. refs' \in [Slots -> Int]
  <2>1. \A t \in Slots : refs'[t] \in Int
    BY <1>9, <1>11, <1>12
  <2>2. refs' = [t \in Slots |-> refs'[t]]
    BY <1>3
  <2> QED BY <2>1, <2>2
<1>14. state' \in [Slots -> States] /\ user' \in [Slots -> Conns \cup {NONE}]
  BY <1>3, <1>9 DEF States
<1>15. pending' \in 0 .. MaxPending /\ fault' \in {"none", "stale"}
  <2>0. PICK l \in Nat : l = Len(pool)
    BY <1>9
  <2>1. PICK a \in Nat : a = Accepts
    BY <1>8, <2>0
  <2>2. pending \in 0 .. MaxPending /\ MaxPending \in Nat
    BY <1>5, AppGlueAssumption DEF TypeOK
  <2> QED BY <1>3, <1>4, <1>8, <2>1, <2>2
<1>16. TypeOK'
  <2>1. /\ child' \subseteq Slots /\ noSpace' \subseteq Slots /\ fatal' \subseteq Slots
        /\ handed' \subseteq Slots
    BY <1>3, <1>5, <1>8 DEF TypeOK
  <2>2. /\ len' \in [Counted -> Nat] /\ table' \in [Conns -> Slots \cup {NULL}]
        /\ selector' \in [Conns -> BOOLEAN] /\ reported' \subseteq Conns /\ lost' \subseteq Conns
        /\ phase' \in {"idle", "closed", "accept", "read", "write"} /\ limit' \in Nat
    BY <1>3, <1>5 DEF TypeOK
  <2> QED BY <1>7, <1>8, <1>13, <1>14, <1>15, <2>1, <2>2 DEF TypeOK, States
<1>17. OneListener'
  BY <1>5, <1>11 DEF OneListener
<1>18. ASSUME fault' = "none" PROVE Sound'
  <2>1. ASSUME NEW t \in T PROVE ~Wanted(t) /\ t \in Slots
    <3>1. ~Referenced(t) /\ t \in Slots
      BY <1>4, <1>8, <1>18, <2>1
    <3> QED BY <1>5, <3>1, NotWanted DEF Sound
  <2>2. s \notin T
    BY <1>7, <2>1 DEF Wanted
  <2>3. LensSound'
    <3> SUFFICES ASSUME NEW m \in Counted PROVE len'[m] = Len(lists'[m])
      BY DEF LensSound
    <3>1. m \in Names /\ m # "accept"
      BY <1>6, NamesFinite
    <3> QED BY <1>3, <1>5, <1>7, <3>1 DEF Sound, LensSound
  <2>4. PoolSound'
    <3>1. \A t \in Slots : In(t, pool) => state[t] = "freed"
      BY <1>5 DEF Sound, PoolSound
    <3> QED BY <1>8, <1>11, <3>1 DEF PoolSound
  <2>5. ASSUME NEW t \in Slots PROVE HeldSound(t)' /\ SlotSound(t)'
    <3>1. CASE t \in T
      <4>1. present'[t] = {} /\ state'[t] = "est" /\ refs'[t] = 1
        BY <1>7, <1>11, <2>1, <2>2, <3>1 DEF Wanted
      <4>2. Flags(t)' = 0 /\ Own(t)' = 1
        BY <4>1, FS_EmptySet DEF Flags, Own
      <4> QED BY <4>1, <4>2 DEF HeldSound, SlotSound
    <3>2. CASE t \notin T
      <4>1. /\ HeldSound(t) /\ SlotSound(t) /\ state'[t] = state[t] /\ Own(t)' = Own(t)
            /\ (t \in handed' <=> t \in handed) /\ (t \in fatal' <=> t \in fatal)
        BY <1>3, <1>5, <1>11, <3>2 DEF Sound, Own
      <4>2. present'[t] \subseteq present[t]
        BY <1>7
      <4>3. Wanted(t)' => Wanted(t)
        BY <1>3, <4>1, <4>2 DEF Wanted, Attached
      <4>4. SlotSound(t)'
        BY <4>1, <4>2, <4>3 DEF SlotSound
      <4>5. CASE t = s
        BY <1>10, <1>11, <1>12, <3>2, <4>1, <4>4, <4>5 DEF HeldSound
      <4>6. CASE t # s
        <5>1. Flags(t)' = Flags(t) /\ refs'[t] = refs[t]
          BY <1>7, <1>11, <3>2, <4>6 DEF Flags
        <5> QED BY <4>1, <4>4, <5>1 DEF HeldSound
      <4> QED BY <4>5, <4>6
    <3> QED BY <3>1, <3>2
  <2>6. ASSUME NEW c \in Conns PROVE ConnSound(c)'
    <3> SUFFICES ASSUME table'[c] # NULL PROVE user'[table'[c]] = c /\ table'[c] \notin handed'
      BY DEF ConnSound
    <3>1. table'[c] = table[c] /\ table[c] # NULL /\ table[c] \in Slots /\ ConnSound(c)
      BY <1>3, <1>5, <1>9 DEF Sound
    <3>2. table[c] \notin T
      BY <2>1 DEF Wanted, Attached
    <3> QED BY <1>3, <1>11, <3>1, <3>2 DEF ConnSound
  <2> QED BY <1>7, <2>3, <2>4, <2>5, <2>6 DEF Sound
<1> QED BY <1>15, <1>16, <1>17, <1>18 DEF GlueInv

---------------------------------------------------------------------------
(* The theorems.                                                           *)

LEMMA GlueStutter ==
  ASSUME GlueInv, UNCHANGED vars
  PROVE  GlueInv'
<1> USE DEF vars, glue, apps
<1>1. TypeOK' /\ OneListener'
  BY DEF GlueInv, TypeOK, OneListener
<1>2. CASE fault = "none"
  BY <1>1, <1>2, StateSame, QuietKeeps DEF GlueInv
<1>3. CASE fault # "none"
  BY <1>1, <1>3 DEF GlueInv
<1> QED BY <1>2, <1>3

LEMMA GlueStep == GlueInv /\ [Next]_vars => GlueInv'
<1> SUFFICES ASSUME GlueInv, [Next]_vars PROVE GlueInv'
  OBVIOUS
<1>1. CASE Callback
  BY <1>1, StepSockReadable, StepSockWriteSpace, StepEstablished, StepRefused,
     StepNewConnection, StepPeerCloses, StepReset DEF Callback
<1>2. CASE Command
  BY <1>2, StepCreate, StepConnect, StepListen, StepSetSocketSelect, StepKick, StepExecClose,
     StepSetSocketRing, StepExecDecline DEF Command
<1>3. CASE StartRx \/ StartTx \/ NextList
  BY <1>3, StepLoops
<1>4. CASE Periodic
  BY <1>4, StepLoops, StepProcessClosed, StepProcessAccept, StepProcessRead,
     StepProcessWrite DEF Periodic
<1>5. CASE UNCHANGED vars
  BY <1>5, GlueStutter
<1> QED BY <1>1, <1>2, <1>3, <1>4, <1>5 DEF Next

LEMMA GlueInit == Init => GlueInv
<1> SUFFICES ASSUME Init PROVE GlueInv
  OBVIOUS
<1>0. NSlots \in Nat /\ MaxPending \in Nat /\ Slots = 1 .. NSlots
  BY AppGlueAssumption DEF Slots
<1>1. pool \in Seq(Slots) /\ DOMAIN pool = 1 .. NSlots /\ \A i \in 1 .. NSlots : pool[i] = i
  <2>1. pool = [i \in 1 .. NSlots |-> i]
    BY DEF Init
  <2>2. pool \in [1 .. NSlots -> Slots]
    BY <1>0, <2>1
  <2> QED BY <1>0, <2>1, <2>2, SeqDef
<1>2. <<>> \in Seq(Slots)
  OBVIOUS
<1>3. TypeOK
  BY <1>0, <1>1, <1>2 DEF Init, TypeOK
<1>4. OneListener /\ fault # "exit"
  BY DEF Init, OneListener
<1>5. ListsSound /\ LensSound
  <2>1. ASSUME NEW n \in Names PROVE ListSound(n)
    BY DEF Init, ListSound, Once, In
  <2>2. LensSound
    BY NamesFinite DEF Init, LensSound
  <2> QED BY <2>1, <2>2 DEF ListsSound
<1>6. PoolSound
  BY <1>1 DEF Init, PoolSound, Once
<1>7. ASSUME NEW s \in Slots PROVE HeldSound(s) /\ SlotSound(s)
  <2>1. refs[s] = 0 /\ present[s] = {} /\ state[s] = "freed" /\ s \notin handed
    BY DEF Init
  <2>2. Flags(s) = 0 /\ Own(s) = 0
    BY <2>1, FS_EmptySet DEF Flags, Own
  <2>3. ~Attached(s)
    BY <1>0 DEF Init, Attached, NULL
  <2> QED BY <2>1, <2>2, <2>3 DEF HeldSound, SlotSound, Wanted
<1>8. \A c \in Conns : ConnSound(c)
  BY DEF Init, ConnSound
<1> QED BY <1>3, <1>4, <1>5, <1>6, <1>7, <1>8 DEF GlueInv, Sound

\* The inductive invariant.
THEOREM GlueInvariant == Spec => []GlueInv
  BY GlueInit, GlueStep, PTL DEF Spec

\* TypeOK holds in every reachable state, for any number of connections, slots and
\* waiting connections: the lengths that the loops count down stay natural numbers,
\* also in the step after which everything is undefined.
THEOREM GlueTypeCorrect == Spec => []TypeOK
<1>1. GlueInv => TypeOK
  BY DEF GlueInv
<1> QED BY <1>1, GlueInvariant, PTL

\* ListsConsistent holds in every reachable state: the flags, the entries and the
\* lengths of the four lists agree, whatever callbacks, commands and iterations of
\* app_glue_periodic follow each other, and app_glue_sock_readable never exits.
THEOREM ListsStayConsistent == Spec => []ListsConsistent
<1>1. ASSUME GlueInv PROVE ListsConsistent
  <2>1. ASSUME Sound, TypeOK, NEW n \in Names, NEW s \in Slots
        PROVE  Cardinality({i \in DOMAIN lists[n] : lists[n][i] = s})
                 = IF n \in present[s] THEN 1 ELSE 0
    <3>1. PICK q : q = lists[n]
      OBVIOUS
    <3>2. Once(q) /\ (In(s, q) <=> n \in present[s])
      BY <2>1, <3>1 DEF Sound, ListsSound, ListSound
    <3>3. CASE n \in present[s]
      <4>1. PICK j \in DOMAIN q : q[j] = s
        BY <3>2, <3>3 DEF In
      <4>2. {i \in DOMAIN q : q[i] = s} = {j}
        BY <3>2, <4>1 DEF Once
      <4>3. Cardinality({j}) = 1
        BY FS_Singleton
      <4> QED BY <3>1, <3>3, <4>2, <4>3
    <3>4. CASE n \notin present[s]
      <4>1. {i \in DOMAIN q : q[i] = s} = {}
        BY <3>2, <3>4 DEF In
      <4> QED BY <3>1, <3>4, <4>1, FS_EmptySet
    <3> QED BY <3>3, <3>4
  <2> QED BY <1>1, <2>1 DEF GlueInv, ListsConsistent, Sound, LensSound
<1> QED BY <1>1, GlueInvariant, PTL

\* HeldWhileListed holds in every reachable state: until something undefined happens
\* the sk of a socket outlives its entries in the lists, so the sock_put of a loop
\* never frees one too early, and no count falls below zero, although the CLOSE of a
\* connection that was reset puts a reference nobody took.
THEOREM HeldWhileInAList == Spec => []HeldWhileListed
<1>1. ASSUME GlueInv PROVE HeldWhileListed
  <2>1. ASSUME Sound, NEW s \in Slots
        PROVE  refs[s] >= Cardinality(Listed(s)) + (IF state[s] = "freed" THEN 0 ELSE 1)
    <3>1. Listed(s) = present[s]
      <4>1. \A n \in Names : In(s, lists[n]) <=> n \in present[s]
        BY <2>1 DEF Sound, ListsSound, ListSound
      <4> QED BY <1>1, <4>1, Typed DEF Listed, GlueInv
    <3>2. HeldSound(s)
      BY <2>1 DEF Sound
    <3> QED BY <3>1, <3>2 DEF HeldSound, Flags, Own
  <2> QED BY <1>1, <2>1 DEF GlueInv, HeldWhileListed
<1> QED BY <1>1, GlueInvariant, PTL

\* DanglingOnlyByReset holds in every reachable state: until something undefined
\* happens, app_glue_close_socket and the loops leave no pointer to a freed socket,
\* with the one exception of a reset, and no socket serves two connections.
THEOREM OnlyResetsDangle == Spec => []DanglingOnlyByReset
<1>1. ASSUME GlueInv PROVE DanglingOnlyByReset
  <2> SUFFICES ASSUME fault = "none"
               PROVE  /\ \A s \in Slots : Referenced(s) /\ s \notin fatal =>
                                            state[s] # "freed" /\ ~In(s, pool)
                      /\ \A c \in Conns : table[c] # NULL => user[table[c]] = c
                      /\ \A c, d \in Conns : table[c] = table[d] /\ table[c] # NULL => c = d
    BY DEF DanglingOnlyByReset
  <2>1. TypeOK /\ Sound
    BY <1>1 DEF GlueInv
  <2>2. ASSUME NEW s \in Slots, Referenced(s), s \notin fatal
        PROVE  state[s] # "freed" /\ ~In(s, pool)
    <3>1. Wanted(s)
      BY <2>1, <2>2, NotWanted DEF Sound
    <3> QED BY <2>1, <2>2, <3>1 DEF Sound, SlotSound, PoolSound
  <2>3. \A c \in Conns : table[c] # NULL => user[table[c]] = c
    BY <2>1 DEF Sound, ConnSound
  <2> QED BY <2>2, <2>3
<1> QED BY <1>1, GlueInvariant, PTL

\* What is freed and still referenced was freed by the closed list.
LEMMA FreedByReset ==
  ASSUME TypeOK, Sound, NEW s \in Slots, Referenced(s), state[s] = "freed"
  PROVE  \E t \in fatal : Referenced(t)
<1>1. Wanted(s)
  BY NotWanted DEF Sound
<1>2. s \in fatal
  BY <1>1 DEF Sound, SlotSound
<1> QED BY <1>2

\* A slot that is handed out comes from the pool.
LEMMA DanglesByReset ==
  ASSUME TypeOK, Sound, NEW I, I \subseteq DOMAIN pool, Dangles({pool[i] : i \in I})
  PROVE  \E t \in fatal : Referenced(t)
<1>1. PICK i \in DOMAIN pool : Referenced(pool[i])
  BY DEF Dangles
<1>2. pool[i] \in Slots /\ In(pool[i], pool)
  BY DEF TypeOK, In
<1>3. state[pool[i]] = "freed"
  BY <1>2 DEF Sound, PoolSound
<1> QED BY <1>1, <1>2, <1>3, FreedByReset

LEMMA StaleStep ==
  ASSUME GlueInv, [Next]_vars
  PROVE  [fault' = "stale" => \E s \in fatal : Referenced(s)]_vars
<1> SUFFICES ASSUME Next, fault' = "stale" PROVE \E s \in fatal : Referenced(s)
  OBVIOUS
<1>1. fault = "none" /\ TypeOK /\ Sound
  <2>1. fault = "none"
    BY DEF Next, Callback, Command, Periodic, SockReadable, SockWriteSpace, Established, Refused,
           NewConnection, PeerCloses, Reset, Create, Connect, Listen, SetSocketSelect, Kick,
           ExecClose, SetSocketRing, ExecDecline, StartRx, StartTx, NextList, ProcessClosed,
           ProcessAccept, ProcessRead, ProcessWrite, Idle
  <2> QED BY <2>1 DEF GlueInv
<1>2. ASSUME NEW s \in Slots, Attached(s) \/ s \in handed, SkFreed(s)
      PROVE  \E t \in fatal : Referenced(t)
  <2>1. Referenced(s) /\ state[s] = "freed"
    BY <1>2 DEF Referenced, SkFreed
  <2> QED BY <1>1, <2>1, FreedByReset
<1>3. ASSUME NEW s \in Slots, Attached(s) \/ s \in handed, CloseSocket(s)
      PROVE  \E t \in fatal : Referenced(t)
  <2>1. PICK tried : /\ tried \subseteq DOMAIN pool
                     /\ SkFreed(s) \/ Dangles({pool[i] : i \in tried})
    <3>1. PICK tried :
            /\ tried = IF "accept" \in present[s] THEN DOMAIN pool \cap (1 .. pending + 1) ELSE {}
            /\ fault' = IF SkFreed(s) \/ Dangles({pool[i] : i \in tried}) THEN "stale" ELSE fault
      BY <1>3 DEF CloseSocket, KernelClose, StaleIf
    <3> QED BY <1>1, <3>1
  <2> QED BY <1>1, <1>2, <1>3, <2>1, DanglesByReset
<1>4. ASSUME NEW c \in Conns, table[c] # NULL
      PROVE  table[c] \in Slots /\ Attached(table[c])
  BY <1>1, <1>4 DEF TypeOK, Attached
<1>5. CASE \E c \in Conns : SetSocketSelect(c) \/ Kick(c)
  <2>1. PICK c \in Conns : table[c] # NULL /\ fault' = IF SkFreed(table[c]) THEN "stale" ELSE fault
    BY <1>5 DEF SetSocketSelect, Kick, StaleIf
  <2> QED BY <1>1, <1>2, <1>4, <2>1
<1>6. CASE \E c \in Conns, s \in Slots : SetSocketRing(c, s)
  <2>1. PICK s \in Slots : s \in handed /\ fault' = IF SkFreed(s) THEN "stale" ELSE fault
    BY <1>6 DEF SetSocketRing, StaleIf
  <2> QED BY <1>1, <1>2, <2>1
<1>7. CASE \E c \in Conns : ExecClose(c)
  <2>1. PICK c \in Conns : table[c] # NULL /\ CloseSocket(table[c])
    BY <1>7 DEF ExecClose
  <2> QED BY <1>3, <1>4, <2>1
<1>8. CASE \E s \in Slots : ExecDecline(s)
  BY <1>3, <1>8 DEF ExecDecline
<1>9. CASE \E c \in Conns, type \in {"new", "dgram"}, sel \in BOOLEAN : Create(c, type, sel)
  <2>1. pool # <<>> /\ pool \in Seq(Slots)
        /\ fault' = IF Dangles({Head(pool)}) THEN "stale" ELSE fault
    BY <1>1, <1>9 DEF Create, StaleIf, TypeOK
  <2>2. {1} \subseteq DOMAIN pool /\ {pool[i] : i \in {1}} = {Head(pool)}
    BY <2>1
  <2> QED BY <1>1, <2>1, <2>2, DanglesByReset
<1>10. CASE ProcessAccept
  <2>1. Dangles({pool[i] : i \in DOMAIN pool \cap (1 .. Accepts + 1)})
    BY <1>1, <1>10 DEF ProcessAccept, StaleIf, Tried
  <2> QED BY <1>1, <2>1, DanglesByReset
<1>11. CASE \/ Callback \/ StartRx \/ StartTx \/ NextList \/ ProcessClosed \/ ProcessRead
            \/ ProcessWrite \/ \E c \in Conns : Connect(c) \/ Listen(c)
  BY <1>1, <1>11 DEF Callback, SockReadable, SockWriteSpace, Established, Refused, NewConnection,
       PeerCloses, Reset, Connect, Listen, StartRx, StartTx, NextList, ProcessClosed, ProcessRead,
       ProcessWrite
<1> QED BY <1>5, <1>6, <1>7, <1>8, <1>9, <1>10, <1>11 DEF Next, Command, Periodic

\* StaleOnlyByReset holds of every step, for any number of connections and slots: the
\* service meets no freed socket and no freed sk before the closed list has freed a
\* socket under its connection, so closing, declining, accepting and reusing slots
\* are safe by themselves.
THEOREM ResetsComeFirst == Spec => StaleOnlyByReset
<1>1. GlueInv /\ [Next]_vars => [fault' = "stale" => \E s \in fatal : Referenced(s)]_vars
  BY StaleStep
<1> QED BY <1>1, GlueInvariant, PTL DEF Spec, StaleOnlyByReset
===========================================================================
