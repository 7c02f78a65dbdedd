---------------------------- MODULE TxPathProofs ----------------------------
(***************************************************************************)
(* The inductive invariant of TxPath, and the proofs that tx_space drifts  *)
(* only by what the stack returns, that what was sent leaves in order,     *)
(* that the transmit path implements a stream, and that what is left in    *)
(* tx_ring is noticed, for any number of connections and any sizes.        *)
(***************************************************************************)
EXTENDS TxPath, FiniteSetTheorems, SequenceTheorems, TLAPS

Serving == {"clear", "count", "send", "page", "clear2", "burst", "mark", "post"}
Callers == {"command", "txready", "starved"}

\* Buffers of a connection in tx_ring, in the send queue and acknowledged.
Waiting(c) == Len(txRing[c])
Queued(c) == Len(sendQueue[c])
Acks(c) == Len(acked[c])

\* The service is at a socket it may touch, and has the counts of this round.
SvcSound ==
  /\ svc.step \in Serving => svc.conn \in Conns /\ svc.caller \in Callers
  /\ up /\ svc.step \in Serving => attached[svc.conn]
  /\ svc.step \in {"send", "page"} => svc.conn \notin Datagrams
  /\ svc.step = "page" => svc.goal + svc.took \in SizeGoals
  /\ svc.step = "burst" => svc.conn \in Datagrams /\ svc.goal <= Waiting(svc.conn)
  /\ svc.step \in Serving /\ svc.caller = "starved" => starved # <<>>

\* The commands of a connection come in the order of its life: SET_RING before
\* everything else, CLOSE after everything else.
CommandsSound ==
  \A i \in DOMAIN commands :
    /\ commands[i].op = "SET_RING" =>
         /\ ~attached[commands[i].conn] /\ sent[commands[i].conn] = 0
         /\ acked[commands[i].conn] = <<>> /\ sendQueue[commands[i].conn] = <<>>
         /\ drift[commands[i].conn] = 0 /\ commands[i].conn \notin Datagrams
         /\ \A j \in DOMAIN commands : commands[j].conn = commands[i].conn => j >= i
    /\ commands[i].op = "SELECT" =>
         \/ attached[commands[i].conn]
         \/ \E j \in DOMAIN commands : /\ j < i /\ commands[j].op = "SET_RING"
                                       /\ commands[j].conn = commands[i].conn
    /\ commands[i].op = "CLOSE" =>
         /\ commands[i].conn \notin open
         /\ \A j \in DOMAIN commands : commands[j].conn = commands[i].conn => j <= i

\* What is left of a connection without a socket, and what the application may
\* know of it.
ConnsSound ==
  \A c \in Conns :
    /\ parent[c] => attached[c]
    /\ ~attached[c] => txRing[c] = <<>> /\ c \notin writeQueue
    /\ c \in open => \A i \in DOMAIN readyRing : readyRing[i] = c => attached[c]
    /\ c \in ready => c \in open /\ attached[c]

\* The application does not send more than it has, nor more than tx_space.
AppSound ==
  /\ at \in {"select", "run"} => cur = NONE
  /\ at \notin {"select", "run"} => cur \in open /\ cur \in Conns /\ attached[cur]
  /\ at \in {"low", "notify", "send", "enqueue", "sub"} => want <= txSpace[cur]
  /\ at \in {"low", "notify", "send", "enqueue"} => sent[cur] + want <= MaxData
  /\ at = "sub" => sent[cur] + want <= MaxData + 1
  /\ at \in {"enqueue", "sub"} => want >= 1

Fill(c) == IF c \in Short THEN ShortRoom ELSE SndBuf

\* The rings do not overflow.
BoundsSound ==
  \A c \in Conns :
    /\ Waiting(c) < TxRingSize
    /\ c \in Datagrams => Queued(c) <= Fill(c) /\ txSpace[c] <= SndBuf

\* TxStreamIntact, element by element: buffers 1 .. n were sent, the lr ones of r
\* are in tx_ring, the lq of q in the send queue and the la of a acknowledged.
Exact(a, la, q, lq, r, lr, n) ==
  /\ \A i \in 1 .. lr : r[i] = n - lr + i
  /\ \A i \in 1 .. la : a[i] = i
  /\ \A i \in 1 .. lq : q[i] = la + i
  /\ la + lq + lr = n

\* Some were lost between r and q.
Loose(a, la, q, lq, r, lr, n) ==
  /\ \A i \in 1 .. lr : r[i] = n - lr + i
  /\ \A i, j \in 1 .. la : i < j => a[i] < a[j]
  /\ \A i, j \in 1 .. lq : i < j => q[i] < q[j]
  /\ \A i \in 1 .. la, j \in 1 .. lq : a[i] < q[j]
  /\ \A i \in 1 .. la : i <= a[i] /\ a[i] <= n - lr
  /\ \A i \in 1 .. lq : la + i <= q[i] /\ q[i] <= n - lr
  /\ la + lq + lr <= n

ExactParts(c) == Exact(acked[c], Acks(c), sendQueue[c], Queued(c), txRing[c], Waiting(c),
                       sent[c])
LooseParts(c) == Loose(acked[c], Acks(c), sendQueue[c], Queued(c), txRing[c], Waiting(c),
                       sent[c])
\* A stream that was closed: what was in tx_ring is gone, the rest is in order.
ClosedParts(c) ==
  /\ Exact(acked[c], Acks(c), sendQueue[c], Queued(c), txRing[c], Waiting(c),
           Acks(c) + Queued(c) + Waiting(c))
  /\ Acks(c) + Queued(c) + Waiting(c) <= sent[c]
StreamParts ==
  \A c \in Conns :
    /\ c \in Datagrams => LooseParts(c)
    /\ c \notin Datagrams => IF attached[c] THEN ExactParts(c) ELSE ClosedParts(c)

TxInv ==
  /\ TypeOK /\ SvcSound /\ CommandsSound /\ ConnsSound /\ AppSound /\ BoundsSound
  /\ TxSpaceAccurate /\ StreamParts

---------------------------------------------------------------------------
(* Constants, types and the states of the service.                         *)

\* The assumptions, as the provers use them.
LEMMA Sizes ==
  /\ MaxData \in Nat /\ MaxDrains \in Nat /\ SndBuf \in Nat /\ SndBuf > 0
  /\ ShortRoom \in Nat /\ ShortRoom > 0 /\ ShortRoom <= SndBuf
  /\ SizeGoals \subseteq Nat /\ GiveBacks \subseteq Nat
  /\ TxRingSize \in Nat /\ TxRingSize > 1
  BY TxPathAssumption

Steps == {"idle", "notify"} \cup Serving
SvcRecs == [step : {"idle", "notify", "clear", "count", "send", "page", "clear2",
                    "burst", "mark", "post"},
            conn : Conns \cup {NONE}, goal : Nat, took : Nat, caller : {"command", "txready", "starved", NONE}]
CommandRecs == [op : {"SET_RING", "SELECT", "TX_KICK", "POOL_EMPTY", "CLOSE"}, conn : Conns]

Ops == {"SET_RING", "SELECT", "TX_KICK", "POOL_EMPTY", "CLOSE"}

\* TypeOK in groups of variables.
TypeRings == /\ txRing \in [Conns -> Seq(Numbers)] /\ sendQueue \in [Conns -> Seq(Numbers)]
             /\ acked \in [Conns -> Seq(Numbers)] /\ txSpace \in [Conns -> Nat]
             /\ drift \in [Conns -> Int] /\ finned \in SUBSET Conns
TypeFlags == /\ writeReady \in [Conns -> BOOLEAN] /\ writeDone \in [Conns -> BOOLEAN]
             /\ noSpace \in [Conns -> BOOLEAN] /\ parent \in [Conns -> BOOLEAN]
             /\ attached \in [Conns -> BOOLEAN] /\ kind \in [Conns -> Kinds]
TypeLists == /\ commands \in Seq(CommandRecs) /\ readyRing \in Seq(Conns)
             /\ starved \in Seq(Conns) /\ writeQueue \in SUBSET Conns
TypeSvc == svc \in SvcRecs /\ up \in BOOLEAN /\ dry \in BOOLEAN /\ drains \in 0 .. MaxDrains
TypeApp == /\ open \in SUBSET Conns /\ ready \in SUBSET Conns /\ sent \in [Conns -> 0 .. MaxData]
           /\ at \in {"select", "run", "low", "notify", "send", "enqueue", "sub", "kick",
                      "kickcmd"}
           /\ cur \in Conns \cup {NONE} /\ want \in 0 .. MaxData

LEMMA TypeGroups == TypeOK => TypeRings /\ TypeFlags /\ TypeLists /\ TypeSvc /\ TypeApp
<1> SUFFICES ASSUME TypeOK PROVE TypeRings /\ TypeFlags /\ TypeLists /\ TypeSvc /\ TypeApp
  OBVIOUS
<1>1. TypeRings
  BY DEF TypeOK, TypeRings
<1>2. TypeFlags
  BY DEF TypeOK, TypeFlags
<1>3. TypeLists
  BY DEF TypeOK, TypeLists, CommandRecs
<1>4. TypeSvc
  BY DEF TypeOK, TypeSvc, SvcRecs
<1>5. TypeApp
  BY DEF TypeOK, TypeApp
<1> QED BY <1>1, <1>2, <1>3, <1>4, <1>5

LEMMA TypeMade == TypeRings /\ TypeFlags /\ TypeLists /\ TypeSvc /\ TypeApp => TypeOK
  BY DEF TypeOK, TypeRings, TypeFlags, TypeLists, TypeSvc, TypeApp, SvcRecs, CommandRecs

LEMMA TypeNext == TypeRings' /\ TypeFlags' /\ TypeLists' /\ TypeSvc' /\ TypeApp' => TypeOK'
  BY TypeMade, PTL

\* The same, at one connection and at one command.
LEMMA TypedConn ==
  ASSUME TypeOK, NEW c \in Conns
  PROVE  /\ txRing[c] \in Seq(Numbers) /\ sendQueue[c] \in Seq(Numbers)
         /\ acked[c] \in Seq(Numbers)
         /\ txSpace[c] \in Nat /\ drift[c] \in Int /\ sent[c] \in Nat /\ sent[c] <= MaxData
         /\ Waiting(c) \in Nat /\ Queued(c) \in Nat /\ Acks(c) \in Nat
<1>1. /\ txRing[c] \in Seq(Numbers) /\ sendQueue[c] \in Seq(Numbers)
      /\ acked[c] \in Seq(Numbers)
  BY TypeGroups DEF TypeRings
<1>2. txSpace[c] \in Nat /\ drift[c] \in Int /\ sent[c] \in Nat /\ sent[c] <= MaxData
  BY TypeGroups, Sizes DEF TypeRings, TypeApp
<1> QED BY <1>1, <1>2, LenProperties DEF Waiting, Queued, Acks

LEMMA TypedCommand ==
  ASSUME TypeOK, NEW i \in DOMAIN commands
  PROVE  /\ commands[i].conn \in Conns /\ i \in 1 .. Len(commands) /\ Len(commands) \in Nat
         /\ commands[i].op \in Ops
<1>1. commands \in Seq(CommandRecs)
  BY TypeGroups DEF TypeLists
<1>2. commands[i] \in CommandRecs /\ i \in 1 .. Len(commands) /\ Len(commands) \in Nat
  BY <1>1, ElementOfSeq, LenProperties
<1> QED BY <1>2 DEF CommandRecs, Ops

LEMMA TypedSvc ==
  ASSUME TypeOK
  PROVE  svc \in SvcRecs /\ svc.goal \in Nat /\ svc.took \in Nat /\ want \in Nat
<1>1. svc \in SvcRecs /\ want \in 0 .. MaxData
  BY TypeGroups DEF TypeSvc, TypeApp
<1> QED BY <1>1, Sizes DEF SvcRecs

\* What the parts of the invariant say of one connection.
LEMMA SpaceAt ==
  ASSUME TxSpaceAccurate, NEW c \in Conns, c \notin Datagrams, attached[c]
  PROVE  txSpace[c] + Waiting(c) + Queued(c)
           = SndBuf + drift[c] + (IF cur = c /\ at = "sub" THEN 1 ELSE 0)
  BY DEF TxSpaceAccurate, Waiting, Queued

LEMMA SpaceFrom ==
  ASSUME \A c \in Conns : c \notin Datagrams /\ attached[c] =>
           txSpace[c] + Waiting(c) + Queued(c)
             = SndBuf + drift[c] + (IF cur = c /\ at = "sub" THEN 1 ELSE 0)
  PROVE  TxSpaceAccurate
  BY DEF TxSpaceAccurate, Waiting, Queued

LEMMA SpaceNext ==
  (\A c \in Conns : c \notin Datagrams /\ attached[c] =>
           txSpace[c] + Waiting(c) + Queued(c)
             = SndBuf + drift[c] + (IF cur = c /\ at = "sub" THEN 1 ELSE 0))'
  => TxSpaceAccurate'
  BY SpaceFrom, PTL

\* The records the service's state takes.
LEMMA SvcValues ==
  /\ Idle \in SvcRecs /\ Idle.step = "idle"
  /\ Notify \in SvcRecs /\ Notify.step = "notify"
  /\ \A c \in Conns, k \in Callers :
       /\ Opportunity(c, k) \in SvcRecs /\ Opportunity(c, k).step = "clear"
       /\ Opportunity(c, k).conn = c /\ Opportunity(c, k).caller = k
       /\ MarkFor(c, k) \in SvcRecs /\ MarkFor(c, k).step = "mark"
       /\ MarkFor(c, k).conn = c /\ MarkFor(c, k).caller = k
  BY Sizes DEF Idle, Notify, Opportunity, MarkFor, SvcRecs, Callers

LEMMA SvcMoves ==
  ASSUME NEW s \in SvcRecs, NEW t \in Steps
  PROVE  /\ [s EXCEPT !.step = t] \in SvcRecs /\ [s EXCEPT !.step = t].step = t
         /\ [s EXCEPT !.step = t].conn = s.conn /\ [s EXCEPT !.step = t].caller = s.caller
         /\ [s EXCEPT !.step = t].goal = s.goal /\ [s EXCEPT !.step = t].took = s.took
  BY DEF SvcRecs, Steps, Serving

LEMMA SvcRests ==
  ASSUME svc' \in {Idle, Notify}
  PROVE  SvcSound'
<1>1. svc'.step \notin Serving
  BY SvcValues DEF Serving
<1> QED BY <1>1 DEF SvcSound, Serving

\* What a return of ipaugenblick_mark_writable leaves.
LEMMA Returns ==
  ASSUME TypeOK, SvcSound, svc.step \in Serving, NEW keep \in BOOLEAN, Return(keep)
  PROVE  /\ svc' \in {Idle, Notify} /\ svc' \in SvcRecs
         /\ starved' \in Seq(Conns) /\ noSpace' \in [Conns -> BOOLEAN]
<1>1. svc.caller \in Callers /\ svc.conn \in Conns /\ starved \in Seq(Conns)
      /\ noSpace \in [Conns -> BOOLEAN] /\ (svc.caller = "starved" => starved # <<>>)
  BY TypeGroups DEF SvcSound, TypeLists, TypeFlags
<1>2. svc' \in {Idle, Notify} /\ svc' \in SvcRecs
  BY <1>1, SvcValues DEF Return, Callers
<1>3. starved' \in Seq(Conns)
  <2>1. starved # <<>> => Tail(starved) \in Seq(Conns)
    BY <1>1
  <2> QED BY <1>1, <2>1 DEF Return, Callers
<1>4. noSpace' \in [Conns -> BOOLEAN]
  BY <1>1 DEF Return, Callers
<1> QED BY <1>2, <1>3, <1>4

---------------------------------------------------------------------------
(* What happens to the parts of a stream.                                  *)

\* s2 is s with x at the end; s2 is s without its first element.
Longer(s, l, x, s2, l2) == /\ l2 = l + 1 /\ s2[l2] = x
                           /\ \A i \in 1 .. l : s2[i] = s[i]
Shorter(s, l, s2, l2) == l = l2 + 1 /\ \A i \in 1 .. l2 : s2[i] = s[i + 1]

\* goal elements leave r, the first done of them for q.
Burst(q, lq, r, lr, q2, lq2, r2, lr2, goal, done) ==
  /\ done <= goal /\ goal <= lr /\ lq2 = lq + done /\ lr = lr2 + goal
  /\ \A i \in 1 .. lq : q2[i] = q[i]
  /\ \A i \in lq + 1 .. lq2 : q2[i] = r[i - lq]
  /\ \A i \in 1 .. lr2 : r2[i] = r[goal + i]

Ints(s, l) == \A i \in 1 .. l : s[i] \in Int

\* An acknowledgement.
LEMMA AckExact ==
  ASSUME NEW a, NEW q, NEW r, NEW a2, NEW q2, NEW la \in Nat, NEW lq \in Nat,
         NEW lr \in Nat, NEW la2 \in Nat, NEW lq2 \in Nat, NEW n \in Nat,
         Exact(a, la, q, lq, r, lr, n), Longer(a, la, q[1], a2, la2), Shorter(q, lq, q2, lq2)
  PROVE  Exact(a2, la2, q2, lq2, r, lr, n)
<1> USE DEF Longer, Shorter
<1>1. q[1] = la + 1
  BY DEF Exact
<1>2. ASSUME NEW i \in 1 .. la2 PROVE a2[i] = i
  BY <1>1 DEF Exact
<1>3. ASSUME NEW i \in 1 .. lq2 PROVE q2[i] = la2 + i
  BY DEF Exact
<1> QED BY <1>2, <1>3 DEF Exact

LEMMA AckLoose ==
  ASSUME NEW a, NEW q, NEW r, NEW a2, NEW q2, NEW la \in Nat, NEW lq \in Nat,
         NEW lr \in Nat, NEW la2 \in Nat, NEW lq2 \in Nat, NEW n \in Nat,
         Ints(a, la), Ints(q, lq),
         Loose(a, la, q, lq, r, lr, n), Longer(a, la, q[1], a2, la2), Shorter(q, lq, q2, lq2)
  PROVE  Loose(a2, la2, q2, lq2, r, lr, n)
<1> USE DEF Longer, Shorter, Ints
<1>1. /\ q[1] \in Int /\ la + 1 <= q[1] /\ q[1] <= n - lr
      /\ \A i \in 1 .. la : a[i] < q[1]
      /\ \A j \in 2 .. lq : q[1] < q[j]
  BY DEF Loose
<1>2. ASSUME NEW i \in 1 .. la2, NEW j \in 1 .. la2, i < j PROVE a2[i] < a2[j]
  BY <1>1, <1>2 DEF Loose
<1>3. ASSUME NEW i \in 1 .. lq2, NEW j \in 1 .. lq2, i < j PROVE q2[i] < q2[j]
  BY <1>3 DEF Loose
<1>4. ASSUME NEW i \in 1 .. la2, NEW j \in 1 .. lq2 PROVE a2[i] < q2[j]
  BY <1>1 DEF Loose
<1>5. ASSUME NEW i \in 1 .. la2 PROVE i <= a2[i] /\ a2[i] <= n - lr
  BY <1>1 DEF Loose
<1>6. ASSUME NEW i \in 1 .. lq2 PROVE la2 + i <= q2[i] /\ q2[i] <= n - lr
  BY DEF Loose
<1> QED BY <1>2, <1>3, <1>4, <1>5, <1>6 DEF Loose

\* A buffer goes from tx_ring to the send queue.
\* What r held is dropped.
LEMMA LooseEmptied ==
  ASSUME NEW a, NEW q, NEW r, NEW r2, NEW la \in Nat, NEW lq \in Nat, NEW lr \in Nat,
         NEW n \in Nat, Loose(a, la, q, lq, r, lr, n), Ints(a, la), Ints(q, lq)
  PROVE  Loose(a, la, q, lq, r2, 0, n)
<1>1. \A i \in 1 .. la : i <= a[i] /\ a[i] <= n - 0
  BY DEF Loose, Ints
<1>2. \A i \in 1 .. lq : la + i <= q[i] /\ q[i] <= n - 0
  BY DEF Loose, Ints
<1> QED BY <1>1, <1>2 DEF Loose

LEMMA MoveExact ==
  ASSUME NEW a, NEW q, NEW r, NEW q2, NEW r2, NEW la \in Nat, NEW lq \in Nat,
         NEW lr \in Nat, NEW lq2 \in Nat, NEW lr2 \in Nat, NEW n \in Nat,
         Exact(a, la, q, lq, r, lr, n), Longer(q, lq, r[1], q2, lq2), Shorter(r, lr, r2, lr2)
  PROVE  Exact(a, la, q2, lq2, r2, lr2, n)
<1> USE DEF Longer, Shorter
<1>1. r[1] = la + lq + 1
  BY DEF Exact
<1>2. ASSUME NEW i \in 1 .. lq2 PROVE q2[i] = la + i
  BY <1>1 DEF Exact
<1>3. ASSUME NEW i \in 1 .. lr2 PROVE r2[i] = n - lr2 + i
  BY DEF Exact
<1> QED BY <1>2, <1>3 DEF Exact

\* A burst of datagrams leaves tx_ring, the first of them for the send queue.
LEMMA BurstLoose ==
  ASSUME NEW a, NEW q, NEW r, NEW q2, NEW r2, NEW la \in Nat, NEW lq \in Nat,
         NEW lr \in Nat, NEW lq2 \in Nat, NEW lr2 \in Nat, NEW n \in Nat,
         Ints(a, la), Ints(q, lq),
         Loose(a, la, q, lq, r, lr, n),
         NEW goal \in Nat, NEW done \in Nat,
         Burst(q, lq, r, lr, q2, lq2, r2, lr2, goal, done)
  PROVE  Loose(a, la, q2, lq2, r2, lr2, n)
<1> USE DEF Burst, Ints
<1>1. ASSUME NEW i \in lq + 1 .. lq2 PROVE q2[i] = n - lr + i - lq
  <2>1. i - lq \in 1 .. lr
    OBVIOUS
  <2>2. r[i - lq] = n - lr + (i - lq)
    BY <2>1 DEF Loose
  <2> QED BY <2>2
<1>2. ASSUME NEW i \in 1 .. lr2 PROVE r2[i] = n - lr2 + i
  <2>1. goal + i \in 1 .. lr
    OBVIOUS
  <2>2. r[goal + i] = n - lr + (goal + i)
    BY <2>1 DEF Loose
  <2> QED BY <2>2
<1>3. \A i \in 1 .. lq2 : i \in 1 .. lq \/ i \in lq + 1 .. lq2
  OBVIOUS
<1>4. ASSUME NEW i \in 1 .. lq2, NEW j \in 1 .. lq2, i < j PROVE q2[i] < q2[j]
  BY <1>1, <1>3, <1>4 DEF Loose
<1>5. ASSUME NEW i \in 1 .. la, NEW j \in 1 .. lq2 PROVE a[i] < q2[j]
  BY <1>1, <1>3 DEF Loose
<1>6. ASSUME NEW i \in 1 .. lq2 PROVE la + i <= q2[i] /\ q2[i] <= n - lr2
  BY <1>1, <1>3 DEF Loose
<1>7. ASSUME NEW i \in 1 .. la PROVE i <= a[i] /\ a[i] <= n - lr2
  BY DEF Loose
<1> QED BY <1>2, <1>4, <1>5, <1>6, <1>7 DEF Loose

\* ipaugenblick_send adds a buffer.
LEMMA SendParts ==
  ASSUME NEW a, NEW q, NEW r, NEW r2, NEW la \in Nat, NEW lq \in Nat,
         NEW lr \in Nat, NEW lr2 \in Nat, NEW n \in Nat, NEW n2 \in Nat,
         Ints(a, la), Ints(q, lq),
         n2 = n + 1, Longer(r, lr, n2, r2, lr2)
  PROVE  /\ Exact(a, la, q, lq, r, lr, n) => Exact(a, la, q, lq, r2, lr2, n2)
         /\ Loose(a, la, q, lq, r, lr, n) => Loose(a, la, q, lq, r2, lr2, n2)
<1> USE DEF Longer, Ints
<1>1. ASSUME \A i \in 1 .. lr : r[i] = n - lr + i, NEW i \in 1 .. lr2
      PROVE  r2[i] = n2 - lr2 + i
  BY <1>1
<1>2. ASSUME Exact(a, la, q, lq, r, lr, n) PROVE Exact(a, la, q, lq, r2, lr2, n2)
  BY <1>1, <1>2 DEF Exact
<1>3. ASSUME Loose(a, la, q, lq, r, lr, n) PROVE Loose(a, la, q, lq, r2, lr2, n2)
  <2>1. n2 - lr2 = n - lr
    OBVIOUS
  <2> QED BY <1>1, <1>3, <2>1 DEF Loose
<1> QED BY <1>2, <1>3

---------------------------------------------------------------------------
(* The sequences, element by element.                                      *)

LEMMA Numbered == Numbers \subseteq Int
  BY Sizes DEF Numbers

LEMMA Elements ==
  ASSUME NEW s \in Seq(Numbers)
  PROVE  Ints(s, Len(s))
<1>1. Len(s) \in Nat /\ \A i \in 1 .. Len(s) : s[i] \in Numbers
  BY ElementOfSeq, LenProperties
<1> QED BY <1>1, Numbered DEF Ints

LEMMA Added ==
  ASSUME NEW s \in Seq(Numbers), NEW x \in Numbers
  PROVE  /\ Append(s, x) \in Seq(Numbers) /\ Len(Append(s, x)) \in Nat
         /\ Longer(s, Len(s), x, Append(s, x), Len(Append(s, x)))
  BY AppendProperties, LenProperties DEF Longer

LEMMA Taken ==
  ASSUME NEW s \in Seq(Numbers), s # <<>>
  PROVE  /\ Tail(s) \in Seq(Numbers) /\ Len(Tail(s)) \in Nat
         /\ Head(s) = s[1] /\ Head(s) \in Numbers
         /\ Shorter(s, Len(s), Tail(s), Len(Tail(s)))
<1>1. Tail(s) \in Seq(Numbers) /\ Len(s) \in Nat /\ Head(s) = s[1] /\ Head(s) \in Numbers
  OBVIOUS
<1>2. Len(Tail(s)) = Len(s) - 1 /\ Len(s) >= 1
  BY <1>1, LenProperties, EmptySeq
<1>3. \A i \in 1 .. Len(Tail(s)) : Tail(s)[i] = s[i + 1]
  BY <1>1, <1>2
<1> QED BY <1>1, <1>2, <1>3 DEF Shorter

\* The service is about to touch no count.
LEMMA SvcPlain ==
  ASSUME svc'.step \in Serving \ {"send", "page", "burst"}, svc'.conn \in Conns,
         svc'.caller \in Callers, up' => attached'[svc'.conn],
         svc'.caller = "starved" => starved' # <<>>
  PROVE  SvcSound'
  BY DEF SvcSound, Serving

LEMMA SvcAt ==
  ASSUME SvcSound, svc.step \in Serving
  PROVE  /\ svc.conn \in Conns /\ svc.caller \in Callers /\ (up => attached[svc.conn])
         /\ svc.caller = "starved" => starved # <<>>
  BY DEF SvcSound

\* The service moves to a step without counts.
PlainStep == \E t \in Serving \ {"send", "page", "burst"} : svc' = [svc EXCEPT !.step = t]

LEMMA SvcGoes ==
  ASSUME TypeOK, SvcSound, svc.step \in Serving, UNCHANGED <<up, attached, starved>>,
         NEW t \in Serving \ {"send", "page", "burst"}, svc' = [svc EXCEPT !.step = t]
  PROVE  svc' \in SvcRecs /\ SvcSound'
<1>1. svc \in SvcRecs /\ t \in Steps
  BY TypedSvc DEF Steps
<1>2. svc' \in SvcRecs /\ svc'.step = t /\ svc'.conn = svc.conn /\ svc'.caller = svc.caller
  BY <1>1, SvcMoves
<1> QED BY <1>2, SvcAt, SvcPlain

LEMMA ReturnsSound ==
  ASSUME TypeOK, SvcSound, svc.step \in Serving, NEW keep \in BOOLEAN, Return(keep)
  PROVE  SvcSound'
  BY Returns, SvcRests

LEMMA Least2 ==
  ASSUME NEW a \in Int, NEW b \in Int
  PROVE  Least({a, b}) \in {a, b} /\ Least({a, b}) <= a /\ Least({a, b}) <= b
<1>1. \E n \in {a, b} : \A m \in {a, b} : n <= m
  OBVIOUS
<1>2. Least({a, b}) \in {a, b} /\ \A m \in {a, b} : Least({a, b}) <= m
  BY <1>1, Zenon DEF Least
<1> QED BY <1>2

LEMMA Least3 ==
  ASSUME NEW a \in Int, NEW b \in Int, NEW d \in Int
  PROVE  /\ Least({a, b, d}) \in {a, b, d} /\ Least({a, b, d}) <= a
         /\ Least({a, b, d}) <= b /\ Least({a, b, d}) <= d
<1>1. \E n \in {a, b, d} : \A m \in {a, b, d} : n <= m
  OBVIOUS
<1>2. Least({a, b, d}) \in {a, b, d} /\ \A m \in {a, b, d} : Least({a, b, d}) <= m
  BY <1>1, Zenon DEF Least
<1> QED BY <1>2

LEMMA BurstTaken ==
  ASSUME NEW q \in Seq(Numbers), NEW r \in Seq(Numbers), NEW goal \in Nat, NEW done \in Nat,
         done <= goal, goal <= Len(r), NEW q2, NEW r2,
         q2 = q \o SubSeq(r, 1, done), r2 = SubSeq(r, goal + 1, Len(r))
  PROVE  /\ q2 \in Seq(Numbers) /\ r2 \in Seq(Numbers)
         /\ Len(q2) \in Nat /\ Len(r2) \in Nat
         /\ Burst(q, Len(q), r, Len(r), q2, Len(q2), r2, Len(r2), goal, done)
<1>1. Len(q) \in Nat /\ Len(r) \in Nat /\ \A i \in 1 .. Len(r) : r[i] \in Numbers
  BY LenProperties, ElementOfSeq
<1> DEFINE f == SubSeq(r, 1, done)
<1>2. /\ f \in Seq(Numbers) /\ Len(f) = done
      /\ \A i \in 1 .. done : f[i] = r[i]
  <2>1. \A i \in 1 .. done : r[i] \in Numbers
    BY <1>1
  <2>2. /\ f \in Seq(Numbers) /\ Len(f) = IF 1 <= done THEN done - 1 + 1 ELSE 0
        /\ \A i \in 1 .. done - 1 + 1 : f[i] = r[1 + i - 1]
    BY <2>1, SubSeqProperties
  <2> QED BY <2>2
<1>3. /\ r2 \in Seq(Numbers) /\ Len(r2) = Len(r) - goal
      /\ \A i \in 1 .. Len(r) - goal : r2[i] = r[goal + i]
  <2>1. \A i \in goal + 1 .. Len(r) : r[i] \in Numbers
    BY <1>1
  <2>2. /\ r2 \in Seq(Numbers)
        /\ Len(r2) = IF goal + 1 <= Len(r) THEN Len(r) - (goal + 1) + 1 ELSE 0
        /\ \A i \in 1 .. Len(r) - (goal + 1) + 1 : r2[i] = r[goal + 1 + i - 1]
    BY <1>1, <2>1, SubSeqProperties
  <2>3. Len(r) - (goal + 1) + 1 = Len(r) - goal
    BY <1>1
  <2>4. ASSUME NEW i \in 1 .. Len(r) - goal PROVE goal + 1 + i - 1 = goal + i
    BY <1>1
  <2> QED BY <1>1, <2>2, <2>3, <2>4
<1> HIDE DEF f
<1>4. /\ q2 \in Seq(Numbers) /\ Len(q2) = Len(q) + done
      /\ \A i \in 1 .. Len(q) + done : q2[i] = IF i <= Len(q) THEN q[i] ELSE f[i - Len(q)]
  <2>1. q2 = q \o f
    BY DEF f
  <2> QED BY <1>2, <2>1, ConcatProperties
<1>5. ASSUME NEW i \in 1 .. Len(q) PROVE q2[i] = q[i]
  BY <1>1, <1>4
<1>6. ASSUME NEW i \in Len(q) + 1 .. Len(q2) PROVE q2[i] = r[i - Len(q)]
  <2>1. i \in 1 .. Len(q) + done /\ ~(i <= Len(q)) /\ i - Len(q) \in 1 .. done
    BY <1>1, <1>4
  <2> QED BY <1>2, <1>4, <2>1
<1>7. Len(r) = Len(r2) + goal /\ Len(q2) \in Nat /\ Len(r2) \in Nat
  BY <1>1, <1>3, <1>4
<1>8. ASSUME NEW i \in 1 .. Len(r2) PROVE r2[i] = r[goal + i]
  BY <1>3
<1> QED BY <1>3, <1>4, <1>5, <1>6, <1>7, <1>8 DEF Burst

\* A command of an open connection at the end of command_ring.
LEMMA QueueSound ==
  ASSUME TypeOK, CommandsSound, NEW op \in {"TX_KICK", "POOL_EMPTY", "CLOSE"}, NEW c \in Conns,
         c \in open, commands' = Append(commands, [op |-> op, conn |-> c]),
         open' \subseteq open, op = "CLOSE" => c \notin open',
         UNCHANGED <<attached, sent, sendQueue, acked, drift, kind>>
  PROVE  CommandsSound' /\ commands' \in Seq(CommandRecs)
<1> DEFINE n == Len(commands)
           e == [op |-> op, conn |-> c]
<1>1. commands \in Seq(CommandRecs) /\ e \in CommandRecs /\ commands' = Append(commands, e)
  BY TypeGroups DEF TypeLists, CommandRecs
<1>2. e.op # "SET_RING" /\ e.op # "SELECT" /\ e.op = op /\ e.conn = c
  OBVIOUS
<1> HIDE DEF e
<1>3. /\ n \in Nat /\ DOMAIN commands = 1 .. n /\ DOMAIN commands' = 1 .. n + 1
      /\ \A i \in 1 .. n : commands'[i] = commands[i]
      /\ commands'[n + 1] = e /\ commands' \in Seq(CommandRecs)
  BY <1>1, AppendProperties, LenProperties
<1> HIDE DEF n
<1>4. \A i \in 1 .. n + 1 : i \in 1 .. n \/ i = n + 1
  BY <1>3
<1>5. Datagrams' = Datagrams
  BY DEF Datagrams
<1>6. ASSUME NEW i \in DOMAIN commands', commands'[i].op = "SET_RING"
      PROVE  /\ ~attached[commands'[i].conn] /\ sent[commands'[i].conn] = 0
             /\ acked[commands'[i].conn] = <<>> /\ sendQueue[commands'[i].conn] = <<>>
             /\ drift[commands'[i].conn] = 0 /\ commands'[i].conn \notin Datagrams
             /\ \A j \in DOMAIN commands' : commands'[j].conn = commands'[i].conn => j >= i
  <2>1. i \in 1 .. n /\ commands'[i] = commands[i]
    BY <1>2, <1>3, <1>4, <1>6
  <2> QED BY <1>2, <1>3, <1>4, <1>6, <2>1 DEF CommandsSound
<1>7. ASSUME NEW i \in DOMAIN commands', commands'[i].op = "SELECT"
      PROVE  \/ attached[commands'[i].conn]
             \/ \E j \in DOMAIN commands' : /\ j < i /\ commands'[j].op = "SET_RING"
                                            /\ commands'[j].conn = commands'[i].conn
  <2>1. i \in 1 .. n /\ commands'[i] = commands[i]
    BY <1>2, <1>3, <1>4, <1>7
  <2> QED BY <1>3, <1>7, <2>1 DEF CommandsSound
<1>8. ASSUME NEW i \in DOMAIN commands', commands'[i].op = "CLOSE"
      PROVE  /\ commands'[i].conn \notin open'
             /\ \A j \in DOMAIN commands' : commands'[j].conn = commands'[i].conn => j <= i
  <2>1. CASE i = n + 1
    BY <1>2, <1>3, <1>8, <2>1
  <2>2. CASE i \in 1 .. n
    <3>1. commands[i].op = "CLOSE" /\ commands'[i] = commands[i]
      BY <1>3, <1>8, <2>2
    <3>2. /\ commands[i].conn \notin open /\ commands[i].conn # c
          /\ \A j \in 1 .. n : commands[j].conn = commands[i].conn => j <= i
      BY <1>3, <2>2, <3>1 DEF CommandsSound
    <3> QED BY <1>2, <1>3, <1>4, <3>1, <3>2
  <2> QED BY <1>3, <1>4, <2>1, <2>2
<1> QED BY <1>3, <1>5, <1>6, <1>7, <1>8 DEF CommandsSound

---------------------------------------------------------------------------
(* The commands the service executes, one by one.                          *)

Executes(op, c) ==
  /\ up /\ svc = Idle /\ commands # <<>> /\ commands' = Tail(commands)
  /\ Head(commands).op = op /\ Head(commands).conn = c
  /\ UNCHANGED <<writeReady, writeDone, readyRing, env, acked, drift, finned, noSpace, up, appVars>>
ExecSetRing(c) ==
  /\ Executes("SET_RING", c)
  /\ attached' = [attached EXCEPT ![c] = TRUE]
  /\ txSpace' = [txSpace EXCEPT ![c] = SndBuf]
  /\ svc' = MarkFor(c, "command")
  /\ UNCHANGED <<parent, starved, txRing, sendQueue, writeQueue>>
ExecSelect(c) ==
  /\ Executes("SELECT", c)
  /\ parent' = [parent EXCEPT ![c] = TRUE]
  /\ svc' = MarkFor(c, "command")
  /\ UNCHANGED <<attached, starved, txRing, txSpace, sendQueue, writeQueue>>
ExecTxKick(c) ==
  /\ Executes("TX_KICK", c)
  /\ svc' = IF attached[c] THEN Opportunity(c, "command") ELSE Notify
  /\ UNCHANGED <<attached, parent, starved, txRing, txSpace, sendQueue, writeQueue>>
ExecPoolEmpty(c) ==
  /\ Executes("POOL_EMPTY", c)
  /\ starved' \in {starved, Append(starved, c)}
  /\ \/ txSpace' = txSpace
     \/ c \in Datagrams /\ txSpace' = [txSpace EXCEPT ![c] = SndBuf]
  /\ svc' = Notify
  /\ UNCHANGED <<attached, parent, txRing, sendQueue, writeQueue>>
ExecClose(c) ==
  /\ Executes("CLOSE", c)
  /\ txRing' = [txRing EXCEPT ![c] = <<>>]
  /\ \E rest \in {sendQueue[c]} \cup (IF c \in Datagrams THEN {} ELSE {<<>>}) :
       sendQueue' = [sendQueue EXCEPT ![c] = rest]
  /\ writeQueue' = writeQueue \ {c}
  /\ attached' = [attached EXCEPT ![c] = FALSE]
  /\ parent' = [parent EXCEPT ![c] = FALSE]
  /\ svc' = Notify
  /\ UNCHANGED <<starved, txSpace>>

LEMMA CommandsTaken ==
  ASSUME TypeOK, commands # <<>>, commands' = Tail(commands)
  PROVE  /\ commands' \in Seq(CommandRecs)
         /\ 1 \in DOMAIN commands /\ Head(commands) = commands[1]
         /\ DOMAIN commands \subseteq Nat \ {0} /\ DOMAIN commands' \subseteq Nat \ {0}
         /\ \A i \in DOMAIN commands' :
              \E k \in DOMAIN commands : k = i + 1 /\ commands'[i] = commands[k]
         /\ \A k \in DOMAIN commands :
              k # 1 => \E i \in DOMAIN commands' : k = i + 1 /\ commands'[i] = commands[k]
<1>1. commands \in Seq(CommandRecs)
  BY TypeGroups DEF TypeLists
<1>2. PICK n \in Nat : n = Len(commands)
  BY <1>1, LenProperties
<1>3. /\ commands' \in Seq(CommandRecs) /\ Len(commands') = n - 1 /\ n >= 1
      /\ \A i \in 1 .. Len(commands') : commands'[i] = commands[i + 1]
      /\ Head(commands) = commands[1] /\ DOMAIN commands = 1 .. n
  BY <1>1, <1>2, HeadTailProperties, LenProperties, EmptySeq
<1>4. DOMAIN commands' = 1 .. n - 1 /\ \A i \in 1 .. n - 1 : commands'[i] = commands[i + 1]
  BY <1>3, LenProperties
<1>5. ASSUME NEW i \in DOMAIN commands'
      PROVE  \E k \in DOMAIN commands : k = i + 1 /\ commands'[i] = commands[k]
  <2>1. i + 1 \in DOMAIN commands
    BY <1>2, <1>3, <1>4
  <2> QED BY <1>4, <2>1
<1>6. ASSUME NEW k \in DOMAIN commands, k # 1
      PROVE  \E i \in DOMAIN commands' : k = i + 1 /\ commands'[i] = commands[k]
  <2>1. k - 1 \in 1 .. n - 1 /\ k = (k - 1) + 1
    BY <1>2, <1>3, <1>6
  <2>2. commands'[k - 1] = commands[k]
    BY <1>4, <2>1
  <2> QED BY <1>4, <2>1, <2>2
<1>7. /\ 1 \in DOMAIN commands /\ Head(commands) = commands[1]
      /\ DOMAIN commands \subseteq Nat \ {0} /\ DOMAIN commands' \subseteq Nat \ {0}
  BY <1>2, <1>3, <1>4
<1> QED BY <1>3, <1>5, <1>6, <1>7

\* Executing a command leaves the others in order.
LEMMA CommandsStay ==
  ASSUME TypeOK, CommandsSound, NEW op \in Ops, NEW c \in Conns, Executes(op, c),
         \A d \in Conns : d # c => attached'[d] = attached[d] /\ sendQueue'[d] = sendQueue[d],
         \/ op = "CLOSE"
         \/ op = "SET_RING" /\ attached'[c]
         \/ op # "SET_RING" /\ attached'[c] = attached[c]
  PROVE  CommandsSound' /\ commands' \in Seq(CommandRecs)
<1>1. /\ commands # <<>> /\ commands' = Tail(commands)
      /\ commands[1].op = op /\ commands[1].conn = c
      /\ UNCHANGED <<sent, acked, drift, finned, open, kind>>
  BY CommandsTaken DEF Executes, env, appVars, tcp
<1>2. /\ commands' \in Seq(CommandRecs) /\ 1 \in DOMAIN commands
      /\ DOMAIN commands \subseteq Nat \ {0} /\ DOMAIN commands' \subseteq Nat \ {0}
  BY <1>1, CommandsTaken
<1>3. \A i \in DOMAIN commands' :
        \E k \in DOMAIN commands : k = i + 1 /\ commands'[i] = commands[k]
  BY <1>1, CommandsTaken
<1>4. \A k \in DOMAIN commands :
        k # 1 => \E i \in DOMAIN commands' : k = i + 1 /\ commands'[i] = commands[k]
  BY <1>1, CommandsTaken
<1>5. Datagrams' = Datagrams
  BY <1>1 DEF Datagrams
<1>6. ASSUME NEW i \in DOMAIN commands', commands'[i].op = "SET_RING"
      PROVE  /\ ~attached'[commands'[i].conn] /\ sent[commands'[i].conn] = 0
             /\ acked[commands'[i].conn] = <<>> /\ sendQueue'[commands'[i].conn] = <<>>
             /\ drift[commands'[i].conn] = 0 /\ commands'[i].conn \notin Datagrams
             /\ \A j \in DOMAIN commands' : commands'[j].conn = commands'[i].conn => j >= i
  <2>1. PICK k \in DOMAIN commands : k = i + 1 /\ commands'[i] = commands[k]
    BY <1>3
  <2>2. PICK d \in Conns : d = commands[k].conn
    BY TypedCommand
  <2>3. /\ ~attached[d] /\ sent[d] = 0 /\ acked[d] = <<>> /\ d \notin Datagrams
        /\ sendQueue[d] = <<>> /\ drift[d] = 0
        /\ \A j \in DOMAIN commands : commands[j].conn = d => j >= k
    BY <1>6, <2>1, <2>2 DEF CommandsSound
  <2>4. d # c
    BY <1>1, <1>2, <2>1, <2>3
  <2>5. ASSUME NEW j \in DOMAIN commands', commands'[j].conn = d PROVE j >= i
    <3>1. PICK l \in DOMAIN commands : l = j + 1 /\ commands'[j] = commands[l]
      BY <1>3
    <3>2. l >= k
      BY <2>3, <2>5, <3>1
    <3> QED BY <1>2, <2>1, <3>1, <3>2
  <2> QED BY <2>1, <2>2, <2>3, <2>4, <2>5
<1>7. ASSUME NEW i \in DOMAIN commands', commands'[i].op = "SELECT"
      PROVE  \/ attached'[commands'[i].conn]
             \/ \E j \in DOMAIN commands' : /\ j < i /\ commands'[j].op = "SET_RING"
                                            /\ commands'[j].conn = commands'[i].conn
  <2>1. PICK k \in DOMAIN commands : k = i + 1 /\ commands'[i] = commands[k]
    BY <1>3
  <2>2. PICK d \in Conns : d = commands[k].conn
    BY TypedCommand
  <2>3. CASE attached[d] /\ d # c
    BY <2>1, <2>2, <2>3
  <2>4. ASSUME NEW j \in DOMAIN commands, j < k, commands[j].op = "SET_RING",
               commands[j].conn = d, d # c
        PROVE  \E l \in DOMAIN commands' : /\ l < i /\ commands'[l].op = "SET_RING"
                                           /\ commands'[l].conn = d
    <3>1. j # 1
      BY <1>1, <2>4
    <3>2. PICK l \in DOMAIN commands' : j = l + 1 /\ commands'[l] = commands[j]
      BY <1>4, <3>1
    <3>3. l < i
      BY <1>2, <2>1, <2>4, <3>2
    <3> QED BY <2>4, <3>2, <3>3
  <2>5. CASE d = c
    <3>1. op # "CLOSE"
      <4>1. op = "CLOSE" => k <= 1
        <5>1. commands[1].op = op /\ commands[1].conn = c /\ commands[k].conn = c
          BY <1>1, <2>2, <2>5
        <5>2. commands[1].op = "CLOSE" =>
                \A j \in DOMAIN commands : commands[j].conn = commands[1].conn => j <= 1
          BY <1>2, Zenon DEF CommandsSound
        <5> QED BY <5>1, <5>2
      <4> QED BY <1>2, <2>1, <4>1
    <3>2. op # "SET_RING" => attached[c]
      <4>1. ASSUME NEW j \in DOMAIN commands, commands[j].op = "SET_RING",
                   commands[j].conn = c
            PROVE  op = "SET_RING"
        <5>1. 1 >= j
          BY <1>1, <1>2, <4>1 DEF CommandsSound
        <5> QED BY <1>1, <1>2, <4>1, <5>1
      <4>2. attached[c] \/ \E j \in DOMAIN commands : /\ commands[j].op = "SET_RING"
                                                      /\ commands[j].conn = c
        BY <1>7, <2>1, <2>2, <2>5 DEF CommandsSound
      <4> QED BY <4>1, <4>2
    <3> QED BY <2>1, <2>2, <2>5, <3>1, <3>2
  <2>6. attached[d] \/ \E j \in DOMAIN commands : /\ j < k /\ commands[j].op = "SET_RING"
                                                  /\ commands[j].conn = d
    BY <1>7, <2>1, <2>2 DEF CommandsSound
  <2> QED BY <2>1, <2>2, <2>3, <2>4, <2>5, <2>6
<1>8. ASSUME NEW i \in DOMAIN commands', commands'[i].op = "CLOSE"
      PROVE  /\ commands'[i].conn \notin open
             /\ \A j \in DOMAIN commands' : commands'[j].conn = commands'[i].conn => j <= i
  <2>1. PICK k \in DOMAIN commands : k = i + 1 /\ commands'[i] = commands[k]
    BY <1>3
  <2>2. /\ commands[k].conn \notin open
        /\ \A j \in DOMAIN commands : commands[j].conn = commands[k].conn => j <= k
    BY <1>8, <2>1 DEF CommandsSound
  <2>3. ASSUME NEW j \in DOMAIN commands', commands'[j].conn = commands[k].conn PROVE j <= i
    <3>1. PICK l \in DOMAIN commands : l = j + 1 /\ commands'[j] = commands[l]
      BY <1>3
    <3>2. l <= k
      BY <2>2, <2>3, <3>1
    <3> QED BY <1>2, <2>1, <3>1, <3>2
  <2> QED BY <2>1, <2>2, <2>3
<1> QED BY <1>1, <1>2, <1>5, <1>6, <1>7, <1>8 DEF CommandsSound

---------------------------------------------------------------------------
(* The steps.                                                              *)

LEMMA StepExecSetRing ==
  ASSUME TxInv, NEW c \in Conns, ExecSetRing(c)
  PROVE  TxInv'
<1> USE DEF TxInv
<1>1. UNCHANGED <<txRing, writeReady, writeDone, readyRing, kind, dry, drains,
                  sendQueue, acked, drift, finned, noSpace, writeQueue, parent, starved, up, open,
                  sent, ready, at, cur, want>>
  BY DEF ExecSetRing, Executes, env, appVars, tcp

<1>t. TypeRings /\ TypeFlags
  BY TypeGroups
<1>c. /\ attached'[c] = TRUE /\ txSpace'[c] = SndBuf /\ sendQueue' = sendQueue
      /\ \A d \in Conns : d # c => attached'[d] = attached[d] /\ txSpace'[d] = txSpace[d]
  BY <1>t DEF ExecSetRing, TypeRings, TypeFlags
<1>a. CommandsSound' /\ commands' \in Seq(CommandRecs)
  <2>1. Executes("SET_RING", c) /\ "SET_RING" \in Ops
    BY DEF ExecSetRing, Ops
  <2> QED BY <1>c, <2>1, CommandsStay
<1>b. SvcSound' /\ svc' \in SvcRecs
  <2>1. /\ svc' \in SvcRecs /\ svc'.step = "mark" /\ svc'.conn = c
        /\ svc'.caller = "command" /\ "command" \in Callers /\ "mark" \in Serving
    BY SvcValues DEF ExecSetRing, Callers, Serving
  <2> QED BY <1>c, <2>1, SvcPlain
<1>d. /\ ~attached[c] /\ sent[c] = 0 /\ acked[c] = <<>> /\ c \notin Datagrams
      /\ txRing[c] = <<>> /\ sendQueue[c] = <<>> /\ drift[c] = 0
  <2>1. 1 \in DOMAIN commands /\ commands[1].op = "SET_RING" /\ commands[1].conn = c
    BY CommandsTaken DEF ExecSetRing, Executes
  <2> QED BY <2>1 DEF CommandsSound, ConnsSound
<1>e. Waiting(c) = 0 /\ Queued(c) = 0 /\ Acks(c) = 0
  BY <1>d DEF Waiting, Queued, Acks
<1>f. /\ Datagrams' = Datagrams
      /\ \A d \in Conns : /\ Waiting(d)' = Waiting(d) /\ Queued(d)' = Queued(d)
                          /\ Acks(d)' = Acks(d)
  BY <1>1 DEF Datagrams, Waiting, Queued, Acks
<1>g. at \notin {"select", "run"} => cur # c
  BY <1>d DEF AppSound
<1>2. TypeOK'
  <2>0. TypeRings /\ TypeFlags /\ TypeLists /\ TypeSvc /\ TypeApp
    BY TypeGroups
  <2>1. TypeRings'
    <3>1. SndBuf \in Nat
      BY Sizes
    <3> QED BY <1>1, <2>0, <3>1 DEF TypeRings, ExecSetRing
  <2>2. TypeFlags'
    BY <1>1, <2>0 DEF TypeFlags, ExecSetRing
  <2>3. TypeLists'
    BY <1>1, <1>a, <2>0 DEF TypeLists, ExecSetRing
  <2>4. TypeSvc'
    BY <1>1, <1>b, <2>0 DEF TypeSvc
  <2>5. TypeApp'
    BY <1>1, <2>0 DEF TypeApp
  <2> QED BY <2>1, <2>2, <2>3, <2>4, <2>5, TypeNext
<1>3. SvcSound'
  BY <1>b
<1>4. CommandsSound'
  BY <1>a
<1>5. ConnsSound'
  BY <1>1, <1>c DEF ConnsSound
<1>6. AppSound'
  BY <1>1, <1>c, <1>g DEF AppSound
<1>7. BoundsSound'
  BY <1>c, <1>d, <1>f DEF BoundsSound, Fill
<1>8. TxSpaceAccurate'
  <2>1. txSpace'[c] + Waiting(c) + Queued(c) = SndBuf + drift[c] + 0
    BY <1>c, <1>d, <1>e, Sizes
  <2>2. ~(cur = c /\ at = "sub")
    BY <1>g
  <2> QED BY <1>1, <1>c, <1>f, <2>1, <2>2, SpaceAt, SpaceNext
<1>9. StreamParts'
  <2>1. ExactParts(c)'
    <3>1. Exact(acked[c], 0, sendQueue[c], 0, txRing[c], 0, 0)
      BY DEF Exact
    <3> QED BY <1>1, <1>d, <1>e, <1>f, <3>1 DEF ExactParts
  <2>2. \A d \in Conns : /\ ExactParts(d) => ExactParts(d)'
                         /\ LooseParts(d) => LooseParts(d)'
                         /\ ClosedParts(d) => ClosedParts(d)'
    BY <1>1, <1>f DEF ExactParts, LooseParts, ClosedParts
  <2> QED BY <1>c, <1>d, <1>f, <2>1, <2>2 DEF StreamParts
<1> QED BY <1>2, <1>3, <1>4, <1>5, <1>6, <1>7, <1>8, <1>9

LEMMA StepExecSelect ==
  ASSUME TxInv, NEW c \in Conns, ExecSelect(c)
  PROVE  TxInv'
<1> USE DEF TxInv
<1>1. UNCHANGED <<txRing, txSpace, writeReady, writeDone, readyRing, kind, dry, drains,
                  sendQueue, acked, drift, finned, noSpace, writeQueue, attached, starved, up, open,
                  sent, ready, at, cur, want>>
  BY DEF ExecSelect, Executes, env, appVars, tcp

<1>a. CommandsSound' /\ commands' \in Seq(CommandRecs)
  <2>1. Executes("SELECT", c) /\ "SELECT" \in Ops
    BY DEF ExecSelect, Ops
  <2> QED BY <1>1, <2>1, CommandsStay
<1>c. attached[c]
  <2>1. /\ 1 \in DOMAIN commands /\ commands[1].op = "SELECT" /\ commands[1].conn = c
        /\ DOMAIN commands \subseteq Nat \ {0}
    BY CommandsTaken DEF ExecSelect, Executes
  <2>2. attached[c] \/ \E j \in DOMAIN commands : j < 1
    BY <2>1 DEF CommandsSound
  <2> QED BY <2>1, <2>2
<1>b. SvcSound' /\ svc' \in SvcRecs
  <2>1. /\ svc' \in SvcRecs /\ svc'.step = "mark" /\ svc'.conn = c
        /\ svc'.caller = "command" /\ "command" \in Callers /\ "mark" \in Serving
    BY SvcValues DEF ExecSelect, Callers, Serving
  <2> QED BY <1>1, <1>c, <2>1, SvcPlain
<1>t. TypeFlags
  BY TypeGroups
<1>2. TypeOK'
  <2>0. TypeRings /\ TypeFlags /\ TypeLists /\ TypeSvc /\ TypeApp
    BY TypeGroups
  <2>1. TypeRings'
    BY <1>1, <2>0 DEF TypeRings
  <2>2. TypeFlags'
    BY <1>1, <2>0 DEF TypeFlags, ExecSelect
  <2>3. TypeLists'
    BY <1>1, <1>a, <2>0 DEF TypeLists, ExecSelect
  <2>4. TypeSvc'
    BY <1>1, <1>b, <2>0 DEF TypeSvc
  <2>5. TypeApp'
    BY <1>1, <2>0 DEF TypeApp
  <2> QED BY <2>1, <2>2, <2>3, <2>4, <2>5, TypeNext
<1>3. SvcSound'
  BY <1>b
<1>4. CommandsSound'
  BY <1>a
<1>5. ConnsSound'
  <2>1. \A d \in Conns : d # c => parent'[d] = parent[d]
    BY <1>t DEF ExecSelect, TypeFlags
  <2> QED BY <1>1, <1>c, <2>1 DEF ConnsSound
<1>6. AppSound'
  BY <1>1 DEF AppSound
<1>7. BoundsSound'
  BY <1>1 DEF BoundsSound, Datagrams, Fill, Waiting, Queued
<1>8. TxSpaceAccurate'
  BY <1>1 DEF TxSpaceAccurate, Datagrams
<1>9. StreamParts'
  BY <1>1 DEF StreamParts, ExactParts, LooseParts, ClosedParts, Datagrams, Acks, Queued, Waiting
<1> QED BY <1>2, <1>3, <1>4, <1>5, <1>6, <1>7, <1>8, <1>9

LEMMA StepExecTxKick ==
  ASSUME TxInv, NEW c \in Conns, ExecTxKick(c)
  PROVE  TxInv'
<1> USE DEF TxInv
<1>1. UNCHANGED <<txRing, txSpace, writeReady, writeDone, readyRing, kind, dry, drains,
                  sendQueue, acked, drift, finned, noSpace, writeQueue, parent, attached, starved, up,
                  open, sent, ready, at, cur, want>>
  BY DEF ExecTxKick, Executes, env, appVars, tcp

<1>a. CommandsSound' /\ commands' \in Seq(CommandRecs)
  <2>1. Executes("TX_KICK", c) /\ "TX_KICK" \in Ops
    BY DEF ExecTxKick, Ops
  <2> QED BY <1>1, <2>1, CommandsStay
<1>b. SvcSound' /\ svc' \in SvcRecs
  <2>1. CASE attached[c]
    <3>1. /\ svc' \in SvcRecs /\ svc'.step = "clear" /\ svc'.conn = c
          /\ svc'.caller = "command" /\ "command" \in Callers /\ "clear" \in Serving
      BY <2>1, SvcValues DEF ExecTxKick, Callers, Serving
    <3> QED BY <1>1, <2>1, <3>1, SvcPlain
  <2>2. CASE ~attached[c]
    BY <2>2, SvcValues, SvcRests DEF ExecTxKick
  <2> QED BY <2>1, <2>2
<1>2. TypeOK'
  <2>0. TypeRings /\ TypeFlags /\ TypeLists /\ TypeSvc /\ TypeApp
    BY TypeGroups
  <2>1. TypeRings'
    BY <1>1, <2>0 DEF TypeRings
  <2>2. TypeFlags'
    BY <1>1, <2>0 DEF TypeFlags
  <2>3. TypeLists'
    BY <1>1, <1>a, <2>0 DEF TypeLists, ExecTxKick
  <2>4. TypeSvc'
    BY <1>1, <1>b, <2>0 DEF TypeSvc
  <2>5. TypeApp'
    BY <1>1, <2>0 DEF TypeApp
  <2> QED BY <2>1, <2>2, <2>3, <2>4, <2>5, TypeNext
<1>3. SvcSound'
  BY <1>b
<1>4. CommandsSound'
  BY <1>a
<1>5. ConnsSound'
  BY <1>1 DEF ConnsSound
<1>6. AppSound'
  BY <1>1 DEF AppSound
<1>7. BoundsSound'
  BY <1>1 DEF BoundsSound, Datagrams, Fill, Waiting, Queued
<1>8. TxSpaceAccurate'
  BY <1>1 DEF TxSpaceAccurate, Datagrams
<1>9. StreamParts'
  BY <1>1 DEF StreamParts, ExactParts, LooseParts, ClosedParts, Datagrams, Acks, Queued, Waiting
<1> QED BY <1>2, <1>3, <1>4, <1>5, <1>6, <1>7, <1>8, <1>9

LEMMA StepExecPoolEmpty ==
  ASSUME TxInv, NEW c \in Conns, ExecPoolEmpty(c)
  PROVE  TxInv'
<1> USE DEF TxInv
<1>1. UNCHANGED <<txRing, writeReady, writeDone, readyRing, kind, dry, drains,
                  sendQueue, acked, drift, finned, noSpace, writeQueue, parent, attached, up, open,
                  sent, ready, at, cur, want>>
  BY DEF ExecPoolEmpty, Executes, env, appVars, tcp

<1>a. CommandsSound' /\ commands' \in Seq(CommandRecs)
  <2>1. Executes("POOL_EMPTY", c) /\ "POOL_EMPTY" \in Ops
    BY DEF ExecPoolEmpty, Ops
  <2> QED BY <1>1, <2>1, CommandsStay
<1>b. SvcSound' /\ svc' \in SvcRecs
  BY SvcValues, SvcRests DEF ExecPoolEmpty
<1>t. TypeRings
  BY TypeGroups
<1>d. /\ txSpace' \in [Conns -> Nat]
      /\ \A d \in Conns : \/ txSpace'[d] = txSpace[d]
                          \/ d \in Datagrams /\ txSpace'[d] = SndBuf
  <2>1. CASE txSpace' = txSpace
    BY <1>t, <2>1 DEF TypeRings
  <2>2. CASE c \in Datagrams /\ txSpace' = [txSpace EXCEPT ![c] = SndBuf]
    <3>1. SndBuf \in Nat
      BY Sizes
    <3> QED BY <1>t, <2>2, <3>1 DEF TypeRings
  <2> QED BY <2>1, <2>2 DEF ExecPoolEmpty
<1>2. TypeOK'
  <2>0. TypeRings /\ TypeFlags /\ TypeLists /\ TypeSvc /\ TypeApp
    BY TypeGroups
  <2>1. TypeRings'
    BY <1>1, <1>d, <1>t DEF TypeRings
  <2>2. TypeFlags'
    BY <1>1, <2>0 DEF TypeFlags
  <2>3. TypeLists'
    <3>1. starved' \in Seq(Conns)
      BY <2>0, AppendProperties DEF TypeLists, ExecPoolEmpty
    <3> QED BY <1>1, <1>a, <2>0, <3>1 DEF TypeLists
  <2>4. TypeSvc'
    BY <1>1, <1>b, <2>0 DEF TypeSvc
  <2>5. TypeApp'
    BY <1>1, <2>0 DEF TypeApp
  <2> QED BY <2>1, <2>2, <2>3, <2>4, <2>5, TypeNext
<1>3. SvcSound'
  BY <1>b
<1>4. CommandsSound'
  BY <1>a
<1>5. ConnsSound'
  BY <1>1 DEF ConnsSound
<1>6. AppSound'
  <2>1. ASSUME NEW d \in Conns PROVE txSpace'[d] \in Nat /\ txSpace[d] <= txSpace'[d]
    <3>1. txSpace[d] \in Nat /\ (d \in Datagrams => txSpace[d] <= SndBuf)
      BY TypedConn DEF BoundsSound
    <3> QED BY <1>d, <3>1, Sizes
  <2>2. want \in Nat /\ \A d \in Conns : txSpace[d] \in Nat
    BY TypedConn, TypedSvc
  <2> QED BY <1>1, <2>1, <2>2 DEF AppSound
<1>7. BoundsSound'
  <2>1. Datagrams' = Datagrams /\ \A d \in Conns : Waiting(d)' = Waiting(d) /\ Queued(d)' = Queued(d)
    BY <1>1 DEF Datagrams, Waiting, Queued
  <2>2. \A d \in Datagrams : txSpace'[d] <= SndBuf
    BY <1>d, Sizes DEF BoundsSound, Datagrams
  <2> QED BY <2>1, <2>2 DEF BoundsSound, Fill
<1>8. TxSpaceAccurate'
  BY <1>1, <1>d DEF TxSpaceAccurate, Datagrams
<1>9. StreamParts'
  BY <1>1 DEF StreamParts, ExactParts, LooseParts, ClosedParts, Datagrams, Acks, Queued, Waiting
<1> QED BY <1>2, <1>3, <1>4, <1>5, <1>6, <1>7, <1>8, <1>9

LEMMA StepExecClose ==
  ASSUME TxInv, NEW c \in Conns, ExecClose(c)
  PROVE  TxInv'
<1> USE DEF TxInv
<1>1. UNCHANGED <<txSpace, writeReady, writeDone, readyRing, kind, dry, drains, acked, drift, finned,
                  noSpace, starved, up, open, sent, ready, at, cur, want>>
  BY DEF ExecClose, Executes, env, appVars, tcp

<1>t. TypeRings /\ TypeFlags
  BY TypeGroups
<1>r. PICK rest \in {sendQueue[c]} \cup (IF c \in Datagrams THEN {} ELSE {<<>>}) :
             sendQueue' = [sendQueue EXCEPT ![c] = rest]
  BY DEF ExecClose
<1>c. /\ attached'[c] = FALSE /\ parent'[c] = FALSE
      /\ txRing'[c] = <<>> /\ sendQueue'[c] = rest /\ writeQueue' = writeQueue \ {c}
      /\ \A d \in Conns : d # c => /\ attached'[d] = attached[d] /\ parent'[d] = parent[d]
                                   /\ txRing'[d] = txRing[d] /\ sendQueue'[d] = sendQueue[d]
  BY <1>r, <1>t DEF ExecClose, TypeRings, TypeFlags
<1>n. /\ rest \in Seq(Numbers) /\ Len(rest) \in Nat /\ Len(rest) <= Queued(c)
      /\ c \in Datagrams => rest = sendQueue[c]
      /\ c \notin Datagrams => rest = sendQueue[c] \/ rest = <<>>
      /\ Waiting(c) \in Nat /\ Queued(c) \in Nat /\ Acks(c) \in Nat /\ sent[c] \in Nat
  <2>1. /\ sendQueue[c] \in Seq(Numbers) /\ Waiting(c) \in Nat /\ Queued(c) \in Nat
        /\ Acks(c) \in Nat /\ sent[c] \in Nat
    BY TypedConn
  <2>2. <<>> \in Seq(Numbers) /\ Len(<<>>) = 0
    OBVIOUS
  <2>3. rest = sendQueue[c] \/ (c \notin Datagrams /\ rest = <<>>)
    BY <1>r
  <2>4. CASE rest = sendQueue[c]
    BY <2>1, <2>4 DEF Queued
  <2>5. CASE c \notin Datagrams /\ rest = <<>>
    BY <2>1, <2>2, <2>5
  <2> QED BY <2>3, <2>4, <2>5
<1>a. CommandsSound' /\ commands' \in Seq(CommandRecs)
  <2>1. PICK op \in Ops : op = "CLOSE" /\ Executes(op, c)
    BY DEF ExecClose, Ops
  <2>2. \A d \in Conns : d # c => attached'[d] = attached[d] /\ sendQueue'[d] = sendQueue[d]
    BY <1>c
  <2> QED BY <2>1, <2>2, CommandsStay
<1>b. SvcSound' /\ svc' \in SvcRecs
  BY SvcValues, SvcRests DEF ExecClose
<1>d. c \notin open
  <2>1. 1 \in DOMAIN commands /\ commands[1].op = "CLOSE" /\ commands[1].conn = c
    BY CommandsTaken DEF ExecClose, Executes
  <2> QED BY <2>1 DEF CommandsSound
<1>f. /\ Datagrams' = Datagrams
      /\ \A d \in Conns : /\ d # c => Waiting(d)' = Waiting(d) /\ Queued(d)' = Queued(d)
                          /\ Acks(d)' = Acks(d)
  BY <1>1, <1>c DEF Datagrams, Waiting, Queued, Acks
<1>e. Waiting(c)' = 0 /\ Queued(c)' = Len(rest)
  <2>1. Waiting(c)' = Len(txRing'[c]) /\ Queued(c)' = Len(sendQueue'[c])
    BY DEF Waiting, Queued
  <2> QED BY <1>c, <2>1
<1>2. TypeOK'
  <2>0. TypeRings /\ TypeFlags /\ TypeLists /\ TypeSvc /\ TypeApp
    BY TypeGroups
  <2>1. TypeRings'
    <3>1. <<>> \in Seq(Numbers)
      OBVIOUS
    <3>2. sendQueue' \in [Conns -> Seq(Numbers)]
      BY <1>r, <1>n, <2>0 DEF TypeRings
    <3> QED BY <1>1, <2>0, <3>1, <3>2 DEF TypeRings, ExecClose
  <2>2. TypeFlags'
    BY <1>1, <2>0 DEF TypeFlags, ExecClose
  <2>3. TypeLists'
    BY <1>1, <1>a, <2>0 DEF TypeLists, ExecClose
  <2>4. TypeSvc'
    BY <1>1, <1>b, <2>0 DEF TypeSvc
  <2>5. TypeApp'
    BY <1>1, <2>0 DEF TypeApp
  <2> QED BY <2>1, <2>2, <2>3, <2>4, <2>5, TypeNext
<1>3. SvcSound'
  BY <1>b
<1>4. CommandsSound'
  BY <1>a
<1>5. ConnsSound'
  BY <1>1, <1>c, <1>d DEF ConnsSound
<1>6. AppSound'
  BY <1>1, <1>c, <1>d DEF AppSound
<1>7. BoundsSound'
  <2>1. 0 < TxRingSize /\ (c \in Datagrams => Len(rest) <= Fill(c))
    BY <1>n, Sizes DEF BoundsSound, Queued
  <2> QED BY <1>1, <1>e, <1>f, <2>1 DEF BoundsSound, Fill
<1>8. TxSpaceAccurate'
  BY <1>1, <1>c, <1>f, SpaceAt, SpaceNext
<1>9. StreamParts'
  <2>1. \A d \in Conns : d # c => /\ ExactParts(d) => ExactParts(d)'
                                  /\ LooseParts(d) => LooseParts(d)'
                                  /\ ClosedParts(d) => ClosedParts(d)'
    BY <1>1, <1>c, <1>f DEF ExactParts, LooseParts, ClosedParts
  <2>2. c \in Datagrams => LooseParts(c)'
    <3>1. c \in Datagrams => Loose(acked[c], Acks(c), sendQueue[c], Queued(c), txRing[c],
                                   Waiting(c), sent[c])
      BY DEF StreamParts, LooseParts
    <3>0. Ints(acked[c], Acks(c)) /\ Ints(sendQueue[c], Queued(c))
      BY TypedConn, Elements DEF Acks, Queued
    <3>2. c \in Datagrams => Loose(acked[c], Acks(c), sendQueue[c], Queued(c), txRing'[c], 0,
                                   sent[c])
      BY <1>n, <3>0, <3>1, LooseEmptied
    <3> QED BY <1>1, <1>c, <1>e, <1>f, <1>n, <3>2 DEF LooseParts, Queued
  <2>3. c \notin Datagrams => ClosedParts(c)'
    <3>1. ASSUME c \notin Datagrams
          PROVE  /\ Exact(acked[c], Acks(c), sendQueue[c], Queued(c), txRing'[c], 0,
                          Acks(c) + Queued(c))
                 /\ Acks(c) + Queued(c) <= sent[c]
      BY <1>n, <3>1 DEF StreamParts, ExactParts, ClosedParts, Exact
    <3>2. ASSUME c \notin Datagrams
          PROVE  /\ Exact(acked[c], Acks(c), rest, Len(rest), txRing'[c], 0, Acks(c) + Len(rest))
                 /\ Acks(c) + Len(rest) <= sent[c]
      <4>1. CASE rest = sendQueue[c]
        BY <3>1, <3>2, <4>1 DEF Queued
      <4>2. CASE rest = <<>>
        <5>1. Len(rest) = 0
          BY <4>2
        <5> QED BY <1>n, <3>1, <3>2, <5>1 DEF Exact
      <4> QED BY <1>n, <3>2, <4>1, <4>2
    <3>3. Acks(c)' + Queued(c)' + Waiting(c)' = Acks(c) + Len(rest)
      BY <1>n, <1>e, <1>f
    <3> QED BY <1>1, <1>c, <1>e, <1>f, <3>2, <3>3 DEF ClosedParts
  <2> QED BY <1>c, <1>f, <2>1, <2>2, <2>3 DEF StreamParts
<1> QED BY <1>2, <1>3, <1>4, <1>5, <1>6, <1>7, <1>8, <1>9

LEMMA StepProcessTxReady ==
  ASSUME TxInv, NEW c \in Conns, ProcessTxReady(c)
  PROVE  TxInv'
<1> USE DEF TxInv
<1>1. UNCHANGED <<txRing, txSpace, writeReady, writeDone, commands, readyRing, kind,
                  dry, drains, sendQueue, acked, drift, finned, noSpace, parent, attached, starved, up,
                  open, sent, ready, at, cur, want>>
  BY DEF ProcessTxReady, shared, env, appVars, tcp
<1>2. TypeOK'
  <2>0. TypeRings /\ TypeFlags /\ TypeLists /\ TypeSvc /\ TypeApp
    BY TypeGroups
  <2>1. TypeRings'
    BY <1>1, <2>0 DEF TypeRings
  <2>2. TypeFlags'
    BY <1>1, <2>0 DEF TypeFlags
  <2>3. TypeLists'
    BY <1>1, <2>0 DEF TypeLists, ProcessTxReady, Opportunity, Idle
  <2>4. TypeSvc'
    <3>1. svc' \in SvcRecs
      BY SvcValues DEF ProcessTxReady, Callers
    <3> QED BY <1>1, <2>0, <3>1 DEF TypeSvc
  <2>5. TypeApp'
    BY <1>1, <2>0 DEF TypeApp
  <2> QED BY <2>1, <2>2, <2>3, <2>4, <2>5, TypeNext
<1>3. SvcSound'
  <2>1. /\ svc'.step = "clear" /\ svc'.conn = c /\ svc'.caller = "txready"
        /\ "txready" \in Callers /\ "clear" \in Serving
    BY SvcValues DEF ProcessTxReady, Callers, Serving
  <2>2. attached[c]
    BY DEF ConnsSound, ProcessTxReady
  <2> QED BY <1>1, <2>1, <2>2, SvcPlain
<1>4. CommandsSound'
  BY <1>1 DEF CommandsSound, Datagrams
<1>5. ConnsSound'
  BY <1>1 DEF TypeOK, ConnsSound, ProcessTxReady, Opportunity, Idle
<1>6. AppSound'
  BY <1>1 DEF AppSound
<1>7. BoundsSound'
  BY <1>1 DEF BoundsSound, Datagrams, Fill, Waiting, Queued
<1>8. TxSpaceAccurate'
  BY <1>1 DEF TxSpaceAccurate, Datagrams
<1>9. StreamParts'
  BY <1>1 DEF StreamParts, ExactParts, LooseParts, ClosedParts, Datagrams, Acks, Queued, Waiting
<1> QED BY <1>2, <1>3, <1>4, <1>5, <1>6, <1>7, <1>8, <1>9

LEMMA StepPeerFin ==
  ASSUME TxInv, NEW c \in Conns, PeerFin(c)
  PROVE  TxInv'
<1> USE DEF TxInv
<1>1. UNCHANGED <<txRing, txSpace, writeReady, writeDone, commands, readyRing, kind,
                  dry, drains, sendQueue, acked, drift, noSpace, writeQueue, parent, attached, starved,
                  svc, up, open, sent, ready, at, cur, want>>
  BY DEF PeerFin, shared, env, appVars
<1>2. TypeOK'
  <2>0. TypeRings /\ TypeFlags /\ TypeLists /\ TypeSvc /\ TypeApp
    BY TypeGroups
  <2>1. TypeRings'
    BY <1>1, <2>0 DEF TypeRings, PeerFin
  <2>2. TypeFlags'
    BY <1>1, <2>0 DEF TypeFlags
  <2>3. TypeLists'
    BY <1>1, <2>0 DEF TypeLists
  <2>4. TypeSvc'
    BY <1>1, <2>0 DEF TypeSvc
  <2>5. TypeApp'
    BY <1>1, <2>0 DEF TypeApp
  <2> QED BY <2>1, <2>2, <2>3, <2>4, <2>5, TypeNext
<1>3. SvcSound'
  BY <1>1 DEF SvcSound, Datagrams, Waiting
<1>4. CommandsSound'
  BY <1>1 DEF CommandsSound, Datagrams
<1>5. ConnsSound'
  BY <1>1 DEF ConnsSound
<1>6. AppSound'
  BY <1>1 DEF AppSound
<1>7. BoundsSound'
  BY <1>1 DEF BoundsSound, Datagrams, Fill, Waiting, Queued
<1>8. TxSpaceAccurate'
  BY <1>1 DEF TxSpaceAccurate, Datagrams
<1>9. StreamParts'
  BY <1>1 DEF StreamParts, ExactParts, LooseParts, ClosedParts, Datagrams, Acks, Queued, Waiting
<1> QED BY <1>2, <1>3, <1>4, <1>5, <1>6, <1>7, <1>8, <1>9

LEMMA StepAck ==
  ASSUME TxInv, NEW c \in Conns, Ack(c)
  PROVE  TxInv'
<1> USE DEF TxInv
<1>1. UNCHANGED <<txRing, writeReady, writeDone, commands, readyRing, kind, dry, drains,
                  parent, attached, starved, svc, up, open, sent, ready, at, cur, want, finned>>
  BY DEF Ack, env, appVars

<1>a. /\ acked' = [acked EXCEPT ![c] = Append(acked[c], Head(sendQueue[c]))]
      /\ sendQueue' = [sendQueue EXCEPT ![c] = Tail(sendQueue[c])]
      /\ sendQueue[c] # <<>>
  BY DEF Ack
<1>b. sendQueue[c] \in Seq(Numbers) /\ acked[c] \in Seq(Numbers)
  BY TypedConn
<1>n. /\ sent[c] \in Nat /\ txSpace[c] \in Nat /\ drift[c] \in Int
      /\ Queued(c) \in Nat /\ Waiting(c) \in Nat /\ Acks(c) \in Nat
  BY TypedConn
<1>p. PICK back \in GiveBacks : GiveBack(c, back)
  BY DEF Ack
<1>c. attached[c] /\ c \notin Datagrams =>
        /\ txSpace' = [txSpace EXCEPT ![c] = txSpace[c] + back]
        /\ drift' = [drift EXCEPT ![c] = drift[c] + back - 1]
  BY <1>p DEF GiveBack
<1>d. ~attached[c] \/ c \in Datagrams => txSpace' = txSpace /\ drift' = drift
  BY <1>p DEF GiveBack
<1>t. TypeRings
  BY TypeGroups
<1>e. /\ \A d \in Conns : d # c => /\ txSpace'[d] = txSpace[d] /\ drift'[d] = drift[d]
                                   /\ sendQueue'[d] = sendQueue[d] /\ acked'[d] = acked[d]
      /\ sendQueue'[c] = Tail(sendQueue[c])
      /\ acked'[c] = Append(acked[c], Head(sendQueue[c]))
  BY <1>a, <1>c, <1>d, <1>t DEF TypeRings
<1>f. Datagrams' = Datagrams
  BY <1>1 DEF Datagrams
<1>g. /\ Tail(sendQueue[c]) \in Seq(Numbers) /\ Head(sendQueue[c]) \in Numbers
      /\ Head(sendQueue[c]) = sendQueue[c][1] /\ Queued(c)' \in Nat
      /\ Shorter(sendQueue[c], Queued(c), sendQueue'[c], Queued(c)')
  BY <1>a, <1>b, <1>e, Taken DEF Queued
<1>h. /\ Append(acked[c], Head(sendQueue[c])) \in Seq(Numbers) /\ Acks(c)' \in Nat
      /\ Longer(acked[c], Acks(c), sendQueue[c][1], acked'[c], Acks(c)')
  BY <1>b, <1>e, <1>g, Added DEF Acks
<1>w. \A d \in Conns : /\ Waiting(d)' = Waiting(d)
                       /\ d # c => Queued(d)' = Queued(d) /\ Acks(d)' = Acks(d)
  BY <1>1, <1>e DEF Waiting, Queued, Acks
<1>k. Queued(c) = Queued(c)' + 1
  BY <1>g DEF Shorter
<1>i. /\ back \in Nat
      /\ attached[c] /\ c \notin Datagrams => /\ txSpace'[c] = txSpace[c] + back
                                             /\ drift'[c] = drift[c] + back - 1
  BY <1>c, <1>t, Sizes DEF TypeRings
<1>2. TypeOK'
  <2>0. TypeRings /\ TypeFlags /\ TypeLists /\ TypeSvc /\ TypeApp
    BY TypeGroups
  <2>1. TypeRings'
    <3>1. acked' \in [Conns -> Seq(Numbers)] /\ sendQueue' \in [Conns -> Seq(Numbers)]
      BY <1>a, <1>g, <1>h, <1>t DEF TypeRings
    <3>2. txSpace[c] + back \in Nat /\ drift[c] + back - 1 \in Int
      BY <1>n, <1>i
    <3>3. txSpace' \in [Conns -> Nat] /\ drift' \in [Conns -> Int]
      BY <1>c, <1>d, <1>t, <3>2 DEF TypeRings
    <3> QED BY <1>1, <1>t, <3>1, <3>3 DEF TypeRings
  <2>2. TypeFlags'
    BY <1>1, <2>0 DEF TypeFlags, Ack, Idle
  <2>3. TypeLists'
    BY <1>1, <2>0 DEF TypeLists, Ack, Idle
  <2>4. TypeSvc'
    BY <1>1, <2>0 DEF TypeSvc
  <2>5. TypeApp'
    BY <1>1, <2>0 DEF TypeApp
  <2> QED BY <2>1, <2>2, <2>3, <2>4, <2>5, TypeNext
<1>3. SvcSound'
  BY <1>1 DEF SvcSound, Datagrams, Waiting
<1>4. CommandsSound'
  <2>1. ASSUME NEW i \in DOMAIN commands, commands[i].op = "SET_RING"
        PROVE  /\ acked'[commands[i].conn] = acked[commands[i].conn]
               /\ sendQueue'[commands[i].conn] = sendQueue[commands[i].conn]
               /\ drift'[commands[i].conn] = drift[commands[i].conn]
    <3>1. commands[i].conn \in Conns
      BY TypedCommand
    <3>2. sendQueue[commands[i].conn] = <<>>
      BY <2>1 DEF CommandsSound
    <3> QED BY <1>a, <1>e, <3>1, <3>2
  <2> QED BY <1>1, <1>f, <2>1 DEF CommandsSound
<1>5. ConnsSound'
  <2>1. writeQueue' = writeQueue \/ (attached[c] /\ writeQueue' = writeQueue \cup {c})
    BY DEF Ack, WriteSpace
  <2>2. ASSUME NEW d \in Conns, ~attached[d]
        PROVE  d \in writeQueue' => d \in writeQueue
    BY <2>1, <2>2
  <2> QED BY <1>1, <2>2 DEF ConnsSound
<1>6. AppSound'
  <2>1. ASSUME NEW d \in Conns PROVE txSpace'[d] \in Nat /\ txSpace[d] <= txSpace'[d]
    <3>1. txSpace[d] \in Nat
      BY TypedConn
    <3>2. CASE d = c
      <4>1. CASE attached[c] /\ c \notin Datagrams
        BY <1>i, <3>1, <3>2, <4>1
      <4>2. CASE ~attached[c] \/ c \in Datagrams
        BY <1>d, <3>1, <3>2, <4>2
      <4> QED BY <4>1, <4>2
    <3>3. CASE d # c
      BY <1>e, <3>1, <3>3
    <3> QED BY <3>2, <3>3
  <2>2. want \in Nat /\ \A d \in Conns : txSpace[d] \in Nat
    BY TypedConn, TypedSvc
  <2> QED BY <1>1, <2>1, <2>2 DEF AppSound
<1>7. BoundsSound'
  <2>1. ASSUME NEW d \in Conns, d \in Datagrams
        PROVE  Queued(d)' <= Fill(d) /\ txSpace'[d] <= SndBuf
    <3>1. Queued(d) <= Fill(d) /\ txSpace[d] <= SndBuf /\ Fill(d) \in Nat
      BY <2>1, Sizes DEF BoundsSound, Fill
    <3>2. CASE d = c
      BY <1>n, <1>d, <1>g, <1>k, <2>1, <3>1, <3>2
    <3>3. CASE d # c
      BY <1>e, <1>w, <3>1, <3>3
    <3> QED BY <3>2, <3>3
  <2> QED BY <1>1, <1>f, <1>w, <2>1 DEF BoundsSound, Fill
<1>8. TxSpaceAccurate'
  <2>1. ASSUME NEW d \in Conns, d \notin Datagrams, attached[d]
        PROVE  txSpace'[d] + Waiting(d)' + Queued(d)'
                 = SndBuf + drift'[d] + (IF cur = d /\ at = "sub" THEN 1 ELSE 0)
    <3>0. txSpace[d] + Waiting(d) + Queued(d)
            = SndBuf + drift[d] + (IF cur = d /\ at = "sub" THEN 1 ELSE 0)
      BY <2>1, SpaceAt
    <3>1. CASE d # c
      BY <1>e, <1>w, <3>0, <3>1
    <3>2. CASE d = c
      <4>1. txSpace'[c] = txSpace[c] + back /\ drift'[c] = drift[c] + back - 1
        BY <1>i, <2>1, <3>2
      <4>2. PICK one \in Nat : one = IF cur = c /\ at = "sub" THEN 1 ELSE 0
        OBVIOUS
      <4>4. txSpace[c] + Waiting(c) + Queued(c) = SndBuf + drift[c] + one
        BY <3>0, <3>2, <4>2
      <4>5. Queued(c)' \in Nat /\ Queued(c) = Queued(c)' + 1
        BY <1>g, <1>k
      <4>3. txSpace'[c] + Waiting(c) + Queued(c)' = SndBuf + drift'[c] + one
        BY <1>n, <1>i, <4>1, <4>4, <4>5, Sizes
      <4> QED BY <1>w, <3>2, <4>2, <4>3
    <3> QED BY <3>1, <3>2
  <2> QED BY <1>1, <1>f, <2>1, SpaceNext
<1>9. StreamParts'
  <2>1. Ints(acked[c], Acks(c)) /\ Ints(sendQueue[c], Queued(c))
    BY <1>b, Elements DEF Acks, Queued
  <2>2. c \notin Datagrams /\ attached[c] => ExactParts(c)'
    <3>1. c \notin Datagrams /\ attached[c] => ExactParts(c)
      BY DEF StreamParts
    <3> QED BY <1>1, <1>n, <1>g, <1>h, <1>w, <3>1, AckExact DEF ExactParts
  <2>5. c \notin Datagrams /\ ~attached[c] => ClosedParts(c)'
    <3>1. c \notin Datagrams /\ ~attached[c] => ClosedParts(c)
      BY DEF StreamParts
    <3>2. Acks(c)' + Queued(c)' + Waiting(c) = Acks(c) + Queued(c) + Waiting(c)
      BY <1>n, <1>g, <1>h, <1>k DEF Longer
    <3>3. Acks(c) + Queued(c) + Waiting(c) \in Nat
      BY <1>n
    <3> QED BY <1>1, <1>n, <1>g, <1>h, <1>w, <3>1, <3>2, <3>3, AckExact DEF ClosedParts
  <2>3. c \in Datagrams => LooseParts(c)'
    <3>1. c \in Datagrams => LooseParts(c)
      BY DEF StreamParts
    <3> QED BY <1>1, <1>n, <1>g, <1>h, <1>w, <2>1, <3>1, AckLoose DEF LooseParts
  <2>4. \A d \in Conns : d # c => /\ ExactParts(d) => ExactParts(d)'
                                  /\ LooseParts(d) => LooseParts(d)'
                                  /\ ClosedParts(d) => ClosedParts(d)'
    BY <1>1, <1>e, <1>w DEF ExactParts, LooseParts, ClosedParts
  <2> QED BY <1>1, <1>f, <2>2, <2>3, <2>4, <2>5 DEF StreamParts
<1> QED BY <1>2, <1>3, <1>4, <1>5, <1>6, <1>7, <1>8, <1>9

LEMMA StepClearWriteDone ==
  ASSUME TxInv, ClearWriteDone
  PROVE  TxInv'
<1> USE DEF TxInv
<1>1. UNCHANGED <<txRing, txSpace, writeReady, commands, readyRing, kind, dry, drains,
                  sendQueue, acked, drift, finned, noSpace, writeQueue, parent, attached, starved, up,
                  open, sent, ready, at, cur, want>>
  BY DEF ClearWriteDone, env, appVars, tcp

<1>a. svc.step \in Serving /\ PlainStep
  <2>1. /\ svc.step \in {"clear", "clear2"}
        /\ svc' = [svc EXCEPT !.step = IF svc.step = "clear" THEN "count" ELSE "mark"]
    BY DEF ClearWriteDone
  <2> QED BY <2>1 DEF PlainStep, Serving
<1>b. svc' \in SvcRecs /\ SvcSound'
  BY <1>1, <1>a, SvcGoes DEF PlainStep
<1>2. TypeOK'
  <2>0. TypeRings /\ TypeFlags /\ TypeLists /\ TypeSvc /\ TypeApp
    BY TypeGroups
  <2>1. TypeRings'
    BY <1>1, <2>0 DEF TypeRings
  <2>2. TypeFlags'
    BY <1>1, <2>0 DEF TypeFlags, ClearWriteDone
  <2>3. TypeLists'
    BY <1>1, <2>0 DEF TypeLists
  <2>4. TypeSvc'
    BY <1>1, <1>b, <2>0 DEF TypeSvc
  <2>5. TypeApp'
    BY <1>1, <2>0 DEF TypeApp
  <2> QED BY <2>1, <2>2, <2>3, <2>4, <2>5, TypeNext
<1>3. SvcSound'
  BY <1>b
<1>4. CommandsSound'
  BY <1>1 DEF CommandsSound, Datagrams
<1>5. ConnsSound'
  BY <1>1 DEF ConnsSound
<1>6. AppSound'
  BY <1>1 DEF AppSound
<1>7. BoundsSound'
  BY <1>1 DEF BoundsSound, Datagrams, Fill, Waiting, Queued
<1>8. TxSpaceAccurate'
  BY <1>1 DEF TxSpaceAccurate, Datagrams
<1>9. StreamParts'
  BY <1>1 DEF StreamParts, ExactParts, LooseParts, ClosedParts, Datagrams, Acks, Queued, Waiting
<1> QED BY <1>2, <1>3, <1>4, <1>5, <1>6, <1>7, <1>8, <1>9

LEMMA StepCountTxBufs ==
  ASSUME TxInv, CountTxBufs
  PROVE  TxInv'
<1> USE DEF TxInv
<1>1. UNCHANGED <<txRing, txSpace, writeReady, writeDone, commands, readyRing, kind,
                  dry, drains, sendQueue, acked, drift, finned, noSpace, writeQueue, parent, attached,
                  starved, up, open, sent, ready, at, cur, want>>
  BY DEF CountTxBufs, shared, env, appVars, tcp

<1>a. /\ svc.step = "count" /\ svc.step \in Serving /\ svc.conn \in Conns
      /\ svc.caller \in Callers /\ (up => attached[svc.conn])
      /\ svc.caller = "starved" => starved # <<>>
  BY SvcAt DEF CountTxBufs, Serving
<1>b. Waiting(svc.conn) \in Nat
  BY <1>a, TypedConn
<1>c. /\ svc' \in SvcRecs /\ svc'.conn = svc.conn /\ svc'.caller = svc.caller
      /\ \/ svc'.step = "mark"
         \/ svc'.step = "send" /\ svc.conn \notin Datagrams
         \/ svc'.step = "burst" /\ svc.conn \in Datagrams /\ svc'.goal = Waiting(svc.conn)
  <2>1. \/ svc' = [svc EXCEPT !.step = "mark"]
        \/ svc.conn \in Datagrams
             /\ svc' = [svc EXCEPT !.step = "burst", !.goal = Waiting(svc.conn)]
        \/ svc.conn \notin Datagrams /\ svc' = [svc EXCEPT !.step = "send"]
    BY DEF CountTxBufs, Waiting
  <2>2. svc \in SvcRecs
    BY TypedSvc
  <2> QED BY <1>b, <2>1, <2>2 DEF SvcRecs
<1>f. Datagrams' = Datagrams /\ \A d \in Conns : Waiting(d)' = Waiting(d)
  BY <1>1 DEF Datagrams, Waiting
<1>2. TypeOK'
  <2>0. TypeRings /\ TypeFlags /\ TypeLists /\ TypeSvc /\ TypeApp
    BY TypeGroups
  <2>1. TypeRings'
    BY <1>1, <2>0 DEF TypeRings
  <2>2. TypeFlags'
    BY <1>1, <2>0 DEF TypeFlags
  <2>3. TypeLists'
    BY <1>1, <2>0 DEF TypeLists
  <2>4. TypeSvc'
    BY <1>1, <1>c, <2>0 DEF TypeSvc
  <2>5. TypeApp'
    BY <1>1, <2>0 DEF TypeApp
  <2> QED BY <2>1, <2>2, <2>3, <2>4, <2>5, TypeNext
<1>3. SvcSound'
  <2>1. svc'.step = "burst" => svc'.goal <= Waiting(svc.conn)'
    BY <1>a, <1>b, <1>c, <1>f, Sizes
  <2> QED BY <1>1, <1>a, <1>c, <1>f, <2>1 DEF SvcSound, Serving
<1>4. CommandsSound'
  BY <1>1 DEF CommandsSound, Datagrams
<1>5. ConnsSound'
  BY <1>1 DEF ConnsSound
<1>6. AppSound'
  BY <1>1 DEF AppSound
<1>7. BoundsSound'
  BY <1>1 DEF BoundsSound, Datagrams, Fill, Waiting, Queued
<1>8. TxSpaceAccurate'
  BY <1>1 DEF TxSpaceAccurate, Datagrams
<1>9. StreamParts'
  BY <1>1 DEF StreamParts, ExactParts, LooseParts, ClosedParts, Datagrams, Acks, Queued, Waiting
<1> QED BY <1>2, <1>3, <1>4, <1>5, <1>6, <1>7, <1>8, <1>9

LEMMA StepSendPage ==
  ASSUME TxInv, SendPage
  PROVE  TxInv'
<1> USE DEF TxInv
<1>1. UNCHANGED <<txRing, txSpace, writeReady, writeDone, commands, readyRing, kind,
                  dry, drains, sendQueue, acked, drift, finned, noSpace, writeQueue, parent, attached,
                  starved, up, open, sent, ready, at, cur, want>>
  BY DEF SendPage, shared, env, appVars, tcp

<1>a. /\ svc.step = "send" /\ svc.step \in Serving /\ svc.conn \in Conns
      /\ svc.caller \in Callers /\ (up => attached[svc.conn]) /\ svc.conn \notin Datagrams
      /\ svc.caller = "starved" => starved # <<>>
  BY SvcAt DEF SendPage, Serving, SvcSound
<1>g. PICK goal \in SizeGoals :
        svc' = IF WSpace(svc.conn) > 0
               THEN [svc EXCEPT !.step = "page", !.goal = goal, !.took = 0]
               ELSE [svc EXCEPT !.step = "clear2"]
  BY DEF SendPage
<1>b. \/ svc' = [svc EXCEPT !.step = "page", !.goal = goal, !.took = 0]
      \/ svc' = [svc EXCEPT !.step = "clear2"]
  BY <1>g
<1>c. svc \in SvcRecs /\ goal \in Nat /\ 0 \in Nat
  BY TypedSvc, Sizes
<1>d. /\ svc' \in SvcRecs /\ svc'.conn = svc.conn /\ svc'.caller = svc.caller
      /\ \/ svc'.step = "clear2"
         \/ svc'.step = "page" /\ svc'.goal = goal /\ svc'.took = 0
  <2>1. CASE svc' = [svc EXCEPT !.step = "clear2"]
    BY <1>c, <2>1, SvcMoves DEF Steps, Serving
  <2>2. CASE svc' = [svc EXCEPT !.step = "page", !.goal = goal, !.took = 0]
    <3>1. svc' = [step |-> "page", conn |-> svc.conn, goal |-> goal, took |-> 0,
                  caller |-> svc.caller]
      BY <1>c, <2>2 DEF SvcRecs
    <3> QED BY <1>c, <3>1 DEF SvcRecs
  <2> QED BY <1>b, <2>1, <2>2
<1>f. Datagrams' = Datagrams
  BY <1>1 DEF Datagrams
<1>2. TypeOK'
  <2>0. TypeRings /\ TypeFlags /\ TypeLists /\ TypeSvc /\ TypeApp
    BY TypeGroups
  <2>1. TypeRings'
    BY <1>1, <2>0 DEF TypeRings
  <2>2. TypeFlags'
    BY <1>1, <2>0 DEF TypeFlags
  <2>3. TypeLists'
    BY <1>1, <2>0 DEF TypeLists
  <2>4. TypeSvc'
    BY <1>1, <1>d, <2>0 DEF TypeSvc
  <2>5. TypeApp'
    BY <1>1, <2>0 DEF TypeApp
  <2> QED BY <2>1, <2>2, <2>3, <2>4, <2>5, TypeNext
<1>3. SvcSound'
  <2>1. svc'.step = "page" => svc'.goal + svc'.took \in SizeGoals
    BY <1>c, <1>d
  <2> QED BY <1>1, <1>a, <1>d, <1>f, <2>1 DEF SvcSound, Serving
<1>4. CommandsSound'
  BY <1>1 DEF CommandsSound, Datagrams
<1>5. ConnsSound'
  BY <1>1 DEF ConnsSound
<1>6. AppSound'
  BY <1>1 DEF AppSound
<1>7. BoundsSound'
  BY <1>1 DEF BoundsSound, Datagrams, Fill, Waiting, Queued
<1>8. TxSpaceAccurate'
  BY <1>1 DEF TxSpaceAccurate, Datagrams
<1>9. StreamParts'
  BY <1>1 DEF StreamParts, ExactParts, LooseParts, ClosedParts, Datagrams, Acks, Queued, Waiting
<1> QED BY <1>2, <1>3, <1>4, <1>5, <1>6, <1>7, <1>8, <1>9

LEMMA StepDequeueTxBuf ==
  ASSUME TxInv, DequeueTxBuf
  PROVE  TxInv'
<1> USE DEF TxInv
<1>1. UNCHANGED <<txSpace, writeReady, writeDone, commands, readyRing, kind, dry,
                  drains, acked, drift, finned, noSpace, writeQueue, parent, attached, starved, up,
                  open, sent, ready, at, cur, want>>
  BY DEF DequeueTxBuf, env, appVars, tcp

<1>0. PICK c \in Conns : c = svc.conn
  BY SvcAt DEF DequeueTxBuf, Serving
<1>a. /\ svc.step = "page" /\ svc.step \in Serving /\ svc.caller \in Callers
      /\ c \notin Datagrams /\ up /\ attached[c]
      /\ svc.caller = "starved" => starved # <<>>
  BY <1>0, SvcAt DEF DequeueTxBuf, SvcSound, Serving
<1>b. /\ txRing' = [txRing EXCEPT ![c] = Tail(txRing[c])]
      /\ sendQueue' = [sendQueue EXCEPT ![c] = Append(sendQueue[c], Head(txRing[c]))]
      /\ svc' = [svc EXCEPT !.goal = svc.goal - 1, !.took = svc.took + 1]
      /\ svc.goal > 0 /\ txRing[c] # <<>>
  BY <1>0 DEF DequeueTxBuf
<1>c. /\ svc' \in SvcRecs /\ svc'.conn = c /\ svc'.caller = svc.caller
      /\ svc'.step = "page" /\ svc'.goal + svc'.took \in SizeGoals
  <2>1. PICK g \in Nat, t \in Nat : g = svc.goal /\ t = svc.took
    BY TypedSvc
  <2>2. g + t \in SizeGoals /\ g > 0
    BY <1>a, <1>b, <2>1 DEF SvcSound
  <2>3. g - 1 \in Nat /\ t + 1 \in Nat /\ (g - 1) + (t + 1) = g + t
    BY <2>2, Sizes
  <2>4. svc \in SvcRecs
    BY TypedSvc
  <2>5. svc' = [step |-> "page", conn |-> c, goal |-> g - 1, took |-> t + 1,
                caller |-> svc.caller]
    BY <1>0, <1>a, <1>b, <2>1, <2>4 DEF SvcRecs
  <2>6. svc.caller \in {"command", "txready", "starved", NONE}
    BY <1>a DEF Callers
  <2> QED BY <1>a, <2>2, <2>3, <2>5, <2>6 DEF SvcRecs
<1>d. txRing[c] \in Seq(Numbers) /\ sendQueue[c] \in Seq(Numbers)
  BY <1>a, TypedConn
<1>n. /\ sent[c] \in Nat /\ txSpace[c] \in Nat
      /\ Queued(c) \in Nat /\ Waiting(c) \in Nat /\ Acks(c) \in Nat
  BY <1>a, TypedConn
<1>t. TypeRings
  BY TypeGroups
<1>e. /\ \A d \in Conns : d # c => txRing'[d] = txRing[d] /\ sendQueue'[d] = sendQueue[d]
      /\ txRing'[c] = Tail(txRing[c])
      /\ sendQueue'[c] = Append(sendQueue[c], Head(txRing[c]))
  BY <1>a, <1>b, <1>t DEF TypeRings
<1>f. Datagrams' = Datagrams
  BY <1>1 DEF Datagrams
<1>g. /\ Tail(txRing[c]) \in Seq(Numbers) /\ Head(txRing[c]) \in Numbers
      /\ Head(txRing[c]) = txRing[c][1] /\ Waiting(c)' \in Nat
      /\ Shorter(txRing[c], Waiting(c), txRing'[c], Waiting(c)')
  <2>1. /\ Tail(txRing[c]) \in Seq(Numbers) /\ Head(txRing[c]) \in Numbers
        /\ Head(txRing[c]) = txRing[c][1] /\ Len(Tail(txRing[c])) \in Nat
        /\ Shorter(txRing[c], Len(txRing[c]), Tail(txRing[c]), Len(Tail(txRing[c])))
    BY <1>b, <1>d, Taken
  <2>2. /\ Waiting(c) = Len(txRing[c]) /\ Waiting(c)' = Len(Tail(txRing[c]))
    BY <1>e DEF Waiting
  <2> QED BY <1>e, <2>1, <2>2
<1>h. /\ Append(sendQueue[c], Head(txRing[c])) \in Seq(Numbers) /\ Queued(c)' \in Nat
      /\ Longer(sendQueue[c], Queued(c), txRing[c][1], sendQueue'[c], Queued(c)')
  <2>1. Queued(c) = Len(sendQueue[c]) /\ Queued(c)' = Len(sendQueue'[c])
    BY DEF Queued
  <2> QED BY <1>d, <1>e, <1>g, <2>1, Added
<1>w. \A d \in Conns : /\ Acks(d)' = Acks(d)
                       /\ d # c => Queued(d)' = Queued(d) /\ Waiting(d)' = Waiting(d)
  BY <1>1, <1>e DEF Waiting, Queued, Acks
<1>k. Waiting(c) = Waiting(c)' + 1 /\ Queued(c)' = Queued(c) + 1
  BY <1>g, <1>h DEF Shorter, Longer
<1>2. TypeOK'
  <2>0. TypeRings /\ TypeFlags /\ TypeLists /\ TypeSvc /\ TypeApp
    BY TypeGroups
  <2>1. TypeRings'
    BY <1>1, <1>b, <1>g, <1>h, <1>t DEF TypeRings
  <2>2. TypeFlags'
    BY <1>1, <2>0 DEF TypeFlags
  <2>3. TypeLists'
    BY <1>1, <2>0 DEF TypeLists
  <2>4. TypeSvc'
    BY <1>1, <1>c, <2>0 DEF TypeSvc
  <2>5. TypeApp'
    BY <1>1, <2>0 DEF TypeApp
  <2> QED BY <2>1, <2>2, <2>3, <2>4, <2>5, TypeNext
<1>3. SvcSound'
  BY <1>0, <1>1, <1>a, <1>c, <1>f DEF SvcSound, Serving
<1>4. CommandsSound'
  <2>1. ASSUME NEW i \in DOMAIN commands, commands[i].op = "SET_RING"
        PROVE  sendQueue'[commands[i].conn] = sendQueue[commands[i].conn]
    <3>1. commands[i].conn \in Conns
      BY TypedCommand
    <3>2. ~attached[commands[i].conn]
      BY <2>1 DEF CommandsSound
    <3> QED BY <1>a, <1>e, <3>1, <3>2
  <2> QED BY <1>1, <1>f, <2>1 DEF CommandsSound
<1>5. ConnsSound'
  BY <1>1, <1>a, <1>e DEF ConnsSound
<1>6. AppSound'
  BY <1>1 DEF AppSound
<1>7. BoundsSound'
  <2>1. Waiting(c)' < TxRingSize
    <3>1. Waiting(c) < TxRingSize
      BY <1>a DEF BoundsSound
    <3> QED BY <1>g, <1>k, <3>1, Sizes
  <2> QED BY <1>1, <1>a, <1>f, <1>w, <2>1 DEF BoundsSound, Fill
<1>8. TxSpaceAccurate'
  <2>1. ASSUME NEW d \in Conns
        PROVE  txSpace[d] + Waiting(d)' + Queued(d)' = txSpace[d] + Waiting(d) + Queued(d)
    <3>1. CASE d # c
      BY <1>w, <3>1
    <3>2. CASE d = c
      <4>1. PICK x \in Nat, w \in Nat, q \in Nat :
              x = txSpace[c] /\ w = Waiting(c)' /\ q = Queued(c)
        BY <1>n, <1>g
      <4>2. Waiting(c) = w + 1 /\ Queued(c)' = q + 1
        BY <1>k, <4>1
      <4>3. x + w + (q + 1) = x + (w + 1) + q
        OBVIOUS
      <4> QED BY <3>2, <4>1, <4>2, <4>3
    <3> QED BY <3>1, <3>2
  <2> QED BY <1>1, <1>f, <2>1, SpaceAt, SpaceNext
<1>9. StreamParts'
  <2>1. ExactParts(c)'
    <3>1. ExactParts(c)
      BY <1>a DEF StreamParts
    <3> QED BY <1>1, <1>a, <1>n, <1>g, <1>h, <1>w, <3>1, MoveExact DEF ExactParts
  <2>2. \A d \in Conns : d # c => /\ ExactParts(d) => ExactParts(d)'
                                  /\ LooseParts(d) => LooseParts(d)'
                                  /\ ClosedParts(d) => ClosedParts(d)'
    BY <1>1, <1>e, <1>w DEF ExactParts, LooseParts, ClosedParts
  <2> QED BY <1>1, <1>a, <1>f, <2>1, <2>2 DEF StreamParts
<1> QED BY <1>2, <1>3, <1>4, <1>5, <1>6, <1>7, <1>8, <1>9

LEMMA StepPageDone ==
  ASSUME TxInv, PageDone
  PROVE  TxInv'
<1> USE DEF TxInv
<1>1. UNCHANGED <<txRing, txSpace, writeReady, writeDone, commands, readyRing, kind,
                  dry, drains, sendQueue, acked, drift, finned, noSpace, writeQueue, parent, attached,
                  starved, up, open, sent, ready, at, cur, want>>
  BY DEF PageDone, shared, env, appVars, tcp

<1>a. /\ svc.step = "page" /\ svc.step \in Serving /\ svc.conn \in Conns
      /\ svc.caller \in Callers /\ (up => attached[svc.conn]) /\ svc.conn \notin Datagrams
      /\ svc.caller = "starved" => starved # <<>>
  BY SvcAt DEF PageDone, Serving, SvcSound
<1>b. svc' \in {[svc EXCEPT !.step = "clear2"], [svc EXCEPT !.step = "send"]}
  BY DEF PageDone
<1>c. /\ svc' \in SvcRecs /\ svc'.conn = svc.conn /\ svc'.caller = svc.caller
      /\ svc'.step \in {"clear2", "send"}
  <2>1. svc \in SvcRecs
    BY TypedSvc
  <2>2. "clear2" \in Steps /\ "send" \in Steps
    BY DEF Steps, Serving
  <2>3. ASSUME NEW t \in {"clear2", "send"}, svc' = [svc EXCEPT !.step = t]
        PROVE  /\ svc' \in SvcRecs /\ svc'.conn = svc.conn /\ svc'.caller = svc.caller
               /\ svc'.step = t
    BY <2>1, <2>2, <2>3, SvcMoves
  <2> QED BY <1>b, <2>3
<1>f. Datagrams' = Datagrams
  BY <1>1 DEF Datagrams
<1>2. TypeOK'
  <2>0. TypeRings /\ TypeFlags /\ TypeLists /\ TypeSvc /\ TypeApp
    BY TypeGroups
  <2>1. TypeRings'
    BY <1>1, <2>0 DEF TypeRings
  <2>2. TypeFlags'
    BY <1>1, <2>0 DEF TypeFlags
  <2>3. TypeLists'
    BY <1>1, <2>0 DEF TypeLists
  <2>4. TypeSvc'
    BY <1>1, <1>c, <2>0 DEF TypeSvc
  <2>5. TypeApp'
    BY <1>1, <2>0 DEF TypeApp
  <2> QED BY <2>1, <2>2, <2>3, <2>4, <2>5, TypeNext
<1>3. SvcSound'
  BY <1>1, <1>a, <1>c, <1>f DEF SvcSound, Serving
<1>4. CommandsSound'
  BY <1>1 DEF CommandsSound, Datagrams
<1>5. ConnsSound'
  BY <1>1 DEF ConnsSound
<1>6. AppSound'
  BY <1>1 DEF AppSound
<1>7. BoundsSound'
  BY <1>1 DEF BoundsSound, Datagrams, Fill, Waiting, Queued
<1>8. TxSpaceAccurate'
  BY <1>1 DEF TxSpaceAccurate, Datagrams
<1>9. StreamParts'
  BY <1>1 DEF StreamParts, ExactParts, LooseParts, ClosedParts, Datagrams, Acks, Queued, Waiting
<1> QED BY <1>2, <1>3, <1>4, <1>5, <1>6, <1>7, <1>8, <1>9

LEMMA StepSendBurst ==
  ASSUME TxInv, SendBurst
  PROVE  TxInv'
<1> USE DEF TxInv
<1>1. UNCHANGED <<txSpace, writeReady, writeDone, commands, readyRing, kind, dry,
                  drains, acked, drift, finned, writeQueue, parent, attached, up, open, sent, ready,
                  at, cur, want>>
  BY DEF SendBurst, env, appVars, tcp

<1>0. PICK c \in Conns : c = svc.conn
  BY SvcAt DEF SendBurst, Serving
<1>a. /\ svc.step = "burst" /\ svc.step \in Serving /\ svc.caller \in Callers
      /\ c \in Datagrams /\ up /\ attached[c] /\ svc.goal <= Waiting(c)
      /\ svc.caller = "starved" => starved # <<>>
  BY <1>0, SvcAt DEF SendBurst, SvcSound, Serving
<1>n. /\ sent[c] \in Nat /\ Queued(c) \in Nat /\ Waiting(c) \in Nat /\ Acks(c) \in Nat
      /\ svc.goal \in Nat /\ Fill(c) \in Nat /\ Queued(c) <= Fill(c)
  BY <1>a, TypedConn, TypedSvc, Sizes DEF BoundsSound, Fill
<1> DEFINE room == Fill(c) - Queued(c)
<1>m. WSpace(c) = room /\ room \in Nat
  BY <1>n DEF WSpace, Fill, Queued
<1> HIDE DEF room
<1>p. PICK done \in IF SendsMayFail THEN 0 .. Least({svc.goal, room})
                    ELSE {Least({svc.goal, room})} :
        /\ txRing' = [txRing EXCEPT ![c] = SubSeq(txRing[c], svc.goal + 1, Len(txRing[c]))]
        /\ sendQueue' = [sendQueue EXCEPT ![c] = sendQueue[c] \o SubSeq(txRing[c], 1, done)]
        /\ IF done = svc.goal
           THEN svc' = Opportunity(c, svc.caller) /\ UNCHANGED <<noSpace, starved>>
           ELSE Return(FALSE)
  BY <1>0, <1>m DEF SendBurst
<1>q. done \in Nat /\ done <= svc.goal /\ done <= room
  <2>1. /\ Least({svc.goal, room}) \in Nat /\ Least({svc.goal, room}) <= svc.goal
        /\ Least({svc.goal, room}) <= room
    <3>1. svc.goal \in Int /\ room \in Int
      BY <1>n, <1>m
    <3>2. /\ Least({svc.goal, room}) \in {svc.goal, room}
          /\ Least({svc.goal, room}) <= svc.goal /\ Least({svc.goal, room}) <= room
      BY <3>1, Least2, Zenon
    <3> QED BY <1>n, <1>m, <3>2
  <2>2. done \in Nat /\ done <= Least({svc.goal, room})
    BY <2>1
  <2> QED BY <1>n, <1>m, <2>1, <2>2
<1>r. SvcSound' /\ svc' \in SvcRecs /\ starved' \in Seq(Conns) /\ noSpace' \in [Conns -> BOOLEAN]
  <2>1. CASE done = svc.goal
    <3>1. svc' = Opportunity(c, svc.caller) /\ UNCHANGED <<noSpace, starved>>
      BY <1>p, <2>1
    <3>2. /\ svc' \in SvcRecs /\ svc'.step = "clear" /\ svc'.conn = c
          /\ svc'.caller = svc.caller /\ "clear" \in Serving
      BY <1>a, <3>1, SvcValues DEF Serving
    <3>3. SvcSound'
      BY <1>1, <1>a, <3>1, <3>2, SvcPlain
    <3> QED BY <3>1, <3>2, <3>3, TypeGroups DEF TypeLists, TypeFlags
  <2>2. CASE done # svc.goal
    <3>1. Return(FALSE)
      BY <1>p, <2>2
    <3> QED BY <1>a, <3>1, Returns, ReturnsSound
  <2> QED BY <2>1, <2>2
<1>d. txRing[c] \in Seq(Numbers) /\ sendQueue[c] \in Seq(Numbers) /\ acked[c] \in Seq(Numbers)
  BY TypedConn
<1>t. TypeRings
  BY TypeGroups
<1>e. /\ \A d \in Conns : d # c => txRing'[d] = txRing[d] /\ sendQueue'[d] = sendQueue[d]
      /\ txRing'[c] = SubSeq(txRing[c], svc.goal + 1, Len(txRing[c]))
      /\ sendQueue'[c] = sendQueue[c] \o SubSeq(txRing[c], 1, done)
  BY <1>p, <1>t DEF TypeRings
<1>f. Datagrams' = Datagrams
  BY <1>1 DEF Datagrams
<1>g. /\ sendQueue'[c] \in Seq(Numbers) /\ txRing'[c] \in Seq(Numbers)
      /\ Queued(c)' \in Nat /\ Waiting(c)' \in Nat
      /\ Burst(sendQueue[c], Queued(c), txRing[c], Waiting(c), sendQueue'[c], Queued(c)',
               txRing'[c], Waiting(c)', svc.goal, done)
  <2>1. /\ Queued(c) = Len(sendQueue[c]) /\ Waiting(c) = Len(txRing[c])
        /\ Queued(c)' = Len(sendQueue'[c]) /\ Waiting(c)' = Len(txRing'[c])
    BY DEF Queued, Waiting
  <2>2. svc.goal <= Len(txRing[c])
    BY <1>a, <2>1
  <2>3. svc.goal \in Nat
    BY <1>n
  <2>4. /\ sendQueue'[c] \in Seq(Numbers) /\ txRing'[c] \in Seq(Numbers)
        /\ Len(sendQueue'[c]) \in Nat /\ Len(txRing'[c]) \in Nat
        /\ Burst(sendQueue[c], Len(sendQueue[c]), txRing[c], Len(txRing[c]), sendQueue'[c],
                 Len(sendQueue'[c]), txRing'[c], Len(txRing'[c]), svc.goal, done)
    BY <1>q, <1>d, <1>e, <2>2, <2>3, BurstTaken, Zenon
  <2> QED BY <2>1, <2>4
<1>w. \A d \in Conns : /\ Acks(d)' = Acks(d)
                       /\ d # c => Queued(d)' = Queued(d) /\ Waiting(d)' = Waiting(d)
  BY <1>1, <1>e DEF Waiting, Queued, Acks
<1>k. Waiting(c) = Waiting(c)' + svc.goal /\ Queued(c)' = Queued(c) + done
  BY <1>g DEF Burst
<1>2. TypeOK'
  <2>0. TypeRings /\ TypeFlags /\ TypeLists /\ TypeSvc /\ TypeApp
    BY TypeGroups
  <2>1. TypeRings'
    <3>1. txRing' \in [Conns -> Seq(Numbers)] /\ sendQueue' \in [Conns -> Seq(Numbers)]
      BY <1>p, <1>e, <1>g, <1>t DEF TypeRings
    <3> QED BY <1>1, <1>t, <3>1 DEF TypeRings
  <2>2. TypeFlags'
    BY <1>1, <1>r, <2>0 DEF TypeFlags
  <2>3. TypeLists'
    BY <1>1, <1>r, <2>0 DEF TypeLists
  <2>4. TypeSvc'
    BY <1>1, <1>r, <2>0 DEF TypeSvc
  <2>5. TypeApp'
    BY <1>1, <2>0 DEF TypeApp
  <2> QED BY <2>1, <2>2, <2>3, <2>4, <2>5, TypeNext
<1>3. SvcSound'
  BY <1>r
<1>4. CommandsSound'
  <2>1. ASSUME NEW i \in DOMAIN commands, commands[i].op = "SET_RING"
        PROVE  sendQueue'[commands[i].conn] = sendQueue[commands[i].conn]
    <3>1. commands[i].conn \in Conns
      BY TypedCommand
    <3>2. ~attached[commands[i].conn]
      BY <2>1 DEF CommandsSound
    <3> QED BY <1>a, <1>e, <3>1, <3>2
  <2> QED BY <1>1, <1>f, <2>1 DEF CommandsSound
<1>5. ConnsSound'
  BY <1>1, <1>a, <1>e DEF ConnsSound
<1>6. AppSound'
  BY <1>1 DEF AppSound
<1>7. BoundsSound'
  <2>1. Waiting(c)' < TxRingSize
    <3>1. Waiting(c) < TxRingSize
      BY DEF BoundsSound
    <3> QED BY <1>n, <1>g, <1>k, <3>1, Sizes
  <2>2. Queued(c)' <= Fill(c)
    BY <1>n, <1>q, <1>k DEF room
  <2> QED BY <1>1, <1>f, <1>w, <2>1, <2>2 DEF BoundsSound, Fill
<1>8. TxSpaceAccurate'
  BY <1>1, <1>a, <1>f, <1>w, SpaceAt, SpaceNext
<1>9. StreamParts'
  <2>1. LooseParts(c)'
    <3>1. LooseParts(c)
      BY <1>a DEF StreamParts
    <3>2. Ints(acked[c], Acks(c)) /\ Ints(sendQueue[c], Queued(c))
      BY <1>d, Elements DEF Acks, Queued
    <3> QED BY <1>1, <1>n, <1>q, <1>g, <1>w, <3>1, <3>2, BurstLoose DEF LooseParts
  <2>2. \A d \in Conns : d # c => /\ ExactParts(d) => ExactParts(d)'
                                  /\ LooseParts(d) => LooseParts(d)'
                                  /\ ClosedParts(d) => ClosedParts(d)'
    BY <1>1, <1>e, <1>w DEF ExactParts, LooseParts, ClosedParts
  <2> QED BY <1>1, <1>a, <1>f, <2>1, <2>2 DEF StreamParts
<1> QED BY <1>2, <1>3, <1>4, <1>5, <1>6, <1>7, <1>8, <1>9

LEMMA StepMarkWritable ==
  ASSUME TxInv, MarkWritable
  PROVE  TxInv'
<1> USE DEF TxInv
<1>1. UNCHANGED <<txRing, txSpace, writeDone, commands, readyRing, kind, dry, drains,
                  sendQueue, acked, drift, finned, writeQueue, parent, attached, up, open, sent, ready,
                  at, cur, want>>
  BY DEF MarkWritable, env, appVars, tcp

<1>a. svc.step = "mark" /\ svc.step \in Serving
  BY DEF MarkWritable, Serving
<1>b. /\ SvcSound' /\ svc' \in SvcRecs /\ starved' \in Seq(Conns)
      /\ noSpace' \in [Conns -> BOOLEAN] /\ writeReady' \in [Conns -> BOOLEAN]
  <2>0. TypeFlags /\ TypeLists
    BY TypeGroups
  <2>1. CASE \E keep \in BOOLEAN : Return(keep) /\ UNCHANGED writeReady
    BY <1>a, <2>0, <2>1, Returns, ReturnsSound DEF TypeFlags
  <2>2. CASE /\ writeReady' = [writeReady EXCEPT ![svc.conn] = TRUE]
             /\ svc' = [svc EXCEPT !.step = "post"] /\ UNCHANGED <<noSpace, starved>>
    <3>1. "post" \in Serving \ {"send", "page", "burst"}
      BY DEF Serving
    <3>2. SvcSound' /\ svc' \in SvcRecs
      BY <1>1, <1>a, <2>2, <3>1, SvcGoes
    <3> QED BY <2>0, <2>2, <3>2 DEF TypeFlags, TypeLists
  <2> QED BY <2>1, <2>2 DEF MarkWritable
<1>2. TypeOK'
  <2>0. TypeRings /\ TypeFlags /\ TypeLists /\ TypeSvc /\ TypeApp
    BY TypeGroups
  <2>1. TypeRings'
    BY <1>1, <2>0 DEF TypeRings
  <2>2. TypeFlags'
    BY <1>1, <1>b, <2>0 DEF TypeFlags
  <2>3. TypeLists'
    BY <1>1, <1>b, <2>0 DEF TypeLists
  <2>4. TypeSvc'
    BY <1>1, <1>b, <2>0 DEF TypeSvc
  <2>5. TypeApp'
    BY <1>1, <2>0 DEF TypeApp
  <2> QED BY <2>1, <2>2, <2>3, <2>4, <2>5, TypeNext
<1>3. SvcSound'
  BY <1>b
<1>4. CommandsSound'
  BY <1>1 DEF CommandsSound, Datagrams
<1>5. ConnsSound'
  BY <1>1 DEF ConnsSound
<1>6. AppSound'
  BY <1>1 DEF AppSound
<1>7. BoundsSound'
  BY <1>1 DEF BoundsSound, Datagrams, Fill, Waiting, Queued
<1>8. TxSpaceAccurate'
  BY <1>1 DEF TxSpaceAccurate, Datagrams
<1>9. StreamParts'
  BY <1>1 DEF StreamParts, ExactParts, LooseParts, ClosedParts, Datagrams, Acks, Queued, Waiting
<1> QED BY <1>2, <1>3, <1>4, <1>5, <1>6, <1>7, <1>8, <1>9

LEMMA StepPostWritable ==
  ASSUME TxInv, PostWritable
  PROVE  TxInv'
<1> USE DEF TxInv
<1>1. UNCHANGED <<txRing, txSpace, writeReady, writeDone, commands, kind, dry, drains,
                  sendQueue, acked, drift, finned, writeQueue, parent, attached, up, open, sent, ready,
                  at, cur, want>>
  BY DEF PostWritable, env, appVars, tcp

<1>0. PICK c \in Conns : c = svc.conn
  BY SvcAt DEF PostWritable, Serving
<1>a. svc.step \in Serving /\ attached[c]
  BY <1>0, SvcAt DEF PostWritable, Serving
<1>b. /\ SvcSound' /\ svc' \in SvcRecs /\ starved' \in Seq(Conns)
      /\ noSpace' \in [Conns -> BOOLEAN]
  <2>1. Return(Len(readyRing) >= ReadyRingSize - 1)
    BY DEF PostWritable
  <2>2. \E keep \in BOOLEAN : Return(keep)
    <3>1. (Len(readyRing) >= ReadyRingSize - 1) \in BOOLEAN
      OBVIOUS
    <3> QED BY <2>1, <3>1
  <2> QED BY <1>a, <2>2, Returns, ReturnsSound
<1>c. readyRing \in Seq(Conns)
  BY TypeGroups DEF TypeLists
<1>d. readyRing' = readyRing \/ readyRing' = Append(readyRing, c)
  BY <1>0 DEF PostWritable
<1>e. /\ readyRing' \in Seq(Conns)
      /\ \A i \in DOMAIN readyRing' : readyRing'[i] = c
            \/ \E j \in DOMAIN readyRing : readyRing'[i] = readyRing[j]
  <2>1. CASE readyRing' = readyRing
    BY <1>c, <2>1
  <2>2. CASE readyRing' = Append(readyRing, c)
    <3>1. /\ readyRing' \in Seq(Conns) /\ DOMAIN readyRing' = 1 .. Len(readyRing) + 1
          /\ DOMAIN readyRing = 1 .. Len(readyRing) /\ Len(readyRing) \in Nat
          /\ \A i \in 1 .. Len(readyRing) : readyRing'[i] = readyRing[i]
          /\ readyRing'[Len(readyRing) + 1] = c
      BY <1>c, <2>2, AppendProperties, LenProperties
    <3>2. \A i \in 1 .. Len(readyRing) + 1 : i \in 1 .. Len(readyRing) \/ i = Len(readyRing) + 1
      BY <3>1
    <3> QED BY <3>1, <3>2
  <2> QED BY <1>d, <2>1, <2>2
<1>2. TypeOK'
  <2>0. TypeRings /\ TypeFlags /\ TypeLists /\ TypeSvc /\ TypeApp
    BY TypeGroups
  <2>1. TypeRings'
    BY <1>1, <2>0 DEF TypeRings
  <2>2. TypeFlags'
    BY <1>1, <1>b, <2>0 DEF TypeFlags
  <2>3. TypeLists'
    BY <1>1, <1>b, <1>e, <2>0 DEF TypeLists
  <2>4. TypeSvc'
    BY <1>1, <1>b, <2>0 DEF TypeSvc
  <2>5. TypeApp'
    BY <1>1, <2>0 DEF TypeApp
  <2> QED BY <2>1, <2>2, <2>3, <2>4, <2>5, TypeNext
<1>3. SvcSound'
  BY <1>b
<1>4. CommandsSound'
  BY <1>1 DEF CommandsSound, Datagrams
<1>5. ConnsSound'
  BY <1>1, <1>a, <1>e DEF ConnsSound
<1>6. AppSound'
  BY <1>1 DEF AppSound
<1>7. BoundsSound'
  BY <1>1 DEF BoundsSound, Datagrams, Fill, Waiting, Queued
<1>8. TxSpaceAccurate'
  BY <1>1 DEF TxSpaceAccurate, Datagrams
<1>9. StreamParts'
  BY <1>1 DEF StreamParts, ExactParts, LooseParts, ClosedParts, Datagrams, Acks, Queued, Waiting
<1> QED BY <1>2, <1>3, <1>4, <1>5, <1>6, <1>7, <1>8, <1>9

LEMMA StepServeStarved ==
  ASSUME TxInv, ServeStarved
  PROVE  TxInv'
<1> USE DEF TxInv
<1>1. UNCHANGED <<txRing, writeReady, writeDone, commands, readyRing, kind, dry, drains,
                  sendQueue, acked, drift, finned, noSpace, writeQueue, parent, attached, starved,
                  open, sent, ready, at, cur, want>>
  BY DEF ServeStarved, env, appVars, tcp

<1>a. /\ starved # <<>> => Head(starved) \in Conns
      /\ TypeRings /\ TypeFlags /\ TypeSvc /\ starved \in Seq(Conns)
  BY TypeGroups DEF TypeLists
<1>b. /\ svc' \in SvcRecs /\ up' \in BOOLEAN /\ SvcSound'
      /\ svc'.step = "mark" => Head(starved) \in Conns
  <2>1. CASE svc' = Idle /\ UNCHANGED up
    BY <1>a, <2>1, SvcValues, SvcRests DEF TypeSvc
  <2>2. CASE /\ starved # <<>> /\ up' = attached[Head(starved)]
             /\ svc' = MarkFor(Head(starved), "starved")
    <3>1. /\ svc' \in SvcRecs /\ svc'.step = "mark" /\ svc'.conn = Head(starved)
          /\ svc'.caller = "starved" /\ "starved" \in Callers /\ "mark" \in Serving
      BY <1>a, <2>2, SvcValues DEF Callers, Serving
    <3>2. SvcSound'
      BY <1>1, <1>a, <2>2, <3>1, SvcPlain
    <3>3. up' \in BOOLEAN
      BY <1>a, <2>2 DEF TypeFlags
    <3> QED BY <1>a, <2>2, <3>1, <3>2, <3>3
  <2> QED BY <2>1, <2>2 DEF ServeStarved
<1>c. \/ txSpace' = txSpace
      \/ \E d \in Conns : d \in Datagrams /\ txSpace' = [txSpace EXCEPT ![d] = SndBuf]
  BY <1>b DEF ServeStarved
<1>d. /\ txSpace' \in [Conns -> Nat]
      /\ \A d \in Conns : \/ txSpace'[d] = txSpace[d]
                          \/ d \in Datagrams /\ txSpace'[d] = SndBuf
  <2>1. CASE txSpace' = txSpace
    BY <1>a, <2>1 DEF TypeRings
  <2>2. ASSUME NEW d \in Conns, d \in Datagrams, txSpace' = [txSpace EXCEPT ![d] = SndBuf]
        PROVE  /\ txSpace' \in [Conns -> Nat]
               /\ \A e \in Conns : \/ txSpace'[e] = txSpace[e]
                                   \/ e \in Datagrams /\ txSpace'[e] = SndBuf
    <3>1. SndBuf \in Nat
      BY Sizes
    <3> QED BY <1>a, <2>2, <3>1 DEF TypeRings
  <2> QED BY <1>c, <2>1, <2>2
<1>2. TypeOK'
  <2>0. TypeRings /\ TypeFlags /\ TypeLists /\ TypeSvc /\ TypeApp
    BY TypeGroups
  <2>1. TypeRings'
    BY <1>1, <1>a, <1>d DEF TypeRings
  <2>2. TypeFlags'
    BY <1>1, <2>0 DEF TypeFlags
  <2>3. TypeLists'
    BY <1>1, <2>0 DEF TypeLists
  <2>4. TypeSvc'
    BY <1>1, <1>b, <2>0 DEF TypeSvc
  <2>5. TypeApp'
    BY <1>1, <2>0 DEF TypeApp
  <2> QED BY <2>1, <2>2, <2>3, <2>4, <2>5, TypeNext
<1>3. SvcSound'
  BY <1>b
<1>4. CommandsSound'
  BY <1>1 DEF CommandsSound, Datagrams
<1>5. ConnsSound'
  BY <1>1 DEF ConnsSound
<1>6. AppSound'
  <2>1. ASSUME NEW d \in Conns PROVE txSpace'[d] \in Nat /\ txSpace[d] <= txSpace'[d]
    <3>1. txSpace[d] \in Nat /\ (d \in Datagrams => txSpace[d] <= SndBuf)
      BY TypedConn DEF BoundsSound
    <3> QED BY <1>d, <3>1, Sizes
  <2>2. want \in Nat /\ \A d \in Conns : txSpace[d] \in Nat
    BY TypedConn, TypedSvc
  <2> QED BY <1>1, <2>1, <2>2 DEF AppSound
<1>7. BoundsSound'
  <2>1. Datagrams' = Datagrams /\ \A d \in Conns : Waiting(d)' = Waiting(d) /\ Queued(d)' = Queued(d)
    BY <1>1 DEF Datagrams, Waiting, Queued
  <2>2. \A d \in Datagrams : txSpace'[d] <= SndBuf
    BY <1>d, Sizes DEF BoundsSound, Datagrams
  <2> QED BY <2>1, <2>2 DEF BoundsSound, Fill
<1>8. TxSpaceAccurate'
  BY <1>1, <1>d DEF TxSpaceAccurate, Datagrams
<1>9. StreamParts'
  BY <1>1 DEF StreamParts, ExactParts, LooseParts, ClosedParts, Datagrams, Acks, Queued, Waiting
<1> QED BY <1>2, <1>3, <1>4, <1>5, <1>6, <1>7, <1>8, <1>9

LEMMA StepMainLoop ==
  ASSUME TxInv, MainLoop
  PROVE  TxInv'
<1> USE DEF TxInv
<1>1. UNCHANGED <<txRing, txSpace, writeReady, writeDone, commands, readyRing, kind,
                  dry, drains, sendQueue, acked, drift, finned, noSpace, writeQueue, parent, attached,
                  starved, up, open, sent, ready, at, cur, want>>
  BY DEF MainLoop, shared, env, appVars, tcp

<1>a. svc' \in {Idle, Notify} /\ svc' \in SvcRecs
  BY SvcValues DEF MainLoop
<1>2. TypeOK'
  <2>0. TypeRings /\ TypeFlags /\ TypeLists /\ TypeSvc /\ TypeApp
    BY TypeGroups
  <2>1. TypeRings'
    BY <1>1, <2>0 DEF TypeRings
  <2>2. TypeFlags'
    BY <1>1, <2>0 DEF TypeFlags
  <2>3. TypeLists'
    BY <1>1, <2>0 DEF TypeLists
  <2>4. TypeSvc'
    BY <1>1, <1>a, <2>0 DEF TypeSvc
  <2>5. TypeApp'
    BY <1>1, <2>0 DEF TypeApp
  <2> QED BY <2>1, <2>2, <2>3, <2>4, <2>5, TypeNext
<1>3. SvcSound'
  BY <1>a, SvcRests
<1>4. CommandsSound'
  BY <1>1 DEF CommandsSound, Datagrams
<1>5. ConnsSound'
  BY <1>1 DEF ConnsSound
<1>6. AppSound'
  BY <1>1 DEF AppSound
<1>7. BoundsSound'
  BY <1>1 DEF BoundsSound, Datagrams, Fill, Waiting, Queued
<1>8. TxSpaceAccurate'
  BY <1>1 DEF TxSpaceAccurate, Datagrams
<1>9. StreamParts'
  BY <1>1 DEF StreamParts, ExactParts, LooseParts, ClosedParts, Datagrams, Acks, Queued, Waiting
<1> QED BY <1>2, <1>3, <1>4, <1>5, <1>6, <1>7, <1>8, <1>9

LEMMA StepPoolRunsDry ==
  ASSUME TxInv, PoolRunsDry
  PROVE  TxInv'
<1> USE DEF TxInv
<1>1. UNCHANGED <<txRing, txSpace, writeReady, writeDone, commands, readyRing, kind,
                  sendQueue, acked, drift, finned, noSpace, writeQueue, parent, attached, starved, svc,
                  up, open, sent, ready, at, cur, want>>
  BY DEF PoolRunsDry, shared, svcVars, appVars, tcp
<1>2. TypeOK'
  <2>0. TypeRings /\ TypeFlags /\ TypeLists /\ TypeSvc /\ TypeApp
    BY TypeGroups
  <2>1. TypeRings'
    BY <1>1, <2>0 DEF TypeRings
  <2>2. TypeFlags'
    BY <1>1, <2>0 DEF TypeFlags
  <2>3. TypeLists'
    BY <1>1, <2>0 DEF TypeLists
  <2>4. TypeSvc'
    <3>1. drains + 1 \in 0 .. MaxDrains
      BY <2>0, Sizes DEF TypeSvc, PoolRunsDry
    <3> QED BY <1>1, <2>0, <3>1 DEF TypeSvc, PoolRunsDry
  <2>5. TypeApp'
    BY <1>1, <2>0 DEF TypeApp
  <2> QED BY <2>1, <2>2, <2>3, <2>4, <2>5, TypeNext
<1>3. SvcSound'
  BY <1>1 DEF SvcSound, Datagrams, Waiting
<1>4. CommandsSound'
  BY <1>1 DEF CommandsSound, Datagrams
<1>5. ConnsSound'
  BY <1>1 DEF ConnsSound
<1>6. AppSound'
  BY <1>1 DEF AppSound
<1>7. BoundsSound'
  BY <1>1 DEF BoundsSound, Datagrams, Fill, Waiting, Queued
<1>8. TxSpaceAccurate'
  BY <1>1 DEF TxSpaceAccurate, Datagrams
<1>9. StreamParts'
  BY <1>1 DEF StreamParts, ExactParts, LooseParts, ClosedParts, Datagrams, Acks, Queued, Waiting
<1> QED BY <1>2, <1>3, <1>4, <1>5, <1>6, <1>7, <1>8, <1>9

LEMMA StepPoolRefilled ==
  ASSUME TxInv, PoolRefilled
  PROVE  TxInv'
<1> USE DEF TxInv
<1>1. UNCHANGED <<txRing, txSpace, writeReady, writeDone, commands, readyRing, kind,
                  drains, sendQueue, acked, drift, finned, noSpace, writeQueue, parent, attached,
                  starved, svc, up, open, sent, ready, at, cur, want>>
  BY DEF PoolRefilled, shared, svcVars, appVars, tcp
<1>2. TypeOK'
  <2>0. TypeRings /\ TypeFlags /\ TypeLists /\ TypeSvc /\ TypeApp
    BY TypeGroups
  <2>1. TypeRings'
    BY <1>1, <2>0 DEF TypeRings
  <2>2. TypeFlags'
    BY <1>1, <2>0 DEF TypeFlags
  <2>3. TypeLists'
    BY <1>1, <2>0 DEF TypeLists
  <2>4. TypeSvc'
    BY <1>1, <2>0 DEF TypeSvc, PoolRefilled
  <2>5. TypeApp'
    BY <1>1, <2>0 DEF TypeApp
  <2> QED BY <2>1, <2>2, <2>3, <2>4, <2>5, TypeNext
<1>3. SvcSound'
  BY <1>1 DEF SvcSound, Datagrams, Waiting
<1>4. CommandsSound'
  BY <1>1 DEF CommandsSound, Datagrams
<1>5. ConnsSound'
  BY <1>1 DEF ConnsSound
<1>6. AppSound'
  BY <1>1 DEF AppSound
<1>7. BoundsSound'
  BY <1>1 DEF BoundsSound, Datagrams, Fill, Waiting, Queued
<1>8. TxSpaceAccurate'
  BY <1>1 DEF TxSpaceAccurate, Datagrams
<1>9. StreamParts'
  BY <1>1 DEF StreamParts, ExactParts, LooseParts, ClosedParts, Datagrams, Acks, Queued, Waiting
<1> QED BY <1>2, <1>3, <1>4, <1>5, <1>6, <1>7, <1>8, <1>9

LEMMA StepSelect ==
  ASSUME TxInv, Select
  PROVE  TxInv'
<1> USE DEF TxInv
<1>1. UNCHANGED <<txRing, txSpace, writeReady, writeDone, commands, kind, dry, drains,
                  sendQueue, acked, drift, finned, noSpace, writeQueue, parent, attached, starved, svc,
                  up, open, sent, cur, want>>
  BY DEF Select, env, svcVars, tcp
<1>2. TypeOK'
  <2>0. TypeRings /\ TypeFlags /\ TypeLists /\ TypeSvc /\ TypeApp
    BY TypeGroups
  <2>1. TypeRings'
    BY <1>1, <2>0 DEF TypeRings
  <2>2. TypeFlags'
    BY <1>1, <2>0 DEF TypeFlags
  <2>3. TypeLists'
    BY <1>1, <2>0 DEF TypeLists, Select
  <2>4. TypeSvc'
    BY <1>1, <2>0 DEF TypeSvc
  <2>5. TypeApp'
    BY <1>1, <2>0 DEF TypeApp, Select
  <2> QED BY <2>1, <2>2, <2>3, <2>4, <2>5, TypeNext
<1>3. SvcSound'
  BY <1>1 DEF SvcSound, Datagrams, Waiting
<1>4. CommandsSound'
  BY <1>1 DEF CommandsSound, Datagrams
<1>5. ConnsSound'
  BY <1>1 DEF TypeOK, ConnsSound, Select
<1>6. AppSound'
  BY <1>1 DEF TypeOK, AppSound, Select
<1>7. BoundsSound'
  BY <1>1 DEF BoundsSound, Datagrams, Fill, Waiting, Queued
<1>8. TxSpaceAccurate'
  BY <1>1 DEF TypeOK, TxSpaceAccurate, Datagrams, Select
<1>9. StreamParts'
  BY <1>1 DEF StreamParts, ExactParts, LooseParts, ClosedParts, Datagrams, Acks, Queued, Waiting
<1> QED BY <1>2, <1>3, <1>4, <1>5, <1>6, <1>7, <1>8, <1>9

LEMMA StepGetTxSpace ==
  ASSUME TxInv, NEW c \in Conns, GetTxSpace(c)
  PROVE  TxInv'
<1> USE DEF TxInv
<1>1. UNCHANGED <<txRing, txSpace, writeReady, writeDone, commands, readyRing, kind,
                  dry, drains, sendQueue, acked, drift, finned, noSpace, writeQueue, parent, attached,
                  starved, svc, up, open, sent, ready>>
  BY DEF GetTxSpace, shared, env, svcVars, tcp

<1>a. at = "run" /\ c \in ready /\ c \in open /\ attached[c]
  BY DEF GetTxSpace, ConnsSound
<1> DEFINE free == TxRingSize - 1 - Len(txRing[c])
           pool == IF dry THEN 0 ELSE SndBuf
           space == Least({free, txSpace[c], pool})
           left == MaxData - sent[c]
<1>b. /\ free \in Nat /\ pool \in Nat /\ left \in Nat /\ txSpace[c] \in Nat
      /\ left = MaxData - sent[c] /\ sent[c] \in Nat
  <2>1. /\ Waiting(c) \in Nat /\ Waiting(c) < TxRingSize /\ txSpace[c] \in Nat
        /\ sent[c] \in Nat /\ sent[c] <= MaxData
    BY TypedConn DEF BoundsSound
  <2>2. free = TxRingSize - 1 - Waiting(c)
    BY DEF Waiting
  <2>3. TxRingSize - 1 - Waiting(c) \in Nat /\ MaxData - sent[c] \in Nat
    BY <2>1, Sizes
  <2>4. pool \in Nat
    BY Sizes
  <2> HIDE DEF free, pool
  <2> QED BY <2>1, <2>2, <2>3, <2>4
<1>c. want' = Least({space, left}) /\ at' \in {"low", "send"} /\ cur' = c
  BY DEF GetTxSpace
<1> HIDE DEF free, pool, left
<1>d. space \in Nat /\ space <= txSpace[c]
  <2>1. free \in Int /\ txSpace[c] \in Int /\ pool \in Int
    BY <1>b
  <2>2. space \in {free, txSpace[c], pool} /\ space <= txSpace[c]
    BY <2>1, Least3, Zenon
  <2> QED BY <1>b, <2>2
<1> HIDE DEF space
<1>e. want' \in Nat /\ want' <= space /\ want' <= left
  <2>1. space \in Int /\ left \in Int
    BY <1>b, <1>d
  <2>2. want' \in {space, left} /\ want' <= space /\ want' <= left
    BY <1>c, <2>1, Least2, Zenon
  <2> QED BY <1>b, <1>d, <2>2
<1>g. want' <= txSpace[c] /\ sent[c] + want' <= MaxData /\ want' \in 0 .. MaxData
  BY <1>b, <1>d, <1>e, Sizes
<1>2. TypeOK'
  <2>0. TypeRings /\ TypeFlags /\ TypeLists /\ TypeSvc /\ TypeApp
    BY TypeGroups
  <2>1. TypeRings'
    BY <1>1, <2>0 DEF TypeRings
  <2>2. TypeFlags'
    BY <1>1, <2>0 DEF TypeFlags
  <2>3. TypeLists'
    BY <1>1, <2>0 DEF TypeLists
  <2>4. TypeSvc'
    BY <1>1, <2>0 DEF TypeSvc
  <2>5. TypeApp'
    BY <1>1, <1>c, <1>g, <2>0 DEF TypeApp
  <2> QED BY <2>1, <2>2, <2>3, <2>4, <2>5, TypeNext
<1>3. SvcSound'
  BY <1>1 DEF SvcSound, Datagrams, Waiting
<1>4. CommandsSound'
  BY <1>1 DEF CommandsSound, Datagrams
<1>5. ConnsSound'
  BY <1>1 DEF ConnsSound
<1>6. AppSound'
  BY <1>1, <1>a, <1>c, <1>g DEF AppSound
<1>7. BoundsSound'
  BY <1>1 DEF BoundsSound, Datagrams, Fill, Waiting, Queued
<1>8. TxSpaceAccurate'
  BY <1>1 DEF TypeOK, TxSpaceAccurate, Datagrams, GetTxSpace
<1>9. StreamParts'
  BY <1>1 DEF StreamParts, ExactParts, LooseParts, ClosedParts, Datagrams, Acks, Queued, Waiting
<1> QED BY <1>2, <1>3, <1>4, <1>5, <1>6, <1>7, <1>8, <1>9

LEMMA StepClearWriteReady ==
  ASSUME TxInv, ClearWriteReady
  PROVE  TxInv'
<1> USE DEF TxInv
<1>1. UNCHANGED <<txRing, txSpace, writeDone, commands, readyRing, kind, dry, drains,
                  sendQueue, acked, drift, finned, noSpace, writeQueue, parent, attached, starved, svc,
                  up, open, sent, ready, cur, want>>
  BY DEF ClearWriteReady, env, svcVars, tcp
<1>2. TypeOK'
  <2>0. TypeRings /\ TypeFlags /\ TypeLists /\ TypeSvc /\ TypeApp
    BY TypeGroups
  <2>1. TypeRings'
    BY <1>1, <2>0 DEF TypeRings
  <2>2. TypeFlags'
    BY <1>1, <2>0 DEF TypeFlags, ClearWriteReady
  <2>3. TypeLists'
    BY <1>1, <2>0 DEF TypeLists
  <2>4. TypeSvc'
    BY <1>1, <2>0 DEF TypeSvc
  <2>5. TypeApp'
    BY <1>1, <2>0 DEF TypeApp, ClearWriteReady
  <2> QED BY <2>1, <2>2, <2>3, <2>4, <2>5, TypeNext
<1>3. SvcSound'
  BY <1>1 DEF SvcSound, Datagrams, Waiting
<1>4. CommandsSound'
  BY <1>1 DEF CommandsSound, Datagrams
<1>5. ConnsSound'
  BY <1>1 DEF ConnsSound
<1>6. AppSound'
  BY <1>1 DEF TypeOK, AppSound, ClearWriteReady
<1>7. BoundsSound'
  BY <1>1 DEF BoundsSound, Datagrams, Fill, Waiting, Queued
<1>8. TxSpaceAccurate'
  BY <1>1 DEF TypeOK, TxSpaceAccurate, Datagrams, ClearWriteReady
<1>9. StreamParts'
  BY <1>1 DEF StreamParts, ExactParts, LooseParts, ClosedParts, Datagrams, Acks, Queued, Waiting
<1> QED BY <1>2, <1>3, <1>4, <1>5, <1>6, <1>7, <1>8, <1>9

LEMMA StepNotifyEmpty ==
  ASSUME TxInv, NotifyEmpty
  PROVE  TxInv'
<1> USE DEF TxInv
<1>1. UNCHANGED <<txRing, txSpace, writeReady, writeDone, readyRing, kind, dry, drains,
                  sendQueue, acked, drift, finned, noSpace, writeQueue, parent, attached, starved, svc,
                  up, open, sent, ready, cur, want>>
  BY DEF NotifyEmpty, env, svcVars, tcp

<1>a. CommandsSound' /\ commands' \in Seq(CommandRecs)
  <2>1. cur \in Conns /\ cur \in open
    BY DEF AppSound, NotifyEmpty
  <2>2. CASE commands' = Append(commands, [op |-> "POOL_EMPTY", conn |-> cur])
    BY <1>1, <2>1, <2>2, QueueSound
  <2>3. CASE UNCHANGED commands
    <3>1. commands \in Seq(CommandRecs)
      BY TypeGroups DEF TypeLists
    <3> QED BY <1>1, <2>3, <3>1 DEF CommandsSound, Datagrams
  <2> QED BY <2>2, <2>3 DEF NotifyEmpty, Queue
<1>2. TypeOK'
  <2>0. TypeRings /\ TypeFlags /\ TypeLists /\ TypeSvc /\ TypeApp
    BY TypeGroups
  <2>1. TypeRings'
    BY <1>1, <2>0 DEF TypeRings
  <2>2. TypeFlags'
    BY <1>1, <2>0 DEF TypeFlags
  <2>3. TypeLists'
    BY <1>1, <1>a, <2>0 DEF TypeLists
  <2>4. TypeSvc'
    BY <1>1, <2>0 DEF TypeSvc
  <2>5. TypeApp'
    BY <1>1, <2>0 DEF TypeApp, NotifyEmpty, Queue
  <2> QED BY <2>1, <2>2, <2>3, <2>4, <2>5, TypeNext
<1>3. SvcSound'
  BY <1>1 DEF SvcSound, Datagrams, Waiting
<1>4. CommandsSound'
  BY <1>a
<1>5. ConnsSound'
  BY <1>1 DEF ConnsSound
<1>6. AppSound'
  BY <1>1 DEF TypeOK, AppSound, NotifyEmpty, Queue
<1>7. BoundsSound'
  BY <1>1 DEF BoundsSound, Datagrams, Fill, Waiting, Queued
<1>8. TxSpaceAccurate'
  BY <1>1 DEF TypeOK, TxSpaceAccurate, Datagrams, NotifyEmpty, Queue
<1>9. StreamParts'
  BY <1>1 DEF StreamParts, ExactParts, LooseParts, ClosedParts, Datagrams, Acks, Queued, Waiting
<1> QED BY <1>2, <1>3, <1>4, <1>5, <1>6, <1>7, <1>8, <1>9

LEMMA StepGetBufferFails ==
  ASSUME TxInv, GetBufferFails
  PROVE  TxInv'
<1> USE DEF TxInv
<1>1. UNCHANGED <<txRing, txSpace, writeReady, writeDone, commands, readyRing, kind,
                  dry, drains, sendQueue, acked, drift, finned, noSpace, writeQueue, parent, attached,
                  starved, svc, up, open, sent, ready, cur>>
  BY DEF GetBufferFails, shared, env, svcVars, tcp
<1>2. TypeOK'
  <2>0. TypeRings /\ TypeFlags /\ TypeLists /\ TypeSvc /\ TypeApp
    BY TypeGroups
  <2>1. TypeRings'
    BY <1>1, <2>0 DEF TypeRings
  <2>2. TypeFlags'
    BY <1>1, <2>0 DEF TypeFlags
  <2>3. TypeLists'
    BY <1>1, <2>0 DEF TypeLists
  <2>4. TypeSvc'
    BY <1>1, <2>0 DEF TypeSvc
  <2>5. TypeApp'
    <3>1. want' = 0 /\ 0 \in 0 .. MaxData /\ at' = "notify"
      BY Sizes DEF GetBufferFails
    <3> QED BY <1>1, <2>0, <3>1 DEF TypeApp
  <2> QED BY <2>1, <2>2, <2>3, <2>4, <2>5, TypeNext
<1>3. SvcSound'
  BY <1>1 DEF SvcSound, Datagrams, Waiting
<1>4. CommandsSound'
  BY <1>1 DEF CommandsSound, Datagrams
<1>5. ConnsSound'
  BY <1>1 DEF ConnsSound
<1>6. AppSound'
  BY <1>1 DEF TypeOK, AppSound, GetBufferFails
<1>7. BoundsSound'
  BY <1>1 DEF BoundsSound, Datagrams, Fill, Waiting, Queued
<1>8. TxSpaceAccurate'
  BY <1>1 DEF TypeOK, TxSpaceAccurate, Datagrams, GetBufferFails
<1>9. StreamParts'
  BY <1>1 DEF StreamParts, ExactParts, LooseParts, ClosedParts, Datagrams, Acks, Queued, Waiting
<1> QED BY <1>2, <1>3, <1>4, <1>5, <1>6, <1>7, <1>8, <1>9

LEMMA StepSendBegins ==
  ASSUME TxInv, SendBegins
  PROVE  TxInv'
<1> USE DEF TxInv
<1>1. UNCHANGED <<txRing, txSpace, writeDone, commands, readyRing, kind, dry, drains,
                  sendQueue, acked, drift, finned, noSpace, writeQueue, parent, attached, starved, svc,
                  up, open, sent, ready, cur, want>>
  BY DEF SendBegins, env, svcVars, tcp
<1>2. TypeOK'
  <2>0. TypeRings /\ TypeFlags /\ TypeLists /\ TypeSvc /\ TypeApp
    BY TypeGroups
  <2>1. TypeRings'
    BY <1>1, <2>0 DEF TypeRings
  <2>2. TypeFlags'
    BY <1>1, <2>0 DEF TypeFlags, SendBegins
  <2>3. TypeLists'
    BY <1>1, <2>0 DEF TypeLists
  <2>4. TypeSvc'
    BY <1>1, <2>0 DEF TypeSvc
  <2>5. TypeApp'
    BY <1>1, <2>0 DEF TypeApp, SendBegins
  <2> QED BY <2>1, <2>2, <2>3, <2>4, <2>5, TypeNext
<1>3. SvcSound'
  BY <1>1 DEF SvcSound, Datagrams, Waiting
<1>4. CommandsSound'
  BY <1>1 DEF CommandsSound, Datagrams
<1>5. ConnsSound'
  BY <1>1 DEF ConnsSound
<1>6. AppSound'
  BY <1>1 DEF TypeOK, AppSound, SendBegins
<1>7. BoundsSound'
  BY <1>1 DEF BoundsSound, Datagrams, Fill, Waiting, Queued
<1>8. TxSpaceAccurate'
  BY <1>1 DEF TypeOK, TxSpaceAccurate, Datagrams, SendBegins
<1>9. StreamParts'
  BY <1>1 DEF StreamParts, ExactParts, LooseParts, ClosedParts, Datagrams, Acks, Queued, Waiting
<1> QED BY <1>2, <1>3, <1>4, <1>5, <1>6, <1>7, <1>8, <1>9

LEMMA StepSendEnqueue ==
  ASSUME TxInv, SendEnqueue
  PROVE  TxInv'
<1> USE DEF TxInv
<1>1. UNCHANGED <<txSpace, writeReady, writeDone, commands, readyRing, kind, dry,
                  drains, sendQueue, acked, drift, finned, noSpace, writeQueue, parent, attached,
                  starved, svc, up, open, ready, cur>>
  BY DEF SendEnqueue, env, svcVars, tcp

<1>0. PICK c \in Conns : c = cur
  BY DEF AppSound, SendEnqueue
<1>a. /\ at = "enqueue" /\ c \in open /\ attached[c] /\ want \in Nat /\ want >= 1
      /\ want <= txSpace[c] /\ sent[c] + want <= MaxData
  BY <1>0, TypedSvc DEF AppSound, SendEnqueue
<1>n. /\ sent[c] \in Nat /\ txSpace[c] \in Nat
      /\ Queued(c) \in Nat /\ Waiting(c) \in Nat /\ Acks(c) \in Nat
  BY TypedConn
<1>t. TypeRings /\ TypeApp
  BY TypeGroups
<1>f. Datagrams' = Datagrams
  BY <1>1 DEF Datagrams
<1>p. sent[c] + 1 \in Numbers /\ sent[c] + 1 \in 0 .. MaxData
  BY <1>a, <1>n, Sizes DEF Numbers
<1>b. \/ /\ UNCHANGED <<txRing, sent>> /\ at' = "send" /\ want' = 0
      \/ /\ Waiting(c) < TxRingSize - 1 /\ at' = "sub" /\ want' = want
         /\ txRing' = [txRing EXCEPT ![c] = Append(txRing[c], sent[c] + 1)]
         /\ sent' = [sent EXCEPT ![c] = sent[c] + 1]
  BY <1>0 DEF SendEnqueue, Waiting
<1>c. /\ \A d \in Conns : d # c => txRing'[d] = txRing[d] /\ sent'[d] = sent[d]
      /\ at' = "send" => txRing' = txRing /\ sent' = sent /\ want' = 0
      /\ at' # "send" => /\ txRing'[c] = Append(txRing[c], sent[c] + 1) /\ want' = want
                         /\ sent'[c] = sent[c] + 1 /\ at' = "sub"
                         /\ Waiting(c) < TxRingSize - 1
  BY <1>b, <1>t DEF TypeRings, TypeApp
<1>d. /\ txRing' \in [Conns -> Seq(Numbers)] /\ sent' \in [Conns -> 0 .. MaxData]
      /\ at' = "sub" => /\ Waiting(c)' \in Nat
                        /\ Longer(txRing[c], Waiting(c), sent'[c], txRing'[c], Waiting(c)')
  <2>1. txRing[c] \in Seq(Numbers)
    BY TypedConn
  <2>2. /\ Append(txRing[c], sent[c] + 1) \in Seq(Numbers)
        /\ Len(Append(txRing[c], sent[c] + 1)) \in Nat
        /\ Longer(txRing[c], Len(txRing[c]), sent[c] + 1, Append(txRing[c], sent[c] + 1),
                  Len(Append(txRing[c], sent[c] + 1)))
    BY <1>p, <2>1, Added
  <2>3. txRing' \in [Conns -> Seq(Numbers)] /\ sent' \in [Conns -> 0 .. MaxData]
    BY <1>b, <1>p, <1>t, <2>2 DEF TypeRings, TypeApp
  <2>4. Waiting(c) = Len(txRing[c]) /\ Waiting(c)' = Len(txRing'[c])
    BY DEF Waiting
  <2> QED BY <1>c, <2>2, <2>3, <2>4
<1>w. \A d \in Conns : /\ Acks(d)' = Acks(d) /\ Queued(d)' = Queued(d)
                       /\ d # c \/ at' = "send" => Waiting(d)' = Waiting(d)
  BY <1>1, <1>c DEF Waiting, Queued, Acks
<1>k. at' = "sub" => Waiting(c)' = Waiting(c) + 1
  BY <1>d DEF Longer
<1>q. at' \in {"send", "sub"} /\ (at' # "send" => at' = "sub")
  BY <1>b
<1>2. TypeOK'
  <2>0. TypeRings /\ TypeFlags /\ TypeLists /\ TypeSvc /\ TypeApp
    BY TypeGroups
  <2>1. TypeRings'
    BY <1>1, <1>d, <1>t DEF TypeRings
  <2>2. TypeFlags'
    BY <1>1, <2>0 DEF TypeFlags
  <2>3. TypeLists'
    BY <1>1, <2>0 DEF TypeLists
  <2>4. TypeSvc'
    BY <1>1, <2>0 DEF TypeSvc
  <2>5. TypeApp'
    <3>1. want' \in 0 .. MaxData
      BY <1>b, <1>t, Sizes DEF TypeApp
    <3> QED BY <1>1, <1>d, <1>q, <1>t, <3>1 DEF TypeApp
  <2> QED BY <2>1, <2>2, <2>3, <2>4, <2>5, TypeNext
<1>3. SvcSound'
  <2>1. ASSUME NEW d \in Conns, NEW g \in Nat, g <= Waiting(d) PROVE g <= Waiting(d)'
    <3>1. CASE d # c \/ at' = "send"
      BY <1>w, <2>1, <3>1
    <3>2. CASE d = c /\ at' = "sub"
      BY <1>n, <1>k, <2>1, <3>2
    <3> QED BY <1>q, <3>1, <3>2
  <2>2. svc.goal \in Nat
    BY TypedSvc
  <2> QED BY <1>1, <1>f, <2>1, <2>2, SvcAt DEF SvcSound, Serving
<1>4. CommandsSound'
  <2>1. ASSUME NEW i \in DOMAIN commands, commands[i].op = "SET_RING"
        PROVE  sent'[commands[i].conn] = sent[commands[i].conn]
    <3>1. commands[i].conn \in Conns
      BY TypedCommand
    <3>2. ~attached[commands[i].conn]
      BY <2>1 DEF CommandsSound
    <3> QED BY <1>a, <1>c, <3>1, <3>2
  <2> QED BY <1>1, <1>f, <2>1 DEF CommandsSound
<1>5. ConnsSound'
  BY <1>1, <1>a, <1>c DEF ConnsSound
<1>6. AppSound'
  <2>1. CASE at' = "send"
    <3>1. 0 <= txSpace[c] /\ sent'[c] + 0 <= MaxData
      BY <1>a, <1>c, <1>n, <2>1, Sizes
    <3> QED BY <1>0, <1>1, <1>a, <1>c, <2>1, <3>1 DEF AppSound
  <2>2. CASE at' = "sub"
    <3>1. sent'[c] + want <= MaxData + 1
      BY <1>a, <1>c, <1>n, <2>2, Sizes
    <3> QED BY <1>0, <1>1, <1>a, <1>c, <2>2, <3>1 DEF AppSound
  <2> QED BY <1>q, <2>1, <2>2
<1>7. BoundsSound'
  <2>1. Waiting(c)' < TxRingSize
    <3>1. CASE at' = "send"
      BY <1>w, <3>1 DEF BoundsSound
    <3>2. CASE at' = "sub"
      BY <1>c, <1>k, <1>n, <3>2, Sizes
    <3> QED BY <1>q, <3>1, <3>2
  <2> QED BY <1>1, <1>f, <1>w, <2>1 DEF BoundsSound, Fill
<1>8. TxSpaceAccurate'
  <2>1. ASSUME NEW d \in Conns, d \notin Datagrams, attached[d]
        PROVE  txSpace[d] + Waiting(d)' + Queued(d)
                 = SndBuf + drift[d] + (IF cur = d /\ at' = "sub" THEN 1 ELSE 0)
    <3>0. drift[d] \in Int
      BY TypedConn
    <3>1. txSpace[d] + Waiting(d) + Queued(d) = SndBuf + drift[d]
      <4>1. ~(cur = d /\ at = "sub")
        BY <1>a
      <4> QED BY <2>1, <3>0, <4>1, SpaceAt, Sizes
    <3>2. CASE d # c \/ at' = "send"
      BY <1>0, <1>w, <3>0, <3>1, <3>2, Sizes
    <3>3. CASE d = c /\ at' = "sub"
      <4>1. PICK x \in Nat, w \in Nat, q \in Nat :
              x = txSpace[c] /\ w = Waiting(c) /\ q = Queued(c)
        BY <1>n
      <4>2. x + w + q = SndBuf + drift[d]
        BY <3>1, <3>3, <4>1
      <4>3. x + (w + 1) + q = SndBuf + drift[d] + 1
        BY <3>0, <4>2, Sizes
      <4> QED BY <1>0, <1>k, <3>3, <4>1, <4>3
    <3> QED BY <1>q, <3>2, <3>3
  <2> QED BY <1>1, <1>f, <1>w, <2>1, SpaceNext
<1>9. StreamParts'
  <2>1. /\ ExactParts(c) => ExactParts(c)'
        /\ LooseParts(c) => LooseParts(c)'
    <3>1. CASE at' = "send"
      BY <1>1, <1>c, <1>w, <3>1 DEF ExactParts, LooseParts, ClosedParts
    <3>2. CASE at' = "sub"
      <4>1. sendQueue[c] \in Seq(Numbers) /\ acked[c] \in Seq(Numbers)
        BY TypedConn
      <4>2. Ints(acked[c], Acks(c)) /\ Ints(sendQueue[c], Queued(c))
        BY <4>1, Elements DEF Acks, Queued
      <4>3. sent'[c] \in Nat /\ sent'[c] = sent[c] + 1 /\ Waiting(c)' \in Nat
        BY <1>c, <1>d, <1>n, <3>2
      <4>4. Longer(txRing[c], Waiting(c), sent'[c], txRing'[c], Waiting(c)')
        BY <1>d, <3>2
      <4>5. /\ Exact(acked[c], Acks(c), sendQueue[c], Queued(c), txRing[c], Waiting(c), sent[c])
               => Exact(acked[c], Acks(c), sendQueue[c], Queued(c), txRing'[c], Waiting(c)',
                        sent'[c])
            /\ Loose(acked[c], Acks(c), sendQueue[c], Queued(c), txRing[c], Waiting(c), sent[c])
               => Loose(acked[c], Acks(c), sendQueue[c], Queued(c), txRing'[c], Waiting(c)',
                        sent'[c])
        BY <1>n, <4>2, <4>3, <4>4, SendParts
      <4> QED BY <1>1, <1>w, <4>5 DEF ExactParts, LooseParts, ClosedParts
    <3> QED BY <1>q, <3>1, <3>2
  <2>2. \A d \in Conns : d # c => /\ ExactParts(d) => ExactParts(d)'
                                  /\ LooseParts(d) => LooseParts(d)'
                                  /\ ClosedParts(d) => ClosedParts(d)'
    BY <1>1, <1>c, <1>w DEF ExactParts, LooseParts, ClosedParts
  <2> QED BY <1>1, <1>a, <1>f, <2>1, <2>2 DEF StreamParts
<1> QED BY <1>2, <1>3, <1>4, <1>5, <1>6, <1>7, <1>8, <1>9

LEMMA StepSendSub ==
  ASSUME TxInv, SendSub
  PROVE  TxInv'
<1> USE DEF TxInv
<1>1. UNCHANGED <<txRing, writeReady, writeDone, commands, readyRing, kind, dry, drains,
                  sendQueue, acked, drift, finned, noSpace, writeQueue, parent, attached, starved, svc,
                  up, open, sent, ready, cur>>
  BY DEF SendSub, env, svcVars, tcp

<1>0. PICK c \in Conns : c = cur
  BY DEF AppSound, SendSub
<1>a. /\ at = "sub" /\ attached[c] /\ want \in Nat /\ want >= 1
      /\ want <= txSpace[c] /\ sent[c] + want <= MaxData + 1
  BY <1>0, TypedSvc DEF AppSound, SendSub
<1>n. /\ sent[c] \in Nat /\ txSpace[c] \in Nat
      /\ Queued(c) \in Nat /\ Waiting(c) \in Nat
  BY TypedConn
<1>t. TypeRings /\ TypeApp
  BY TypeGroups
<1>b. /\ txSpace' = [txSpace EXCEPT ![c] = txSpace[c] - 1] /\ want' = want - 1
      /\ at' = "send"
  BY <1>0 DEF SendSub
<1>c. /\ txSpace'[c] = txSpace[c] - 1
      /\ \A d \in Conns : d # c => txSpace'[d] = txSpace[d]
  BY <1>b, <1>t DEF TypeRings
<1>f. /\ Datagrams' = Datagrams
      /\ \A d \in Conns : Waiting(d)' = Waiting(d) /\ Queued(d)' = Queued(d)
  BY <1>1 DEF Datagrams, Waiting, Queued
<1>2. TypeOK'
  <2>0. TypeRings /\ TypeFlags /\ TypeLists /\ TypeSvc /\ TypeApp
    BY TypeGroups
  <2>1. TypeRings'
    <3>1. txSpace[c] - 1 \in Nat
      <4>1. txSpace[c] \in Nat
        BY <1>t DEF TypeRings
      <4> QED BY <1>a, <4>1, Sizes
    <3> QED BY <1>1, <1>b, <1>t, <3>1 DEF TypeRings
  <2>2. TypeFlags'
    BY <1>1, <2>0 DEF TypeFlags
  <2>3. TypeLists'
    BY <1>1, <2>0 DEF TypeLists
  <2>4. TypeSvc'
    BY <1>1, <2>0 DEF TypeSvc
  <2>5. TypeApp'
    <3>1. want - 1 \in 0 .. MaxData
      BY <1>a, <1>t, Sizes DEF TypeApp
    <3> QED BY <1>1, <1>b, <1>t, <3>1 DEF TypeApp
  <2> QED BY <2>1, <2>2, <2>3, <2>4, <2>5, TypeNext
<1>3. SvcSound'
  BY <1>1 DEF SvcSound, Datagrams, Waiting
<1>4. CommandsSound'
  BY <1>1 DEF CommandsSound, Datagrams
<1>5. ConnsSound'
  BY <1>1 DEF ConnsSound
<1>6. AppSound'
  <2>1. want - 1 <= txSpace[c] - 1 /\ sent[c] + (want - 1) <= MaxData
    BY <1>a, <1>n, Sizes
  <2> QED BY <1>0, <1>1, <1>a, <1>b, <1>c, <2>1 DEF AppSound
<1>7. BoundsSound'
  <2>1. \A d \in Conns : txSpace[d] <= SndBuf => txSpace'[d] <= SndBuf
    BY <1>c, <1>n, Sizes
  <2> QED BY <1>f, <2>1 DEF BoundsSound, Fill
<1>8. TxSpaceAccurate'
  <2>1. ASSUME NEW d \in Conns, d \notin Datagrams, attached[d]
        PROVE  txSpace'[d] + Waiting(d) + Queued(d) = SndBuf + drift[d] + 0
    <3>0. drift[d] \in Int
      BY TypedConn
    <3>1. CASE d # c
      BY <1>0, <1>c, <2>1, <3>0, <3>1, SpaceAt, Sizes
    <3>2. CASE d = c
      <4>1. PICK x \in Nat, w \in Nat, q \in Nat :
              x = txSpace[c] /\ w = Waiting(c) /\ q = Queued(c)
        BY <1>n
      <4>2. x + w + q = SndBuf + drift[d] + 1
        BY <1>0, <1>a, <2>1, <3>2, <4>1, SpaceAt
      <4>3. (x - 1) + w + q = SndBuf + drift[d] + 0
        BY <3>0, <4>2, Sizes
      <4> QED BY <1>c, <3>2, <4>1, <4>3
    <3> QED BY <3>1, <3>2
  <2>2. ~(at' = "sub")
    BY <1>b
  <2> QED BY <1>1, <1>f, <2>1, <2>2, SpaceNext, Sizes
<1>9. StreamParts'
  BY <1>1 DEF StreamParts, ExactParts, LooseParts, ClosedParts, Datagrams, Acks, Queued, Waiting
<1> QED BY <1>2, <1>3, <1>4, <1>5, <1>6, <1>7, <1>8, <1>9

LEMMA StepKick ==
  ASSUME TxInv, Kick
  PROVE  TxInv'
<1> USE DEF TxInv
<1>1. UNCHANGED <<txRing, txSpace, writeReady, commands, readyRing, kind, dry, drains,
                  sendQueue, acked, drift, finned, noSpace, writeQueue, parent, attached, starved, svc,
                  up, open, sent, want>>
  BY DEF Kick, env, svcVars, tcp
<1>2. TypeOK'
  <2>0. TypeRings /\ TypeFlags /\ TypeLists /\ TypeSvc /\ TypeApp
    BY TypeGroups
  <2>1. TypeRings'
    BY <1>1, <2>0 DEF TypeRings
  <2>2. TypeFlags'
    BY <1>1, <2>0 DEF TypeFlags, Kick, Served
  <2>3. TypeLists'
    BY <1>1, <2>0 DEF TypeLists
  <2>4. TypeSvc'
    BY <1>1, <2>0 DEF TypeSvc
  <2>5. TypeApp'
    BY <1>1, <2>0 DEF TypeApp, Kick, Served
  <2> QED BY <2>1, <2>2, <2>3, <2>4, <2>5, TypeNext
<1>3. SvcSound'
  BY <1>1 DEF SvcSound, Datagrams, Waiting
<1>4. CommandsSound'
  BY <1>1 DEF CommandsSound, Datagrams
<1>5. ConnsSound'
  BY <1>1 DEF TypeOK, ConnsSound, Kick, Served
<1>6. AppSound'
  BY <1>1 DEF TypeOK, AppSound, Kick, Served
<1>7. BoundsSound'
  BY <1>1 DEF BoundsSound, Datagrams, Fill, Waiting, Queued
<1>8. TxSpaceAccurate'
  BY <1>1 DEF TypeOK, TxSpaceAccurate, Datagrams, Kick, Served
<1>9. StreamParts'
  BY <1>1 DEF StreamParts, ExactParts, LooseParts, ClosedParts, Datagrams, Acks, Queued, Waiting
<1> QED BY <1>2, <1>3, <1>4, <1>5, <1>6, <1>7, <1>8, <1>9

LEMMA StepKickCommand ==
  ASSUME TxInv, KickCommand
  PROVE  TxInv'
<1> USE DEF TxInv
<1>1. UNCHANGED <<txRing, txSpace, writeReady, writeDone, readyRing, kind, dry, drains,
                  sendQueue, acked, drift, finned, noSpace, writeQueue, parent, attached, starved, svc,
                  up, open, sent, want>>
  BY DEF KickCommand, env, svcVars, tcp

<1>a. CommandsSound' /\ commands' \in Seq(CommandRecs)
  <2>1. cur \in Conns /\ cur \in open
    BY DEF AppSound, KickCommand
  <2>2. CASE commands' = Append(commands, [op |-> "TX_KICK", conn |-> cur])
    BY <1>1, <2>1, <2>2, QueueSound
  <2>3. CASE UNCHANGED commands
    <3>1. commands \in Seq(CommandRecs)
      BY TypeGroups DEF TypeLists
    <3> QED BY <1>1, <2>3, <3>1 DEF CommandsSound, Datagrams
  <2> QED BY <2>2, <2>3 DEF KickCommand, Queue
<1>2. TypeOK'
  <2>0. TypeRings /\ TypeFlags /\ TypeLists /\ TypeSvc /\ TypeApp
    BY TypeGroups
  <2>1. TypeRings'
    BY <1>1, <2>0 DEF TypeRings
  <2>2. TypeFlags'
    BY <1>1, <2>0 DEF TypeFlags
  <2>3. TypeLists'
    BY <1>1, <1>a, <2>0 DEF TypeLists
  <2>4. TypeSvc'
    BY <1>1, <2>0 DEF TypeSvc
  <2>5. TypeApp'
    BY <1>1, <2>0 DEF TypeApp, KickCommand, Queue, Served
  <2> QED BY <2>1, <2>2, <2>3, <2>4, <2>5, TypeNext
<1>3. SvcSound'
  BY <1>1 DEF SvcSound, Datagrams, Waiting
<1>4. CommandsSound'
  BY <1>a
<1>5. ConnsSound'
  BY <1>1 DEF TypeOK, ConnsSound, KickCommand, Queue, Served
<1>6. AppSound'
  BY <1>1 DEF TypeOK, AppSound, KickCommand, Queue, Served
<1>7. BoundsSound'
  BY <1>1 DEF BoundsSound, Datagrams, Fill, Waiting, Queued
<1>8. TxSpaceAccurate'
  BY <1>1 DEF TypeOK, TxSpaceAccurate, Datagrams, KickCommand, Queue, Served
<1>9. StreamParts'
  BY <1>1 DEF StreamParts, ExactParts, LooseParts, ClosedParts, Datagrams, Acks, Queued, Waiting
<1> QED BY <1>2, <1>3, <1>4, <1>5, <1>6, <1>7, <1>8, <1>9

LEMMA StepClose ==
  ASSUME TxInv, NEW c \in Conns, Close(c)
  PROVE  TxInv'
<1> USE DEF TxInv
<1>1. UNCHANGED <<txRing, txSpace, writeReady, writeDone, readyRing, kind, dry, drains,
                  sendQueue, acked, drift, finned, noSpace, writeQueue, parent, attached, starved, svc,
                  up, sent, cur, want>>
  BY DEF Close, env, svcVars, tcp

<1>a. CommandsSound' /\ commands' \in Seq(CommandRecs)
  <2>1. /\ c \in open /\ open' \subseteq open /\ c \notin open'
        /\ commands' = Append(commands, [op |-> "CLOSE", conn |-> c])
    BY DEF Close, Queue
  <2> QED BY <1>1, <2>1, QueueSound
<1>2. TypeOK'
  <2>0. TypeRings /\ TypeFlags /\ TypeLists /\ TypeSvc /\ TypeApp
    BY TypeGroups
  <2>1. TypeRings'
    BY <1>1, <2>0 DEF TypeRings
  <2>2. TypeFlags'
    BY <1>1, <2>0 DEF TypeFlags
  <2>3. TypeLists'
    BY <1>1, <1>a, <2>0 DEF TypeLists
  <2>4. TypeSvc'
    BY <1>1, <2>0 DEF TypeSvc
  <2>5. TypeApp'
    BY <1>1, <2>0 DEF TypeApp, Close, Queue
  <2> QED BY <2>1, <2>2, <2>3, <2>4, <2>5, TypeNext
<1>3. SvcSound'
  BY <1>1 DEF SvcSound, Datagrams, Waiting
<1>4. CommandsSound'
  BY <1>a
<1>5. ConnsSound'
  BY <1>1 DEF TypeOK, ConnsSound, Close, Queue
<1>6. AppSound'
  BY <1>1 DEF TypeOK, AppSound, Close, Queue
<1>7. BoundsSound'
  BY <1>1 DEF BoundsSound, Datagrams, Fill, Waiting, Queued
<1>8. TxSpaceAccurate'
  BY <1>1 DEF TypeOK, TxSpaceAccurate, Datagrams, Close, Queue
<1>9. StreamParts'
  BY <1>1 DEF StreamParts, ExactParts, LooseParts, ClosedParts, Datagrams, Acks, Queued, Waiting
<1> QED BY <1>2, <1>3, <1>4, <1>5, <1>6, <1>7, <1>8, <1>9
---------------------------------------------------------------------------
(* The invariant.                                                          *)

LEMMA ExecCases ==
  ASSUME TypeOK, ExecCommand
  PROVE  \E c \in Conns : \/ ExecSetRing(c) \/ ExecSelect(c) \/ ExecTxKick(c)
                          \/ ExecPoolEmpty(c) \/ ExecClose(c)
<1>1. /\ up /\ svc = Idle /\ commands # <<>> /\ commands' = Tail(commands)
      /\ UNCHANGED <<writeReady, writeDone, readyRing, env, acked, drift, finned, noSpace, up, appVars>>
  BY DEF ExecCommand, tcp
<1>2. 1 \in DOMAIN commands /\ Head(commands) = commands[1]
  BY <1>1, CommandsTaken
<1>3. PICK c \in Conns : c = Head(commands).conn
  BY <1>2, TypedCommand
<1>4. Head(commands).op \in Ops
  BY <1>2, TypedCommand
<1>5. CASE Head(commands).op = "SET_RING"
  <2>1. ExecSetRing(c)
    BY <1>1, <1>3, <1>5 DEF ExecCommand, ExecSetRing, Executes
  <2> QED BY <2>1
<1>6. CASE Head(commands).op = "SELECT"
  <2>1. ExecSelect(c)
    BY <1>1, <1>3, <1>6 DEF ExecCommand, ExecSelect, Executes
  <2> QED BY <2>1
<1>7. CASE Head(commands).op = "TX_KICK"
  <2>1. ExecTxKick(c)
    BY <1>1, <1>3, <1>7 DEF ExecCommand, ExecTxKick, Executes
  <2> QED BY <2>1
<1>8. CASE Head(commands).op = "POOL_EMPTY"
  <2>1. ExecPoolEmpty(c)
    BY <1>1, <1>3, <1>8 DEF ExecCommand, ExecPoolEmpty, Executes
  <2> QED BY <2>1
<1>9. CASE Head(commands).op = "CLOSE"
  <2>1. ExecClose(c)
    BY <1>1, <1>3, <1>9 DEF ExecCommand, ExecClose, Executes
  <2> QED BY <2>1
<1> QED BY <1>4, <1>5, <1>6, <1>7, <1>8, <1>9 DEF Ops

LEMMA StepExecCommand ==
  ASSUME TxInv, ExecCommand
  PROVE  TxInv'
<1>1. PICK c \in Conns : \/ ExecSetRing(c) \/ ExecSelect(c) \/ ExecTxKick(c)
                         \/ ExecPoolEmpty(c) \/ ExecClose(c)
  BY ExecCases DEF TxInv
<1> QED BY <1>1, StepExecSetRing, StepExecSelect, StepExecTxKick, StepExecPoolEmpty,
           StepExecClose

LEMMA StepStutter ==
  ASSUME TxInv, UNCHANGED vars
  PROVE  TxInv'
<1> USE DEF TxInv, vars, shared, env, tcp, svcVars, appVars
<1>0. Datagrams' = Datagrams
  BY DEF Datagrams
<1>1. TypeOK'
  <2>0. TypeRings /\ TypeFlags /\ TypeLists /\ TypeSvc /\ TypeApp
    BY TypeGroups
  <2>1. TypeRings' /\ TypeFlags'
    BY <2>0 DEF TypeRings, TypeFlags
  <2>2. TypeLists' /\ TypeSvc' /\ TypeApp'
    BY <2>0 DEF TypeLists, TypeSvc, TypeApp
  <2> QED BY <2>1, <2>2, TypeNext
<1>2. SvcSound'
  BY <1>0 DEF SvcSound, Waiting
<1>3. CommandsSound'
  BY <1>0 DEF CommandsSound
<1>4. ConnsSound' /\ AppSound'
  BY DEF ConnsSound, AppSound
<1>5. BoundsSound'
  BY <1>0 DEF BoundsSound, Waiting, Queued, Fill
<1>6. TxSpaceAccurate'
  BY <1>0 DEF TxSpaceAccurate
<1>7. StreamParts'
  BY <1>0 DEF StreamParts, ExactParts, LooseParts, ClosedParts, Waiting, Queued, Acks
<1> QED BY <1>1, <1>2, <1>3, <1>4, <1>5, <1>6, <1>7

LEMMA TxStep == TxInv /\ [Next]_vars => TxInv'
<1> SUFFICES ASSUME TxInv, [Next]_vars PROVE TxInv'
  OBVIOUS
<1>1. CASE ExecCommand
  BY <1>1, StepExecCommand
<1>2. CASE InCallback
  BY <1>2, StepClearWriteDone, StepCountTxBufs, StepSendPage, StepDequeueTxBuf,
     StepPageDone, StepSendBurst, StepMarkWritable, StepPostWritable, StepServeStarved
     DEF InCallback
<1>3. CASE MainLoop
  BY <1>3, StepMainLoop
<1>4. CASE App
  BY <1>4, StepSelect, StepGetTxSpace, StepClearWriteReady, StepNotifyEmpty,
     StepGetBufferFails, StepSendBegins, StepSendEnqueue, StepSendSub, StepKick,
     StepKickCommand DEF App
<1>5. CASE PoolRunsDry \/ PoolRefilled
  BY <1>5, StepPoolRunsDry, StepPoolRefilled
<1>6. ASSUME NEW c \in Conns, ProcessTxReady(c) \/ Ack(c) \/ PeerFin(c) \/ Close(c)
      PROVE  TxInv'
  BY <1>6, StepProcessTxReady, StepAck, StepPeerFin, StepClose
<1>7. CASE UNCHANGED vars
  BY <1>7, StepStutter
<1> QED BY <1>1, <1>2, <1>3, <1>4, <1>5, <1>6, <1>7 DEF Next

LEMMA CommandsInit ==
  ASSUME Init
  PROVE  commands \in Seq(CommandRecs) /\ CommandsSound
<1>1. PICK order \in [1 .. Cardinality(Accepted) -> Accepted] :
        /\ {order[i] : i \in DOMAIN order} = Accepted
        /\ commands = [i \in 1 .. 2 * Len(order) |->
                         [op |-> IF i % 2 = 1 THEN "SET_RING" ELSE "SELECT",
                          conn |-> order[(i + 1) \div 2]]]
  BY DEF Init
<1>2. PICK n \in Nat : n = Cardinality(Accepted) /\ IsFiniteSet(Accepted)
  <2>1. IsFiniteSet(Accepted) /\ Accepted \subseteq Conns
    BY TxPathAssumption, FS_Subset DEF Accepted
  <2> QED BY <2>1, FS_CardinalityType
<1>3. order \in Seq(Accepted) /\ Len(order) = n /\ DOMAIN order = 1 .. n
  <2>1. order \in [1 .. n -> Accepted]
    BY <1>2
  <2> QED BY <2>1
<1>4. ASSUME NEW i \in 1 .. n, NEW j \in 1 .. n, order[i] = order[j] PROVE i = j
  <2>1. IsFiniteSet(1 .. n) /\ Cardinality(1 .. n) = n
    BY FS_Interval
  <2>2. order \in Surjection(1 .. n, Accepted)
    BY <1>1, <1>2, <1>3 DEF Surjection
  <2>3. order \in Injection(1 .. n, Accepted)
    BY <1>2, <2>1, <2>2, FS_Surjection
  <2> QED BY <1>4, <2>3 DEF Injection, IsInjective
<1> DEFINE h(i) == (i + 1) \div 2
<1>5. ASSUME NEW i \in 1 .. 2 * n
      PROVE  /\ h(i) \in 1 .. n /\ (i % 2 = 1 => i = 2 * h(i) - 1)
             /\ i % 2 # 1 => i = 2 * h(i)
  OBVIOUS
<1> HIDE DEF h
<1>6. /\ DOMAIN commands = 1 .. 2 * n
      /\ \A i \in 1 .. 2 * n : /\ commands[i].op = IF i % 2 = 1 THEN "SET_RING" ELSE "SELECT"
                               /\ commands[i].conn = order[h(i)] /\ commands[i] \in CommandRecs
  <2>1. commands = [i \in 1 .. 2 * n |->
                      [op |-> IF i % 2 = 1 THEN "SET_RING" ELSE "SELECT", conn |-> order[h(i)]]]
    BY <1>1, <1>3 DEF h
  <2>2. \A i \in 1 .. 2 * n : order[h(i)] \in Conns
    BY <1>1, <1>2, <1>5 DEF Accepted
  <2> QED BY <2>1, <2>2 DEF CommandRecs
<1>7. commands \in Seq(CommandRecs)
  <2>1. 2 * n \in Nat
    OBVIOUS
  <2>2. PICK m \in Nat : m = 2 * n
    BY <2>1
  <2>3. commands = [i \in 1 .. m |-> commands[i]] /\ \A i \in 1 .. m : commands[i] \in CommandRecs
    BY <1>1, <1>3, <1>6, <2>2
  <2>4. commands \in [1 .. m -> CommandRecs]
    BY <2>3
  <2> QED BY <2>4
<1>8. ASSUME NEW i \in 1 .. 2 * n, i % 2 = 1, NEW j \in 1 .. 2 * n,
             commands[j].conn = commands[i].conn
      PROVE  j >= i
  <2>1. h(i) = h(j)
    BY <1>4, <1>5, <1>6, <1>8
  <2>2. PICK m \in 1 .. n : m = h(i)
    BY <1>5
  <2>3. i = 2 * m - 1 /\ (j = 2 * m - 1 \/ j = 2 * m)
    BY <1>5, <1>8, <2>1, <2>2
  <2> QED BY <2>3
<1>9. ASSUME NEW i \in DOMAIN commands, commands[i].op = "SET_RING"
      PROVE  /\ ~attached[commands[i].conn] /\ sent[commands[i].conn] = 0
             /\ acked[commands[i].conn] = <<>> /\ sendQueue[commands[i].conn] = <<>>
             /\ drift[commands[i].conn] = 0 /\ commands[i].conn \notin Datagrams
             /\ \A j \in DOMAIN commands : commands[j].conn = commands[i].conn => j >= i
  <2>1. i \in 1 .. 2 * n /\ i % 2 = 1
    BY <1>6, <1>9
  <2>2. commands[i].conn \in Accepted /\ commands[i].conn \in Conns
    BY <1>3, <1>5, <1>6, <2>1 DEF Accepted
  <2>3. /\ ~attached[commands[i].conn] /\ sent[commands[i].conn] = 0
        /\ acked[commands[i].conn] = <<>> /\ sendQueue[commands[i].conn] = <<>>
        /\ drift[commands[i].conn] = 0
    BY <2>2 DEF Init
  <2>4. commands[i].conn \notin Datagrams
    BY <2>2 DEF Accepted, Datagrams
  <2> QED BY <1>6, <1>8, <2>1, <2>3, <2>4
<1>10. ASSUME NEW i \in DOMAIN commands, commands[i].op = "SELECT"
       PROVE  \E j \in DOMAIN commands : /\ j < i /\ commands[j].op = "SET_RING"
                                         /\ commands[j].conn = commands[i].conn
  <2>1. i \in 1 .. 2 * n /\ i % 2 # 1
    BY <1>6, <1>10
  <2>2. PICK j \in 1 .. 2 * n : j = i - 1
    BY <2>1
  <2>3. j % 2 = 1 /\ h(j) = h(i)
    BY <2>1, <2>2 DEF h
  <2> QED BY <1>6, <2>1, <2>2, <2>3
<1>11. \A i \in DOMAIN commands : commands[i].op # "CLOSE"
  BY <1>6
<1> QED BY <1>7, <1>9, <1>10, <1>11 DEF CommandsSound

LEMMA TxInit == Init => TxInv
<1> SUFFICES ASSUME Init PROVE TxInv
  OBVIOUS
<1>0. commands \in Seq(CommandRecs) /\ CommandsSound
  BY CommandsInit
<1>1. TypeOK
  <2>0. <<>> \in Seq(Numbers) /\ <<>> \in Seq(Conns) /\ 0 \in Nat
        /\ SndBuf \in Nat /\ 0 \in 0 .. MaxDrains /\ 0 \in 0 .. MaxData
    BY Sizes
  <2>1. TypeRings
    BY <2>0 DEF Init, TypeRings
  <2>2. TypeFlags
    BY DEF Init, TypeFlags
  <2>3. TypeLists
    BY <1>0, <2>0 DEF Init, TypeLists
  <2>4. TypeSvc
    BY <2>0, SvcValues DEF Init, TypeSvc
  <2>5. TypeApp
    BY <2>0 DEF Init, TypeApp
  <2> QED BY <2>1, <2>2, <2>3, <2>4, <2>5, TypeMade
<1>2. SvcSound
  <2>1. svc.step = "idle"
    BY SvcValues DEF Init
  <2> QED BY <2>1 DEF SvcSound, Serving
<1>3. ConnsSound
  <2>1. /\ txRing = [c \in Conns |-> <<>>] /\ sendQueue = [c \in Conns |-> <<>>]
        /\ parent = [c \in Conns |-> c \notin Accepted] /\ attached = parent
        /\ writeQueue = Conns \ Accepted /\ readyRing = <<>> /\ ready = {}
    BY DEF Init
  <2>2. DOMAIN readyRing = {}
    BY <2>1
  <2> QED BY <2>1, <2>2 DEF ConnsSound
<1>4. AppSound
  BY DEF Init, AppSound
<1>5. \A c \in Conns : Waiting(c) = 0 /\ Queued(c) = 0 /\ Acks(c) = 0
  BY DEF Init, Waiting, Queued, Acks
<1>6. BoundsSound
  <2>1. \A c \in Conns : Fill(c) >= 0 /\ 0 < TxRingSize
    BY Sizes DEF Fill
  <2>2. \A c \in Conns : txSpace[c] <= SndBuf
    BY Sizes DEF Init
  <2> QED BY <1>5, <2>1, <2>2 DEF BoundsSound
<1>7. TxSpaceAccurate
  <2>1. ASSUME NEW c \in Conns, attached[c]
        PROVE  txSpace[c] + Waiting(c) + Queued(c) = SndBuf + drift[c] + 0
    <3>1. txSpace[c] = SndBuf /\ drift[c] = 0
      BY <2>1 DEF Init
    <3> QED BY <1>5, <3>1, Sizes
  <2>2. at # "sub"
    BY DEF Init
  <2> QED BY <2>1, <2>2, SpaceFrom
<1>8. StreamParts
  <2>1. ASSUME NEW c \in Conns PROVE ExactParts(c) /\ LooseParts(c) /\ ClosedParts(c)
    <3>1. /\ Exact(acked[c], 0, sendQueue[c], 0, txRing[c], 0, 0)
          /\ Loose(acked[c], 0, sendQueue[c], 0, txRing[c], 0, 0)
      BY DEF Exact, Loose
    <3>2. sent[c] = 0
      BY DEF Init
    <3> QED BY <1>5, <3>1, <3>2 DEF ExactParts, LooseParts, ClosedParts
  <2> QED BY <2>1 DEF StreamParts
<1> QED BY <1>0, <1>1, <1>2, <1>3, <1>4, <1>6, <1>7, <1>8 DEF TxInv

\* The inductive invariant.
THEOREM TxInvariant == Spec => []TxInv
  BY TxInit, TxStep, PTL DEF Spec

\* TypeOK holds in every reachable state, whatever the sizes: tx_space does not become
\* negative, however much or little of it the stack returns, and no sequence holds
\* what was not sent.
THEOREM TxTypeCorrect == Spec => []TypeOK
<1>1. TxInv => TypeOK
  BY DEF TxInv
<1> QED BY <1>1, TxInvariant, PTL

\* tx_space, which ipaugenblick_send reduces and user_transmitted_callback
\* increases on another core, is what the send buffer has left but for the space the
\* stack returned of split or trimmed buffers, for any send buffer, ring sizes, number
\* of connections and schedule: the two sides add nothing to that drift.
THEOREM OnlyTheStackDriftsTxSpace == Spec => []TxSpaceAccurate
<1>1. TxInv => TxSpaceAccurate
  BY DEF TxInv
<1> QED BY <1>1, TxInvariant, PTL

---------------------------------------------------------------------------
(* The stream.                                                             *)

\* o is s, of length l, followed by t, of length m.
Joins(s, l, t, m, o) ==
  \A i \in 1 .. l + m : o[i] = IF i <= l THEN s[i] ELSE t[i - l]

LEMMA Joined ==
  ASSUME NEW s \in Seq(Numbers), NEW t \in Seq(Numbers)
  PROVE  /\ s \o t \in Seq(Numbers) /\ Len(s \o t) = Len(s) + Len(t)
         /\ Joins(s, Len(s), t, Len(t), s \o t)
  BY ConcatProperties DEF Joins

LEMMA Indexed ==
  ASSUME NEW s \in Seq(Numbers), NEW l \in Nat, l = Len(s)
  PROVE  DOMAIN s = 1 .. l /\ s \in [1 .. l -> Numbers]
  BY LenProperties

\* Named lengths and plain functions: what Exact and Loose say of the whole.
LEMMA ExactWhole ==
  ASSUME NEW a, NEW q, NEW r, NEW o, NEW la \in Nat, NEW lq \in Nat, NEW lr \in Nat,
         NEW lo \in Nat, lo = la + lq,
         NEW n \in Nat, Exact(a, la, q, lq, r, lr, n), Joins(a, la, q, lq, o)
  PROVE  \A i \in 1 .. lo : o[i] = i
<1>1. ASSUME NEW i \in 1 .. lo PROVE o[i] = i
  <2>1. CASE i <= la
    BY <2>1 DEF Exact, Joins
  <2>2. CASE ~(i <= la)
    <3>1. PICK k \in 1 .. lq : k = i - la
      BY <2>2
    <3>2. q[k] = la + k
      BY DEF Exact
    <3> QED BY <2>2, <3>1, <3>2 DEF Joins
  <2> QED BY <2>1, <2>2
<1> QED BY <1>1

LEMMA LooseWhole ==
  ASSUME NEW a, NEW q, NEW r, NEW o, NEW all, NEW la \in Nat, NEW lq \in Nat, NEW lr \in Nat,
         NEW lo \in Nat, lo = la + lq,
         NEW n \in Nat, Loose(a, la, q, lq, r, lr, n), Ints(a, la), Ints(q, lq),
         Joins(a, la, q, lq, o), Joins(o, lo, r, lr, all)
  PROVE  \A i, j \in 1 .. lo + lr : i < j => all[i] < all[j]
<1> USE DEF Joins
<1>1. ASSUME NEW i \in 1 .. lo + lr
      PROVE  \/ i \in 1 .. la /\ all[i] = a[i]
             \/ \E k \in 1 .. lq : i = la + k /\ all[i] = q[k]
             \/ \E k \in 1 .. lr : i = la + lq + k /\ all[i] = n - lr + k
  <2>1. CASE i <= la
    BY <2>1
  <2>2. CASE ~(i <= la) /\ i <= la + lq
    <3>1. PICK k \in 1 .. lq : k = i - la
      BY <2>2
    <3> QED BY <2>2, <3>1
  <2>3. CASE ~(i <= la + lq)
    <3>1. PICK k \in 1 .. lr : k = i - (la + lq)
      BY <2>3
    <3>2. r[k] = n - lr + k
      BY DEF Loose
    <3> QED BY <2>3, <3>1, <3>2
  <2> QED BY <2>1, <2>2, <2>3
<1>2. ASSUME NEW i \in 1 .. lo + lr, NEW j \in 1 .. lo + lr, i < j
      PROVE  all[i] < all[j]
  <2>1. CASE i \in 1 .. la /\ all[i] = a[i]
    <3>1. CASE j \in 1 .. la /\ all[j] = a[j]
      BY <1>2, <2>1, <3>1 DEF Loose
    <3>2. ASSUME NEW k \in 1 .. lq, all[j] = q[k] PROVE all[i] < all[j]
      BY <2>1, <3>2 DEF Loose
    <3>3. ASSUME NEW k \in 1 .. lr, all[j] = n - lr + k PROVE all[i] < all[j]
      BY <2>1, <3>3 DEF Loose, Ints
    <3> QED BY <1>1, <3>1, <3>2, <3>3
  <2>2. ASSUME NEW l \in 1 .. lq, i = la + l, all[i] = q[l] PROVE all[i] < all[j]
    <3>1. ~(j \in 1 .. la)
      BY <1>2, <2>2
    <3>2. ASSUME NEW k \in 1 .. lq, j = la + k, all[j] = q[k] PROVE all[i] < all[j]
      <4>1. l < k
        BY <1>2, <2>2, <3>2
      <4> QED BY <2>2, <3>2, <4>1 DEF Loose
    <3>3. ASSUME NEW k \in 1 .. lr, all[j] = n - lr + k PROVE all[i] < all[j]
      BY <2>2, <3>3 DEF Loose, Ints
    <3> QED BY <1>1, <3>1, <3>2, <3>3
  <2>3. ASSUME NEW l \in 1 .. lr, i = la + lq + l, all[i] = n - lr + l PROVE all[i] < all[j]
    <3>1. ~(j <= la + lq)
      BY <1>2, <2>3
    <3>2. PICK k \in 1 .. lr : j = la + lq + k /\ all[j] = n - lr + k
      BY <1>1, <3>1
    <3>3. l < k
      BY <1>2, <2>3, <3>2
    <3> QED BY <2>3, <3>2, <3>3
  <2> QED BY <1>1, <2>1, <2>2, <2>3
<1> QED BY <1>2

\* What left tx_ring, and all of the stream that is left.
Out(c) == acked[c] \o sendQueue[c]
All(c) == Out(c) \o txRing[c]

LEMMA StreamWhole ==
  ASSUME TxInv, NEW c \in Conns, attached[c]
  PROVE  /\ txRing[c] = [i \in 1 .. Len(txRing[c]) |-> sent[c] - Len(txRing[c]) + i]
         /\ c \in Datagrams => \A i, j \in DOMAIN All(c) : i < j => All(c)[i] < All(c)[j]
         /\ c \notin Datagrams =>
              Out(c) = [i \in DOMAIN Out(c) |-> i] /\ Len(All(c)) = sent[c]
<1>1. PICK a \in Seq(Numbers), q \in Seq(Numbers), r \in Seq(Numbers), n \in Nat :
        a = acked[c] /\ q = sendQueue[c] /\ r = txRing[c] /\ n = sent[c]
  BY TypedConn DEF TxInv
<1>2. PICK la \in Nat, lq \in Nat, lr \in Nat : la = Len(a) /\ lq = Len(q) /\ lr = Len(r)
  BY LenProperties
<1>3. Acks(c) = la /\ Queued(c) = lq /\ Waiting(c) = lr
  BY <1>1, <1>2 DEF Acks, Queued, Waiting
<1>4. /\ c \notin Datagrams => Exact(a, la, q, lq, r, lr, n)
      /\ c \in Datagrams => Loose(a, la, q, lq, r, lr, n)
  BY <1>1, <1>3 DEF TxInv, StreamParts, ExactParts, LooseParts, ClosedParts
<1>5. Ints(a, la) /\ Ints(q, lq)
  BY <1>2, Elements
<1>6. PICK out \in Seq(Numbers) :
        out = Out(c) /\ Len(out) = la + lq /\ Joins(a, la, q, lq, out)
  <2>1. /\ a \o q \in Seq(Numbers) /\ Len(a \o q) = Len(a) + Len(q)
        /\ Joins(a, Len(a), q, Len(q), a \o q)
    BY Joined
  <2> QED BY <1>1, <1>2, <2>1 DEF Out
<1>7. PICK lo \in Nat : lo = la + lq /\ lo = Len(out)
  BY <1>6
<1>8. PICK all \in Seq(Numbers) :
        all = All(c) /\ Len(all) = lo + lr /\ Joins(out, lo, r, lr, all)
  <2>1. /\ out \o r \in Seq(Numbers) /\ Len(out \o r) = Len(out) + Len(r)
        /\ Joins(out, Len(out), r, Len(r), out \o r)
    BY Joined
  <2> QED BY <1>1, <1>2, <1>6, <1>7, <2>1 DEF All
<1>9. DOMAIN out = 1 .. lo /\ out \in [1 .. lo -> Numbers]
  BY <1>7, Indexed
<1>10. DOMAIN all = 1 .. lo + lr
  <2>1. PICK l \in Nat : l = lo + lr
    OBVIOUS
  <2> QED BY <1>8, <2>1, Indexed
<1>11. r = [i \in 1 .. lr |-> n - lr + i]
  <2>1. \A i \in 1 .. lr : r[i] = n - lr + i
    BY <1>4 DEF Exact, Loose
  <2>2. r \in [1 .. lr -> Numbers]
    BY <1>2, Indexed
  <2> QED BY <2>1, <2>2
<1>12. ASSUME c \in Datagrams PROVE \A i, j \in 1 .. lo + lr : i < j => all[i] < all[j]
  <2>1. Loose(a, la, q, lq, r, lr, n)
    BY <1>4, <1>12
  <2> QED BY <1>5, <1>6, <1>7, <1>8, <2>1, LooseWhole
<1>13. ASSUME c \notin Datagrams PROVE out = [i \in DOMAIN out |-> i] /\ Len(all) = n
  <2>1. Exact(a, la, q, lq, r, lr, n) /\ Joins(a, la, q, lq, out)
    BY <1>4, <1>6, <1>13
  <2>2. \A i \in 1 .. lo : out[i] = i
    BY <1>7, <2>1, ExactWhole
  <2>3. Len(all) = n
    BY <1>7, <1>8, <2>1 DEF Exact
  <2> QED BY <1>7, <1>9, <2>2, <2>3
<1>14. txRing[c] = [i \in 1 .. Len(txRing[c]) |-> sent[c] - Len(txRing[c]) + i]
  BY <1>1, <1>2, <1>11
<1>15. c \in Datagrams => \A i, j \in DOMAIN All(c) : i < j => All(c)[i] < All(c)[j]
  BY <1>8, <1>10, <1>12
<1>16. c \notin Datagrams => Out(c) = [i \in DOMAIN Out(c) |-> i] /\ Len(All(c)) = sent[c]
  BY <1>1, <1>6, <1>8, <1>13
<1> QED BY <1>14, <1>15, <1>16

\* What ipaugenblick_send accepted leaves in order, without loss or duplicates,
\* for any number of connections and buffers; datagrams may be lost, but neither
\* overtake each other nor come twice.
THEOREM TxStreamStaysIntact == Spec => []TxStreamIntact
<1>1. ASSUME TxInv PROVE TxStreamIntact
  <2>1. ASSUME NEW c \in Conns, attached[c]
        PROVE  /\ txRing[c] = [i \in 1 .. Len(txRing[c]) |-> sent[c] - Len(txRing[c]) + i]
               /\ IF c \in Datagrams
                  THEN \A i, j \in DOMAIN All(c) : i < j => All(c)[i] < All(c)[j]
                  ELSE Out(c) = [i \in DOMAIN Out(c) |-> i] /\ Len(All(c)) = sent[c]
    BY <1>1, <2>1, StreamWhole
  <2> QED BY <2>1, Zenon DEF TxStreamIntact, Out, All
<1> QED BY <1>1, TxInvariant, PTL

---------------------------------------------------------------------------
(* The refinement of Stream.                                               *)

LEMMA DeliveredAt ==
  ASSUME TypeOK, NEW c \in Conns
  PROVE  /\ Delivered[c] = [i \in 1 .. Acks(c) |-> <<1, acked[c][i]>>]
         /\ Len(Delivered[c]) = Acks(c)
         /\ \A i \in 1 .. Acks(c) :
              /\ Delivered[c][i] = <<1, acked[c][i]>> /\ Delivered[c][i][2] = acked[c][i]
              /\ acked[c][i] \in Nat
<1>1. PICK a \in Seq(Numbers) : a = acked[c]
  BY TypedConn
<1>2. PICK l \in Nat : l = Len(a) /\ l = Acks(c) /\ DOMAIN a = 1 .. l
  BY <1>1, LenProperties DEF Acks
<1>3. Delivered[c] = [i \in 1 .. l |-> <<1, a[i]>>]
  BY <1>1, <1>2 DEF Delivered
<1>4. \A i \in 1 .. l : a[i] \in Nat
  BY <1>2, Sizes, ElementOfSeq DEF Numbers
<1>5. Len([i \in 1 .. l |-> <<1, a[i]>>]) = l
  OBVIOUS
<1> QED BY <1>1, <1>2, <1>3, <1>4, <1>5

LEMMA DeliveredNext ==
  ASSUME NEW c \in Conns
  PROVE  (TypeOK =>
           /\ Len(Delivered[c]) = Acks(c)
           /\ \A i \in 1 .. Acks(c) :
                /\ Delivered[c][i] = <<1, acked[c][i]>> /\ Delivered[c][i][2] = acked[c][i]
                /\ acked[c][i] \in Nat)'
<1>1. TypeOK =>
        /\ Len(Delivered[c]) = Acks(c)
        /\ \A i \in 1 .. Acks(c) :
             /\ Delivered[c][i] = <<1, acked[c][i]>> /\ Delivered[c][i][2] = acked[c][i]
             /\ acked[c][i] \in Nat
  BY DeliveredAt
<1> QED BY <1>1, PTL

LEMMA CountsNext ==
  ASSUME NEW c \in Conns
  PROVE  (TypeOK => Acks(c) \in Nat /\ Queued(c) \in Nat /\ Waiting(c) \in Nat)'
<1>1. TypeOK => Acks(c) \in Nat /\ Queued(c) \in Nat /\ Waiting(c) \in Nat
  BY TypedConn
<1> QED BY <1>1, PTL

\* Only an acknowledgement delivers, and only a send gives.
LEMMA Stutters ==
  ASSUME UNCHANGED <<kind, sent, acked>>
  PROVE  UNCHANGED ST!svars
  BY DEF ST!svars, Datagrams, OneLife, Delivered

LEMMA AckDelivers ==
  ASSUME TxInv, NEW c \in Conns, Ack(c)
  PROVE  ST!SNext
<1>1. TxInv' /\ UNCHANGED <<kind, sent, attached>> /\ Datagrams' = Datagrams
      /\ OneLife' = OneLife
  BY StepAck DEF Ack, env, appVars, Datagrams, OneLife
<1>2. /\ acked' = [acked EXCEPT ![c] = Append(acked[c], Head(sendQueue[c]))]
      /\ sendQueue[c] # <<>>
  BY DEF Ack
<1>3. acked[c] \in Seq(Numbers) /\ sendQueue[c] \in Seq(Numbers) /\ sent[c] \in Nat
      /\ Acks(c) \in Nat
  BY TypedConn DEF TxInv
<1>4. acked \in [Conns -> Seq(Numbers)]
  BY TypeGroups DEF TxInv, TypeRings
<1>5. acked'[c] = Append(acked[c], Head(sendQueue[c])) /\ \A d \in Conns \ {c} : acked'[d] = acked[d]
  BY <1>2, <1>4
<1>6. /\ Acks(c)' = Acks(c) + 1
      /\ \A i \in 1 .. Acks(c) : acked'[c][i] = acked[c][i]
  <2>1. Head(sendQueue[c]) \in Numbers
    BY <1>2, <1>3, Taken
  <2> QED BY <1>3, <1>5, <2>1, Added DEF Acks, Longer
<1>7. /\ Acks(c)' <= sent[c]
      /\ \A i \in 1 .. Acks(c)' : 1 <= acked'[c][i] /\ acked'[c][i] <= sent[c]
      /\ c \notin Datagrams => \A i \in 1 .. Acks(c)' : acked'[c][i] = i
      /\ c \in Datagrams =>
           \A i, j \in 1 .. Acks(c)' : i < j => acked'[c][i] < acked'[c][j]
  <2> DEFINE a == acked'[c]
             q == sendQueue'[c]
             r == txRing'[c]
  <2>1. PICK la \in Nat, lq \in Nat, lr \in Nat :
          la = Acks(c)' /\ lq = Queued(c)' /\ lr = Waiting(c)'
    BY <1>1, CountsNext DEF TxInv
  <2>a. /\ c \notin Datagrams => Exact(a, la, q, lq, r, lr, la + lq + lr)
                                /\ la + lq + lr <= sent[c]
        /\ c \in Datagrams => Loose(a, la, q, lq, r, lr, sent[c])
    <3>1. /\ c \notin Datagrams => ExactParts(c)' \/ ClosedParts(c)'
          /\ c \in Datagrams => LooseParts(c)'
      BY <1>1 DEF TxInv, StreamParts
    <3>2. ASSUME Exact(a, la, q, lq, r, lr, sent[c])
          PROVE  Exact(a, la, q, lq, r, lr, la + lq + lr) /\ la + lq + lr <= sent[c]
      <4>1. la + lq + lr = sent[c]
        BY <3>2 DEF Exact
      <4> QED BY <1>3, <3>2, <4>1
    <3> QED BY <1>1, <2>1, <3>1, <3>2 DEF ExactParts, LooseParts, ClosedParts
  <2>2. \A i \in 1 .. la : a[i] \in Nat
    BY <1>1, <2>1, DeliveredNext DEF TxInv
  <2>3. ASSUME c \notin Datagrams
        PROVE  la <= sent[c] /\ \A i \in 1 .. la : a[i] = i
    BY <1>3, <2>a, <2>3 DEF Exact
  <2>4. ASSUME c \in Datagrams
        PROVE  /\ la <= sent[c] /\ \A i \in 1 .. la : i <= a[i] /\ a[i] <= sent[c]
               /\ \A i, j \in 1 .. la : i < j => a[i] < a[j]
    <3>1. /\ la + lq + lr <= sent[c]
          /\ \A i \in 1 .. la : i <= a[i] /\ a[i] <= sent[c] - lr
          /\ \A i, j \in 1 .. la : i < j => a[i] < a[j]
      BY <2>a, <2>4 DEF Loose
    <3>2. ASSUME NEW i \in 1 .. la PROVE a[i] <= sent[c]
      BY <1>3, <2>2, <3>1
    <3>3. la <= sent[c]
      BY <1>3, <3>1
    <3> QED BY <3>1, <3>2, <3>3
  <2>5. \A i \in 1 .. la : 1 <= a[i] /\ a[i] <= sent[c]
    BY <1>3, <2>2, <2>3, <2>4
  <2>6. la <= sent[c]
    BY <2>3, <2>4
  <2> QED BY <2>1, <2>3, <2>4, <2>5, <2>6
<1>8. PICK l \in Nat, m \in Nat : l = Acks(c) /\ m = Acks(c)' /\ m = l + 1 /\ m <= sent[c]
  BY <1>3, <1>6, <1>7
<1>9. /\ Len(Delivered[c]) = l
      /\ \A i \in 1 .. l : Delivered[c][i] = <<1, acked[c][i]>>
  BY <1>8, DeliveredAt DEF TxInv
<1>10. /\ Len(Delivered'[c]) = m
       /\ \A i \in 1 .. m : /\ Delivered'[c][i] = <<1, acked'[c][i]>>
                            /\ Delivered'[c][i][2] = acked'[c][i]
                            /\ acked'[c][i] \in Nat
  BY <1>1, <1>8, DeliveredNext DEF TxInv
<1>11. Len(Delivered'[c]) \in Len(Delivered[c]) + 1 .. sent[c]
  BY <1>3, <1>8, <1>9, <1>10
<1>12. \A i \in 1 .. Len(Delivered[c]) : Delivered'[c][i] = Delivered[c][i]
  <2>1. ASSUME NEW i \in 1 .. l PROVE Delivered'[c][i] = Delivered[c][i]
    <3>1. i \in 1 .. m
      BY <1>8
    <3> QED BY <1>6, <1>8, <1>9, <1>10, <3>1
  <2> QED BY <1>9, <2>1
<1>13. ASSUME NEW i \in 1 .. m
       PROVE  \E n \in 1 .. sent[c] :
                /\ Delivered'[c][i] = <<1, n>>
                /\ IF c \notin Datagrams THEN n = i
                   ELSE i > 1 => n > Delivered'[c][i - 1][2]
  <2>1. acked'[c][i] \in 1 .. sent[c]
    BY <1>3, <1>7, <1>8, <1>10
  <2>2. c \notin Datagrams => acked'[c][i] = i
    BY <1>7, <1>8
  <2>3. ASSUME c \in Datagrams, i > 1 PROVE acked'[c][i] > Delivered'[c][i - 1][2]
    <3>1. i - 1 \in 1 .. m /\ i - 1 < i
      BY <1>8, <2>3
    <3>2. acked'[c][i - 1] < acked'[c][i]
      BY <1>7, <1>8, <2>3, <3>1
    <3> QED BY <1>10, <3>1, <3>2
  <2> QED BY <1>10, <2>1, <2>2, <2>3
<1>14. OneLife[c] = 1
  BY DEF OneLife
<1>15. \A d \in Conns \ {c} : Delivered'[d] = Delivered[d]
  BY <1>5 DEF Delivered
<1>16. ST!Deliver(c)
  BY <1>1, <1>10, <1>11, <1>12, <1>13, <1>14, <1>15 DEF ST!Deliver, ST!Others, ST!Unit
<1> QED BY <1>1, <1>16 DEF ST!SNext

LEMMA SendGives ==
  ASSUME TxInv, SendEnqueue
  PROVE  ST!SNext \/ UNCHANGED ST!svars
<1>1. UNCHANGED <<kind, acked>> /\ cur \in Conns /\ sent \in [Conns -> 0 .. MaxData]
  BY TypeGroups DEF SendEnqueue, env, svcVars, TxInv, AppSound, TypeApp
<1>2. CASE UNCHANGED sent
  BY <1>1, <1>2, Stutters
<1>3. CASE sent' = [sent EXCEPT ![cur] = sent[cur] + 1]
  <2>1. /\ sent'[cur] > sent[cur] /\ \A d \in Conns \ {cur} : sent'[d] = sent[d]
    BY <1>1, <1>3
  <2>2. OneLife' = OneLife /\ Delivered' = Delivered /\ Datagrams' = Datagrams
    BY <1>1 DEF OneLife, Delivered, Datagrams
  <2>3. ST!Give(cur)
    BY <2>1, <2>2 DEF ST!Give, ST!Others
  <2> QED BY <1>1, <2>2, <2>3 DEF ST!SNext
<1> QED BY <1>2, <1>3 DEF SendEnqueue

LEMMA TxSimulates ==
  ASSUME TxInv, [Next]_vars
  PROVE  [ST!SNext]_(ST!svars)
<1>1. CASE ExecCommand
  BY <1>1, Stutters DEF ExecCommand, env, appVars
<1>2. CASE InCallback
  <2> USE DEF env, appVars
  <2>1. CASE ClearWriteDone \/ CountTxBufs \/ SendPage \/ DequeueTxBuf \/ PageDone
    BY <2>1, Stutters DEF ClearWriteDone, CountTxBufs, SendPage, DequeueTxBuf, PageDone
  <2>2. CASE SendBurst
    BY <2>2, Stutters DEF SendBurst
  <2>3. CASE MarkWritable \/ PostWritable
    BY <2>3, Stutters DEF MarkWritable, PostWritable
  <2>4. CASE ServeStarved
    BY <2>4, Stutters DEF ServeStarved
  <2> QED BY <1>2, <2>1, <2>2, <2>3, <2>4 DEF InCallback
<1>3. CASE MainLoop
  BY <1>3, Stutters DEF MainLoop, env, appVars
<1>4. CASE App
  <2> USE DEF env, svcVars
  <2>1. CASE SendEnqueue
    BY <2>1, SendGives
  <2>2. CASE Select
    BY <2>2, Stutters DEF Select
  <2>3. ASSUME NEW c \in Conns, GetTxSpace(c) PROVE UNCHANGED ST!svars
    BY <2>3, Stutters DEF GetTxSpace
  <2>4. CASE ClearWriteReady \/ NotifyEmpty \/ GetBufferFails \/ SendBegins
    BY <2>4, Stutters DEF ClearWriteReady, NotifyEmpty, GetBufferFails, SendBegins
  <2>5. CASE SendSub \/ Kick \/ KickCommand
    BY <2>5, Stutters DEF SendSub, Kick, KickCommand
  <2> QED BY <1>4, <2>1, <2>2, <2>3, <2>4, <2>5 DEF App
<1>5. CASE PoolRunsDry \/ PoolRefilled
  BY <1>5, Stutters DEF PoolRunsDry, PoolRefilled, svcVars, appVars
<1>6. ASSUME NEW c \in Conns, ProcessTxReady(c) \/ Ack(c) \/ PeerFin(c) \/ Close(c)
      PROVE  [ST!SNext]_(ST!svars)
  <2>1. CASE ProcessTxReady(c)
    BY <2>1, Stutters DEF ProcessTxReady, env, appVars
  <2>2. CASE Ack(c)
    BY <2>2, AckDelivers
  <2>3. CASE Close(c)
    BY <2>3, Stutters DEF Close, env, svcVars
  <2>4. CASE PeerFin(c)
    BY <2>4, Stutters DEF PeerFin, env, appVars
  <2> QED BY <1>6, <2>1, <2>2, <2>3, <2>4
<1>7. CASE UNCHANGED vars
  BY <1>7, Stutters DEF vars, env, svcVars, appVars
<1> QED BY <1>1, <1>2, <1>3, <1>4, <1>5, <1>6, <1>7 DEF Next

\* The transmit path implements a stream for any number of connections, ring
\* sizes and pool shortages: what the peer gets was handed to ipaugenblick_send,
\* comes in this order and at most once, a close at any moment included.
THEOREM TxImplementsStream == Spec => ImplementsStream
<1>1. Init => ST!SInit
  <2> SUFFICES ASSUME Init PROVE ST!SInit
    OBVIOUS
  <2>1. Delivered = [c \in Conns |-> <<>>]
    BY DEF Init, Delivered
  <2> QED BY <2>1 DEF Init, ST!SInit, OneLife, Datagrams
<1>2. TxInv /\ [Next]_vars => [ST!SNext]_(ST!svars)
  BY TxSimulates
<1> QED BY <1>1, <1>2, TxInvariant, PTL DEF Spec, ImplementsStream, ST!SSpec

---------------------------------------------------------------------------
(* A backlog in tx_ring is noticed.                                        *)

Kicked(c) == \E i \in DOMAIN commands : commands[i].op = "TX_KICK" /\ commands[i].conn = c
Evented(c) == \E i \in DOMAIN readyRing : readyRing[i] = c
Busy(c) == at \notin {"select", "run"} /\ cur = c

\* Somebody will come to tx_ring without the service being there now: the application
\* has an event, upon which it kicks, or has kicked; the stack will call the service.
Claimed(c) ==
  \/ Busy(c) \/ c \in ready \/ Evented(c) \/ Kicked(c) \/ c \in writeQueue
  \/ sendQueue[c] # <<>>

\* The service is at the socket and has still to look at what tx_ring holds.
Looking(c) ==
  /\ svc.conn = c
  /\ \/ svc.step \in {"clear", "count", "send", "page"}
     \/ svc.step = "burst" /\ Len(txRing[c]) <= svc.goal

\* Every acknowledgement that empties the send queue brings the service back.
Recalled(c) ==
  \/ c \in Datagrams \/ noSpace[c] \/ c \in writeQueue
  \/ svc.conn = c /\ svc.step \in Serving /\ svc.caller = "txready"

\* write_done_from_app stands for a kick the service has not begun to serve.
KickPending(c) ==
  Kicked(c) \/ (at = "kickcmd" /\ cur = c) \/ (svc.conn = c /\ svc.step = "clear")

BacklogSound(c) ==
  /\ attached[c] /\ Recalled(c)
  /\ writeDone[c] => KickPending(c)
  /\ txRing[c] # <<>> => Claimed(c) \/ Looking(c)

\* Connections that nobody may call the service for: accepted ones do not ask the
\* stack, and of one whose peer sent its FIN an acknowledgement says nothing.
Excused == Accepted \cup finned

BacklogInv ==
  /\ \A c \in open \ Excused : BacklogSound(c)
  /\ at = "select" => ready = {}

\* A step that is not at the connection and takes nothing from it.
LEMMA BacklogKept ==
  ASSUME NEW c, BacklogSound(c), UNCHANGED kind, attached[c] => attached'[c],
         txRing'[c] = txRing[c], noSpace'[c] = noSpace[c], writeDone'[c] = writeDone[c],
         c \in writeQueue => c \in writeQueue',
         Claimed(c) => Claimed(c)', Kicked(c) => Kicked(c)',
         at = "kickcmd" /\ cur = c => at' = "kickcmd" /\ cur' = c,
         svc' = svc \/ svc.step \notin Serving \/ svc.conn # c
  PROVE  BacklogSound(c)'
<1>1. Recalled(c)'
  BY DEF BacklogSound, Recalled, Datagrams
<1>2. writeDone'[c] => KickPending(c)'
  BY DEF BacklogSound, KickPending, Serving
<1>3. txRing'[c] # <<>> => Claimed(c)' \/ Looking(c)'
  BY DEF BacklogSound, Looking, Serving
<1> QED BY <1>1, <1>2, <1>3 DEF BacklogSound

\* Executing a command takes away no other kick, and queueing one none at all.
LEMMA KicksStay ==
  ASSUME TypeOK, commands # <<>>, commands' = Tail(commands), NEW c,
         Head(commands).op # "TX_KICK" \/ Head(commands).conn # c, Kicked(c)
  PROVE  Kicked(c)'
<1>1. PICK k \in DOMAIN commands : commands[k].op = "TX_KICK" /\ commands[k].conn = c
  BY DEF Kicked
<1>2. Head(commands) = commands[1]
  BY CommandsTaken
<1>3. k # 1
  BY <1>1, <1>2
<1>4. PICK i \in DOMAIN commands' : commands'[i] = commands[k]
  BY <1>3, CommandsTaken
<1> QED BY <1>1, <1>4 DEF Kicked

LEMMA KicksGrow ==
  ASSUME TypeOK, NEW op \in Ops, NEW d \in Conns, commands' = Append(commands, [op |-> op, conn |-> d])
  PROVE  /\ \A c : Kicked(c) => Kicked(c)'
         /\ op = "TX_KICK" => Kicked(d)'
<1>1. PICK r \in CommandRecs : r = [op |-> op, conn |-> d]
  BY DEF CommandRecs, Ops
<1>2. commands \in Seq(CommandRecs) /\ commands' = Append(commands, r)
  BY <1>1, TypeGroups DEF TypeLists
<1>3. PICK n \in Nat : n = Len(commands)
  BY <1>2, LenProperties
<1>4. /\ DOMAIN commands = 1 .. n /\ DOMAIN commands' = 1 .. n + 1
      /\ commands'[n + 1] = r /\ \A i \in 1 .. n : commands'[i] = commands[i]
  BY <1>2, <1>3, AppendProperties, LenProperties
<1>5. ASSUME NEW c, Kicked(c) PROVE Kicked(c)'
  <2>1. PICK i \in 1 .. n : commands[i].op = "TX_KICK" /\ commands[i].conn = c
    BY <1>4, <1>5 DEF Kicked
  <2>2. i \in DOMAIN commands' /\ commands'[i] = commands[i]
    BY <1>4, <2>1
  <2> QED BY <2>1, <2>2 DEF Kicked
<1>6. op = "TX_KICK" => Kicked(d)'
  <2>1. n + 1 \in DOMAIN commands'
    BY <1>4
  <2>2. r.op = op /\ r.conn = d
    BY <1>1
  <2> QED BY <1>4, <2>1, <2>2 DEF Kicked
<1> QED BY <1>5, <1>6

\* The pool, the application's steps before its kick, and a step that changes nothing.
LEMMA BacklogRests ==
  ASSUME TxInv, BacklogInv,
         UNCHANGED <<txRing, writeDone, kind, svc, attached, noSpace, writeQueue, sendQueue, open, finned>>,
         \A c \in open : Claimed(c) => Claimed(c)',
         \A c \in open : Kicked(c) => Kicked(c)',
         at = "kickcmd" => at' = "kickcmd" /\ cur' = cur,
         at' = "select" => ready' = {}
  PROVE  BacklogInv'
<1>1. Excused' = Excused
  BY DEF Excused, Accepted
<1>2. ASSUME NEW c \in open \ Excused PROVE BacklogSound(c)'
  BY BacklogKept DEF BacklogInv
<1> QED BY <1>1, <1>2 DEF BacklogInv

LEMMA BacklogEnv ==
  ASSUME TxInv, BacklogInv, PoolRunsDry \/ PoolRefilled \/ UNCHANGED vars
  PROVE  BacklogInv'
<1>1. UNCHANGED <<txRing, writeDone, kind, svc, attached, noSpace, writeQueue, sendQueue, open,
                  commands, readyRing, ready, at, cur, finned>>
  BY DEF PoolRunsDry, PoolRefilled, vars, shared, env, tcp, svcVars, appVars
<1>2. \A c : Kicked(c)' = Kicked(c) /\ Claimed(c)' = Claimed(c)
  BY <1>1 DEF Claimed, Kicked, Evented, Busy
<1>3. at' = "select" => ready' = {}
  BY <1>1 DEF BacklogInv
<1> QED BY <1>1, <1>2, <1>3, BacklogRests

LEMMA BacklogSelects ==
  ASSUME TxInv, BacklogInv, Select
  PROVE  BacklogInv'
<1>1. /\ UNCHANGED <<txRing, writeDone, kind, svc, attached, noSpace, writeQueue, sendQueue, open,
                     commands, cur, finned>>
      /\ at = "select" /\ ready' = {readyRing[i] : i \in DOMAIN readyRing} \cap open
  BY DEF Select, env, tcp, svcVars
<1>2. ready = {}
  BY <1>1 DEF BacklogInv
<1>3. \A c \in open : Kicked(c) => Kicked(c)'
  BY <1>1 DEF Kicked
<1>4. ASSUME NEW c \in open, Claimed(c) PROVE Claimed(c)'
  BY <1>1, <1>2, <1>3, <1>4 DEF Claimed, Evented, Busy
<1>5. at' = "select" => ready' = {}
  BY DEF Select
<1> QED BY <1>1, <1>3, <1>4, <1>5, BacklogRests

LEMMA BacklogServes ==
  ASSUME TxInv, BacklogInv,
         \/ \E c \in Conns : GetTxSpace(c)
         \/ ClearWriteReady \/ NotifyEmpty \/ GetBufferFails \/ SendBegins \/ SendSub
  PROVE  BacklogInv'
<1>1. /\ UNCHANGED <<txRing, writeDone, kind, svc, attached, noSpace, writeQueue, sendQueue, open,
                     ready, readyRing, finned>>
      /\ at # "kickcmd" /\ at' \notin {"select", "run"}
      /\ cur' = cur \/ at \in {"select", "run"}
  BY DEF GetTxSpace, ClearWriteReady, NotifyEmpty, GetBufferFails, SendBegins, SendSub, shared, env, tcp,
         svcVars
<1>2. ASSUME NEW c, Kicked(c) PROVE Kicked(c)'
  <2>1. CASE UNCHANGED commands
    BY <1>2, <2>1 DEF Kicked
  <2>2. CASE at = "notify" /\ commands' = Append(commands, [op |-> "POOL_EMPTY", conn |-> cur])
    <3>1. cur \in Conns /\ "POOL_EMPTY" \in Ops /\ TypeOK
      BY <2>2 DEF TxInv, AppSound, Ops
    <3> QED BY <1>2, <2>2, <3>1, KicksGrow
  <2> QED BY <2>1, <2>2 DEF GetTxSpace, ClearWriteReady, NotifyEmpty, GetBufferFails, SendBegins,
                            SendSub, shared, Queue
<1>3. ASSUME NEW c, Claimed(c) PROVE Claimed(c)'
  BY <1>1, <1>2, <1>3 DEF Claimed, Evented, Busy
<1> QED BY <1>1, <1>2, <1>3, BacklogRests

LEMMA BacklogSends ==
  ASSUME TxInv, BacklogInv, SendEnqueue
  PROVE  BacklogInv'
<1>1. /\ UNCHANGED <<writeDone, kind, svc, attached, noSpace, writeQueue, sendQueue, open,
                     ready, readyRing, commands, cur, finned>>
      /\ at = "enqueue" /\ at' \in {"sub", "send"}
      /\ txRing' = txRing \/ txRing' = [txRing EXCEPT ![cur] = Append(@, sent[cur] + 1)]
  BY DEF SendEnqueue, env, tcp, svcVars
<1>2. Excused' = Excused
  BY <1>1 DEF Excused, Accepted
<1>3. \A c : (Kicked(c) => Kicked(c)') /\ (Claimed(c) => Claimed(c)')
  BY <1>1 DEF Claimed, Kicked, Evented, Busy
<1>4. ASSUME NEW c \in open \ Excused PROVE BacklogSound(c)'
  <2>0. BacklogSound(c)
    BY DEF BacklogInv
  <2>1. CASE c = cur
    <3>1. Claimed(c)'
      BY <1>1, <2>1 DEF Claimed, Busy
    <3>2. Recalled(c)'
      BY <1>1, <2>0 DEF BacklogSound, Recalled, Datagrams
    <3>3. writeDone'[c] => KickPending(c)'
      BY <1>1, <1>3, <2>0 DEF BacklogSound, KickPending
    <3> QED BY <1>1, <2>0, <3>1, <3>2, <3>3 DEF BacklogSound
  <2>2. CASE c # cur
    <3>1. txRing'[c] = txRing[c]
      BY <1>1, <2>2, TypeGroups DEF TxInv, TypeRings, TypeApp
    <3> QED BY <1>1, <1>3, <2>0, <2>2, <3>1, BacklogKept
  <2> QED BY <2>1, <2>2
<1> QED BY <1>1, <1>2, <1>4 DEF BacklogInv

\* ipaugenblick_socket_kick returns early only where an earlier kick is still to be
\* served from its beginning.
LEMMA BacklogKicks ==
  ASSUME TxInv, BacklogInv, Kick
  PROVE  BacklogInv'
<1>1. /\ UNCHANGED <<txRing, kind, svc, attached, noSpace, writeQueue, sendQueue, open,
                     readyRing, commands, finned>>
      /\ at \in {"send", "kick"}
      /\ at' = "select" => ready' = {}
      /\ \/ writeDone[cur] /\ writeDone' = writeDone /\ ready' = ready \ {cur}
         \/ /\ writeDone' = [writeDone EXCEPT ![cur] = TRUE]
            /\ at' = "kickcmd" /\ ready' = ready /\ cur' = cur
  BY DEF Kick, Served, env, tcp, svcVars
<1>2. Excused' = Excused
  BY <1>1 DEF Excused, Accepted
<1>3. \A c : Kicked(c) <=> Kicked(c)'
  BY <1>1 DEF Kicked
<1>4. ASSUME NEW c \in open \ Excused PROVE BacklogSound(c)'
  <2>0. BacklogSound(c) /\ c \in Conns
    BY TypeGroups DEF BacklogInv, TxInv, TypeApp
  <2>r. Recalled(c)'
    BY <1>1, <2>0 DEF BacklogSound, Recalled, Datagrams
  <2>1. CASE c # cur
    <3>1. writeDone'[c] = writeDone[c]
      BY <1>1, <2>0, <2>1, TypeGroups DEF TxInv, TypeFlags
    <3>2. Claimed(c) => Claimed(c)'
      BY <1>1, <1>3, <2>1 DEF Claimed, Evented, Busy
    <3> QED BY <1>1, <1>3, <2>0, <2>1, <3>1, <3>2, BacklogKept
  <2>2. CASE c = cur /\ writeDone[cur] /\ writeDone' = writeDone
    <3>1. Kicked(c) \/ (svc.conn = c /\ svc.step = "clear")
      BY <1>1, <2>0, <2>2 DEF BacklogSound, KickPending
    <3>2. KickPending(c)' /\ (Claimed(c)' \/ Looking(c)')
      BY <1>1, <1>3, <3>1 DEF KickPending, Claimed, Looking
    <3> QED BY <1>1, <2>0, <2>r, <3>2 DEF BacklogSound
  <2>3. CASE c = cur /\ at' = "kickcmd" /\ cur' = cur
    <3>1. KickPending(c)' /\ Claimed(c)'
      BY <2>3 DEF KickPending, Claimed, Busy
    <3> QED BY <1>1, <2>0, <2>r, <3>1 DEF BacklogSound
  <2> QED BY <1>1, <2>1, <2>2, <2>3
<1> QED BY <1>1, <1>2, <1>4 DEF BacklogInv

LEMMA BacklogKickQueued ==
  ASSUME TxInv, BacklogInv, KickCommand, ~KicksMayFail
  PROVE  BacklogInv'
<1>1. /\ UNCHANGED <<txRing, writeDone, kind, svc, attached, noSpace, writeQueue, sendQueue, open,
                     readyRing, finned>>
      /\ at = "kickcmd" /\ ready' = ready \ {cur}
      /\ at' = "select" => ready' = {}
      /\ commands' = Append(commands, [op |-> "TX_KICK", conn |-> cur])
  BY DEF KickCommand, Queue, Served, env, tcp, svcVars
<1>2. Excused' = Excused
  BY <1>1 DEF Excused, Accepted
<1>3. \A c : (Kicked(c) => Kicked(c)') /\ (c = cur => Kicked(c)')
  <2>1. cur \in Conns /\ "TX_KICK" \in Ops /\ TypeOK
    BY <1>1 DEF TxInv, AppSound, Ops
  <2>2. PICK d \in Conns : d = cur
    BY <2>1
  <2>3. Kicked(d)' /\ \A c : Kicked(c) => Kicked(c)'
    BY <1>1, <2>1, <2>2, KicksGrow
  <2> QED BY <2>2, <2>3
<1>4. ASSUME NEW c \in open \ Excused PROVE BacklogSound(c)'
  <2>0. BacklogSound(c)
    BY DEF BacklogInv
  <2>1. CASE c # cur
    <3>1. Claimed(c) => Claimed(c)'
      BY <1>1, <1>3, <2>1 DEF Claimed, Evented, Busy
    <3> QED BY <1>1, <1>3, <2>0, <2>1, <3>1, BacklogKept
  <2>2. CASE c = cur
    <3>0. Kicked(c)'
      BY <1>3, <2>2
    <3>1. KickPending(c)' /\ Claimed(c)'
      BY <3>0 DEF KickPending, Claimed
    <3>2. Recalled(c)'
      BY <1>1, <2>0 DEF BacklogSound, Recalled, Datagrams
    <3> QED BY <1>1, <2>0, <3>1, <3>2 DEF BacklogSound
  <2> QED BY <2>1, <2>2
<1> QED BY <1>1, <1>2, <1>4 DEF BacklogInv

LEMMA BacklogCloses ==
  ASSUME TxInv, BacklogInv, NEW d \in Conns, Close(d)
  PROVE  BacklogInv'
<1>1. /\ UNCHANGED <<txRing, writeDone, kind, svc, attached, noSpace, writeQueue, sendQueue,
                     readyRing, cur, finned>>
      /\ at \in {"select", "run"} /\ ready' = ready \ {d} /\ open' = open \ {d}
      /\ at' = "select" => ready' = {}
      /\ commands' = Append(commands, [op |-> "CLOSE", conn |-> d])
  BY DEF Close, Queue, env, tcp, svcVars
<1>2. Excused' = Excused
  BY <1>1 DEF Excused, Accepted
<1>3. \A c : Kicked(c) => Kicked(c)'
  BY <1>1, KicksGrow DEF TxInv, Ops
<1>4. ASSUME NEW c \in open \ Excused, c # d PROVE BacklogSound(c)'
  <2>0. BacklogSound(c)
    BY DEF BacklogInv
  <2>1. Claimed(c) => Claimed(c)'
    BY <1>1, <1>3, <1>4 DEF Claimed, Evented, Busy
  <2> QED BY <1>1, <1>3, <2>0, <2>1, BacklogKept
<1> QED BY <1>1, <1>2, <1>4 DEF BacklogInv

\* A step of the service: the application's part stays, and so does what is claimed of
\* a connection the service is not at.
LEMMA BacklogElsewhere ==
  ASSUME BacklogInv, UNCHANGED <<kind, open, ready, at, cur, finned>>,
         \A c \in open \ Excused : BacklogSound(c) => BacklogSound(c)'
  PROVE  BacklogInv'
<1>1. Excused' = Excused
  BY DEF Excused, Accepted
<1> QED BY <1>1 DEF BacklogInv

LEMMA BacklogExecutes ==
  ASSUME TxInv, BacklogInv, ExecCommand
  PROVE  BacklogInv'
<1>1. /\ svc.step = "idle" /\ svc.step \notin Serving /\ commands # <<>> /\ commands' = Tail(commands)
      /\ UNCHANGED <<kind, open, ready, at, cur, writeDone, noSpace, readyRing, finned>>
  BY SvcValues DEF ExecCommand, env, tcp, appVars, Serving
<1>2. PICK d \in Conns : \/ ExecSetRing(d) \/ ExecSelect(d) \/ ExecTxKick(d)
                         \/ ExecPoolEmpty(d) \/ ExecClose(d)
  BY ExecCases DEF TxInv
<1>3. ASSUME NEW c \in open \ Excused, BacklogSound(c) PROVE BacklogSound(c)'
  <2>0. c \in Conns /\ TypeOK /\ TypeRings /\ TypeFlags
    BY TypeGroups DEF TxInv, TypeApp
  <2>1. CASE ~(ExecTxKick(d) /\ c = d)
    <3>1. ExecClose(d) => c # d
      <4>1. SUFFICES ASSUME ExecClose(d) PROVE d \notin open
        OBVIOUS
      <4>2. 1 \in DOMAIN commands /\ commands[1].op = "CLOSE" /\ commands[1].conn = d
        BY <1>1, <2>0, <4>1, CommandsTaken DEF ExecClose, Executes
      <4> QED BY <4>2 DEF TxInv, CommandsSound
    <3>2. Kicked(c) => Kicked(c)'
      <4>1. Head(commands).op # "TX_KICK" \/ Head(commands).conn # c
        BY <1>2, <2>1 DEF ExecSetRing, ExecSelect, ExecTxKick, ExecPoolEmpty, ExecClose, Executes
      <4> QED BY <1>1, <2>0, <4>1, KicksStay
    <3>3. /\ txRing'[c] = txRing[c] /\ sendQueue'[c] = sendQueue[c]
          /\ c \in writeQueue => c \in writeQueue'
          /\ attached[c] => attached'[c]
      BY <1>2, <2>0, <3>1 DEF ExecSetRing, ExecSelect, ExecTxKick, ExecPoolEmpty, ExecClose,
                              TypeRings, TypeFlags
    <3>4. Claimed(c) => Claimed(c)'
      BY <1>1, <3>2, <3>3 DEF Claimed, Evented, Busy
    <3> QED BY <1>1, <1>3, <3>2, <3>3, <3>4, BacklogKept
  <2>2. CASE ExecTxKick(d) /\ c = d
    <3>1. UNCHANGED <<attached, txRing, writeQueue>> /\ attached[c]
      BY <1>3, <2>2 DEF ExecTxKick, BacklogSound
    <3>2. svc'.conn = c /\ svc'.step = "clear"
      BY <2>0, <2>2, <3>1, SvcValues DEF ExecTxKick, Callers
    <3>3. Recalled(c)'
      BY <1>1, <1>3, <3>1 DEF BacklogSound, Recalled, Datagrams
    <3> QED BY <3>1, <3>2, <3>3 DEF BacklogSound, KickPending, Looking
  <2> QED BY <2>1, <2>2
<1> QED BY <1>1, <1>3, BacklogElsewhere

LEMMA BacklogCalls ==
  ASSUME TxInv, BacklogInv, NEW d \in Conns, ProcessTxReady(d)
  PROVE  BacklogInv'
<1>1. /\ svc.step = "idle" /\ svc.step \notin Serving
      /\ UNCHANGED <<kind, open, ready, at, cur, writeDone, noSpace, readyRing, commands, txRing,
                     attached, sendQueue, finned>>
      /\ writeQueue' = writeQueue \ {d} /\ svc' = Opportunity(d, "txready")
  BY SvcValues DEF ProcessTxReady, shared, env, tcp, appVars, Serving
<1>2. ASSUME NEW c \in open \ Excused, BacklogSound(c) PROVE BacklogSound(c)'
  <2>1. Kicked(c)' <=> Kicked(c)
    BY <1>1 DEF Kicked
  <2>2. CASE c # d
    <3>1. Claimed(c) => Claimed(c)'
      BY <1>1, <2>1, <2>2 DEF Claimed, Evented, Busy
    <3> QED BY <1>1, <1>2, <2>1, <2>2, <3>1, BacklogKept
  <2>3. CASE c = d
    <3>1. svc'.conn = c /\ svc'.step = "clear" /\ svc'.caller = "txready"
      BY <1>1, <2>3, SvcValues DEF Callers
    <3>2. Recalled(c)' /\ KickPending(c)' /\ Looking(c)'
      BY <3>1 DEF Recalled, KickPending, Looking, Serving
    <3> QED BY <1>1, <1>2, <3>2 DEF BacklogSound
  <2> QED BY <2>2, <2>3
<1> QED BY <1>1, <1>2, BacklogElsewhere

\* An acknowledgement that empties the send queue of a stream finds it writeable.
LEMMA EmptyIsWriteable ==
  ASSUME TypeOK, NEW c \in Conns
  PROVE  IsWriteable(c, <<>>)
<1>1. PICK n \in Nat, f \in Nat : n = Len(sendQueue[c]) /\ f > 0 /\
                                  f = IF c \in Short THEN ShortRoom ELSE SndBuf
  BY TypedConn, Sizes DEF Queued
<1>2. WSpace(c) = f - n
  BY <1>1 DEF WSpace
<1>3. WSpace(c) + Len(sendQueue[c]) - Len(<<>>) = f
  BY <1>1, <1>2
<1> QED BY <1>1, <1>3 DEF IsWriteable

LEMMA BacklogAcks ==
  ASSUME TxInv, BacklogInv, NEW d \in Conns, Ack(d)
  PROVE  BacklogInv'
<1>0. TypeOK /\ TypeRings /\ TypeFlags
  BY TypeGroups DEF TxInv
<1>1. /\ svc.step = "idle" /\ svc.step \notin Serving
      /\ UNCHANGED <<kind, open, ready, at, cur, writeDone, svc, readyRing, commands, txRing,
                     attached, finned>>
      /\ sendQueue' = [sendQueue EXCEPT ![d] = Tail(@)]
      /\ IF (d \in Datagrams \/ noSpace[d]) /\ WriteSpace(d, Tail(sendQueue[d]))
         THEN /\ noSpace' = [noSpace EXCEPT ![d] = FALSE]
              /\ writeQueue' = writeQueue \cup {d}
         ELSE UNCHANGED <<noSpace, writeQueue>>
  BY SvcValues DEF Ack, env, tcp, appVars, Serving
<1>2. ASSUME NEW c \in open \ Excused, BacklogSound(c) PROVE BacklogSound(c)'
  <2>1. Kicked(c)' <=> Kicked(c)
    BY <1>1 DEF Kicked
  <2>2. CASE c # d
    <3>1. /\ noSpace'[c] = noSpace[c] /\ sendQueue'[c] = sendQueue[c]
          /\ c \in writeQueue => c \in writeQueue'
      <4>1. c \in Conns
        BY TypeGroups DEF TxInv, TypeApp
      <4> QED BY <1>0, <1>1, <2>2, <4>1 DEF TypeRings, TypeFlags
    <3>2. Claimed(c) => Claimed(c)'
      BY <1>1, <2>1, <3>1 DEF Claimed, Evented, Busy
    <3> QED BY <1>1, <1>2, <2>1, <3>1, <3>2, BacklogKept
  <2>3. CASE c = d
    <3>1. c \in Datagrams \/ noSpace[c] \/ c \in writeQueue
      BY <1>1, <1>2 DEF BacklogSound, Recalled
    <3>2. sendQueue'[c] = Tail(sendQueue[c])
      BY <1>0, <1>1, <2>3 DEF TypeRings
    <3>7. c \notin finned /\ attached[c]
      BY <1>2 DEF Excused, BacklogSound
    <3>8. sendQueue'[c] = <<>> => WriteSpace(c, Tail(sendQueue[c]))
      BY <1>0, <2>3, <3>2, <3>7, EmptyIsWriteable DEF WriteSpace
    <3>3. sendQueue'[c] = <<>> => c \in writeQueue'
      BY <1>1, <2>3, <3>1, <3>8
    <3>4. Recalled(c)'
      BY <1>1, <2>3, <3>1 DEF Recalled, Datagrams
    <3>5. Claimed(c)'
      BY <3>3 DEF Claimed
    <3>6. writeDone'[c] => KickPending(c)'
      BY <1>1, <1>2, <2>1 DEF BacklogSound, KickPending
    <3> QED BY <1>1, <1>2, <3>4, <3>5, <3>6 DEF BacklogSound
  <2> QED BY <2>2, <2>3
<1> QED BY <1>1, <1>2, BacklogElsewhere

LEMMA BacklogFins ==
  ASSUME TxInv, BacklogInv, NEW d \in Conns, PeerFin(d)
  PROVE  BacklogInv'
<1>1. /\ UNCHANGED <<txRing, writeDone, kind, svc, attached, noSpace, writeQueue, sendQueue, open,
                     commands, readyRing, ready, at, cur>>
      /\ finned' = finned \cup {d}
  BY DEF PeerFin, shared, env, appVars
<1>2. open' \ Excused' \subseteq open \ Excused
  BY <1>1 DEF Excused, Accepted
<1>3. ASSUME NEW c \in open \ Excused PROVE BacklogSound(c)'
  <2>1. \A e : Kicked(e)' = Kicked(e) /\ Claimed(e)' = Claimed(e)
    BY <1>1 DEF Claimed, Kicked, Evented, Busy
  <2> QED BY <1>1, <2>1, BacklogKept DEF BacklogInv
<1> QED BY <1>1, <1>2, <1>3 DEF BacklogInv

\* The steps between two calls of the service.
LEMMA BacklogLoops ==
  ASSUME TxInv, BacklogInv, ServeStarved \/ MainLoop
  PROVE  BacklogInv'
<1>1. /\ svc.step \in {"idle", "notify"} /\ svc.step \notin Serving
      /\ UNCHANGED <<kind, open, ready, at, cur, writeDone, noSpace, readyRing, commands, txRing,
                     attached, sendQueue, writeQueue, finned>>
  BY SvcValues DEF ServeStarved, MainLoop, shared, env, tcp, appVars, Serving
<1>2. ASSUME NEW c \in open \ Excused, BacklogSound(c) PROVE BacklogSound(c)'
  <2>1. Kicked(c)' <=> Kicked(c)
    BY <1>1 DEF Kicked
  <2>2. Claimed(c) => Claimed(c)'
    BY <1>1, <2>1 DEF Claimed, Evented, Busy
  <2> QED BY <1>1, <1>2, <2>1, <2>2, BacklogKept
<1> QED BY <1>1, <1>2, BacklogElsewhere

\* ipaugenblick_mark_writable has returned.
LEMMA BacklogReturns ==
  ASSUME TxInv, svc.step \in Serving, NEW keep \in BOOLEAN, Return(keep), NEW c \in Conns,
         c = svc.conn, Recalled(c), UNCHANGED <<kind, writeQueue>>
  PROVE  Recalled(c)' /\ \A d \in Conns : d # c => noSpace'[d] = noSpace[d]
<1>1. svc.caller \in Callers /\ noSpace \in [Conns -> BOOLEAN]
  BY TypeGroups DEF TxInv, SvcSound, TypeFlags
<1>2. \/ svc.caller = "txready" /\ noSpace' = [noSpace EXCEPT ![c] = TRUE]
      \/ svc.caller # "txready" /\ noSpace' = noSpace
  BY <1>1 DEF Return, Callers
<1> QED BY <1>1, <1>2 DEF Recalled, Datagrams

\* What the steps of the service at a socket have in common.
Within(c) ==
  /\ svc.step \in Serving /\ svc.conn = c
  /\ UNCHANGED <<kind, open, ready, at, cur, commands, attached, writeQueue, finned>>
  /\ \A d \in Conns : d # c => /\ noSpace'[d] = noSpace[d] /\ writeDone'[d] = writeDone[d]
                               /\ txRing'[d] = txRing[d] /\ sendQueue'[d] = sendQueue[d]
  /\ sendQueue[c] # <<>> => sendQueue'[c] # <<>>
  /\ \A d \in open : Evented(d) => Evented(d)'

\* Enough to show of a step of the service at a socket.
LEMMA BacklogWithin ==
  ASSUME TxInv, BacklogInv, NEW c \in Conns, Within(c),
         BacklogSound(c) => Recalled(c)' /\ (writeDone'[c] => KickPending(c)'),
         BacklogSound(c) /\ c \in open /\ txRing'[c] # <<>> => Claimed(c)' \/ Looking(c)'
  PROVE  BacklogInv'
<1>1. \A d : Kicked(d)' <=> Kicked(d)
  BY DEF Within, Kicked
<1>2. ASSUME NEW d \in open \ Excused, BacklogSound(d) PROVE BacklogSound(d)'
  <2>1. d \in Conns
    BY TypeGroups DEF TxInv, TypeApp
  <2>2. CASE d # c
    <3>1. Claimed(d) => Claimed(d)'
      BY <1>1, <2>1, <2>2 DEF Within, Claimed, Busy
    <3> QED BY <1>1, <1>2, <2>1, <2>2, <3>1, BacklogKept DEF Within
  <2>3. CASE d = c
    BY <1>2, <2>3 DEF Within, BacklogSound
  <2> QED BY <2>2, <2>3
<1> QED BY <1>2, BacklogElsewhere DEF Within

LEMMA ClaimedWithin ==
  ASSUME NEW c \in open, Within(c), Claimed(c)
  PROVE  Claimed(c)'
  BY DEF Within, Claimed, Busy, Kicked

LEMMA BacklogClears ==
  ASSUME TxInv, BacklogInv, ClearWriteDone
  PROVE  BacklogInv'
<1>0. PICK c \in Conns : c = svc.conn
  BY DEF TxInv, SvcSound, ClearWriteDone, Serving
<1>1. /\ UNCHANGED <<txRing, readyRing, sendQueue, noSpace, commands, kind, open, ready, at, cur,
                     attached, writeQueue, finned>>
      /\ svc.step \in {"clear", "clear2"} /\ writeDone' = [writeDone EXCEPT ![c] = FALSE]
      /\ \E t \in {"count", "mark"} : /\ svc' = [svc EXCEPT !.step = t]
                                      /\ svc.step = "clear" => t = "count"
  BY <1>0 DEF ClearWriteDone, env, tcp, appVars
<1>2. /\ svc'.conn = c /\ svc'.caller = svc.caller /\ svc'.step \in Serving
      /\ svc.step = "clear" => svc'.step = "count"
  <2>1. svc \in SvcRecs /\ "count" \in Steps /\ "mark" \in Steps
    BY TypedSvc DEF TxInv, Steps, Serving
  <2>2. PICK t \in {"count", "mark"} : /\ svc' = [svc EXCEPT !.step = t]
                                       /\ svc.step = "clear" => t = "count"
    BY <1>1
  <2>3. svc'.step = t /\ svc'.conn = c /\ svc'.caller = svc.caller
    BY <1>0, <2>1, <2>2, SvcMoves
  <2> QED BY <2>2, <2>3 DEF Serving
<1>3. writeDone'[c] = FALSE /\ \A d \in Conns : d # c => writeDone'[d] = writeDone[d]
  BY <1>1, TypeGroups DEF TxInv, TypeFlags
<1>4. Within(c)
  BY <1>0, <1>1, <1>3 DEF Within, Serving, Evented
<1>5. BacklogSound(c) => Recalled(c)'
  BY <1>0, <1>1, <1>2 DEF BacklogSound, Recalled, Datagrams
<1>6. ASSUME BacklogSound(c), c \in open, txRing'[c] # <<>> PROVE Claimed(c)' \/ Looking(c)'
  <2>1. CASE svc.step = "clear"
    BY <1>2, <2>1 DEF Looking
  <2>2. CASE svc.step = "clear2"
    <3>1. Claimed(c)
      BY <1>1, <1>6, <2>2 DEF BacklogSound, Looking
    <3> QED BY <1>4, <1>6, <3>1, ClaimedWithin
  <2> QED BY <1>1, <2>1, <2>2
<1> QED BY <1>3, <1>4, <1>5, <1>6, BacklogWithin

\* The kick of a connection stays pending while the service is past its first step.
LEMMA PendingWithin ==
  ASSUME NEW c, Within(c), svc.step # "clear", writeDone'[c] = writeDone[c], BacklogSound(c)
  PROVE  writeDone'[c] => KickPending(c)'
  BY DEF Within, BacklogSound, KickPending, Kicked

LEMMA BacklogCounts ==
  ASSUME TxInv, BacklogInv, CountTxBufs
  PROVE  BacklogInv'
<1>0. PICK c \in Conns : c = svc.conn
  BY DEF TxInv, SvcSound, CountTxBufs, Serving
<1>1. /\ UNCHANGED <<txRing, readyRing, sendQueue, noSpace, writeDone, commands, kind, open, ready,
                     at, cur, attached, writeQueue, finned>>
      /\ svc.step = "count"
  BY DEF CountTxBufs, shared, env, tcp, appVars
<1>2. /\ svc'.conn = c /\ svc'.caller = svc.caller /\ svc'.step \in Serving
      /\ \/ svc'.step = "mark" /\ txRing[c] = <<>>
         \/ svc'.step = "send"
         \/ svc'.step = "burst" /\ svc'.goal = Len(txRing[c])
  <2>1. \/ svc' = [svc EXCEPT !.step = "mark"] /\ Len(txRing[c]) = 0
        \/ svc' = [svc EXCEPT !.step = "burst", !.goal = Len(txRing[c])]
        \/ svc' = [svc EXCEPT !.step = "send"]
    BY <1>0 DEF CountTxBufs
  <2>2. svc \in SvcRecs /\ txRing[c] \in Seq(Numbers)
    BY TypedSvc, TypedConn DEF TxInv
  <2>3. Len(txRing[c]) = 0 => txRing[c] = <<>>
    BY <2>2, EmptySeq
  <2> QED BY <1>0, <2>1, <2>2, <2>3 DEF SvcRecs, Serving
<1>3. Within(c)
  BY <1>0, <1>1 DEF Within, Serving, Evented
<1>4. BacklogSound(c) => Recalled(c)'
  BY <1>0, <1>1, <1>2 DEF BacklogSound, Recalled, Datagrams
<1>5. BacklogSound(c) => (writeDone'[c] => KickPending(c)')
  BY <1>1, <1>3, PendingWithin
<1>6. txRing'[c] # <<>> => Looking(c)'
  <2>1. Len(txRing[c]) \in Nat
    BY TypedConn DEF TxInv, Waiting
  <2> QED BY <1>1, <1>2, <2>1 DEF Looking
<1> QED BY <1>3, <1>4, <1>5, <1>6, BacklogWithin

\* The loop around kernel_sendpage ends with tx_ring empty or the send queue full,
\* unless the size goal is too small for user_get_buffer to take anything.
LEMMA BacklogPages ==
  ASSUME TxInv, BacklogInv, 0 \notin SizeGoals, SendPage \/ PageDone
  PROVE  BacklogInv'
<1>0. PICK c \in Conns : c = svc.conn
  BY DEF TxInv, SvcSound, SendPage, PageDone, Serving
<1>1. /\ UNCHANGED <<txRing, readyRing, sendQueue, noSpace, writeDone, commands, kind, open, ready,
                     at, cur, attached, writeQueue, finned>>
      /\ svc.step \in {"send", "page"}
  BY DEF SendPage, PageDone, shared, env, tcp, appVars
<1>2. /\ svc'.conn = c /\ svc'.caller = svc.caller /\ svc'.step \in Serving
      /\ \/ svc'.step \in {"send", "page"}
         \/ svc.step = "send" /\ ~(WSpace(c) > 0)
         \/ svc.step = "page" /\ svc.took = 0 /\ (svc.goal = 0 \/ txRing[c] = <<>>)
  <2>1. svc \in SvcRecs
    BY TypedSvc DEF TxInv
  <2>2. CASE SendPage
    BY <1>0, <2>1, <2>2 DEF SendPage, SvcRecs, Serving
  <2>3. CASE PageDone
    BY <1>0, <2>1, <2>3 DEF PageDone, SvcRecs, Serving
  <2> QED BY <2>2, <2>3
<1>3. Within(c)
  BY <1>0, <1>1 DEF Within, Serving, Evented
<1>4. BacklogSound(c) => Recalled(c)'
  BY <1>0, <1>1, <1>2 DEF BacklogSound, Recalled, Datagrams
<1>5. BacklogSound(c) => (writeDone'[c] => KickPending(c)')
  BY <1>1, <1>3, PendingWithin
<1>6. ASSUME txRing'[c] # <<>> PROVE Claimed(c)' \/ Looking(c)'
  <2>1. CASE svc'.step \in {"send", "page"}
    BY <1>2, <2>1 DEF Looking
  <2>2. CASE ~(WSpace(c) > 0)
    <3>1. PICK n \in Nat, f \in Nat : n = Len(sendQueue[c]) /\ f > 0 /\
                                      f = IF c \in Short THEN ShortRoom ELSE SndBuf
      BY TypedConn, Sizes DEF TxInv, Queued
    <3>2. n # 0
      BY <2>2, <3>1 DEF WSpace
    <3>3. sendQueue[c] # <<>>
      BY <3>1, <3>2
    <3> QED BY <1>1, <3>3 DEF Claimed
  <2>3. CASE svc.step = "page" /\ svc.took = 0 /\ svc.goal = 0
    <3>1. svc.goal + svc.took \in SizeGoals
      BY <2>3 DEF TxInv, SvcSound
    <3> QED BY <2>3, <3>1
  <2> QED BY <1>1, <1>2, <1>6, <2>1, <2>2, <2>3
<1> QED BY <1>3, <1>4, <1>5, <1>6, BacklogWithin

LEMMA BacklogDequeues ==
  ASSUME TxInv, BacklogInv, DequeueTxBuf
  PROVE  BacklogInv'
<1>0. PICK c \in Conns : c = svc.conn
  BY DEF TxInv, SvcSound, DequeueTxBuf, Serving
<1>1. /\ UNCHANGED <<readyRing, noSpace, writeDone, commands, kind, open, ready,
                     at, cur, attached, writeQueue, finned>>
      /\ svc.step = "page" /\ txRing[c] # <<>>
      /\ txRing' = [txRing EXCEPT ![c] = Tail(txRing[c])]
      /\ sendQueue' = [sendQueue EXCEPT ![c] = Append(sendQueue[c], Head(txRing[c]))]
  BY <1>0 DEF DequeueTxBuf, env, tcp, appVars
<1>2. svc'.conn = c /\ svc'.caller = svc.caller /\ svc'.step = "page"
  <2>1. svc \in SvcRecs
    BY TypedSvc DEF TxInv
  <2> QED BY <1>0, <1>1, <2>1 DEF DequeueTxBuf, SvcRecs
<1>3. /\ \A d \in Conns : d # c => txRing'[d] = txRing[d] /\ sendQueue'[d] = sendQueue[d]
      /\ sendQueue'[c] # <<>>
  <2>1. TypeRings
    BY TypeGroups DEF TxInv
  <2>2. PICK q \in Seq(Numbers), x \in Numbers : q = sendQueue[c] /\ x = Head(txRing[c])
    BY <1>1, <2>1 DEF TypeRings
  <2>3. Append(q, x) # <<>>
    <3>1. Len(Append(q, x)) = Len(q) + 1 /\ Len(q) \in Nat
      BY AppendProperties, LenProperties
    <3>2. Append(q, x) = <<>> => Len(Append(q, x)) = 0
      OBVIOUS
    <3> QED BY <3>1, <3>2
  <2> QED BY <1>1, <2>1, <2>2, <2>3 DEF TypeRings
<1>4. Within(c)
  BY <1>0, <1>1, <1>3 DEF Within, Serving, Evented
<1>5. BacklogSound(c) => Recalled(c)'
  BY <1>0, <1>1, <1>2 DEF BacklogSound, Recalled, Datagrams, Serving
<1>6. BacklogSound(c) => (writeDone'[c] => KickPending(c)')
  BY <1>1, <1>4, PendingWithin
<1>7. Claimed(c)'
  BY <1>3 DEF Claimed
<1> QED BY <1>4, <1>5, <1>6, <1>7, BacklogWithin

\* The service turns away from the socket.
LEMMA BacklogMarks ==
  ASSUME TxInv, BacklogInv, MarkWritable \/ PostWritable
  PROVE  BacklogInv'
<1>0. PICK c \in Conns : c = svc.conn
  BY DEF TxInv, SvcSound, MarkWritable, PostWritable, Serving
<1>1. /\ UNCHANGED <<txRing, sendQueue, writeDone, commands, kind, open, ready,
                     at, cur, attached, writeQueue, finned>>
      /\ svc.step \in {"mark", "post"} /\ svc.step \in Serving
  BY DEF MarkWritable, PostWritable, env, tcp, appVars, Serving
<1>2. \/ \E keep \in BOOLEAN : Return(keep)
      \/ svc' = [svc EXCEPT !.step = "post"] /\ UNCHANGED noSpace
  <2>1. (Len(readyRing) >= ReadyRingSize - 1) \in BOOLEAN
    OBVIOUS
  <2> QED BY <2>1 DEF MarkWritable, PostWritable
<1>3. BacklogSound(c) => Recalled(c)'
  <2>1. CASE \E keep \in BOOLEAN : Return(keep)
    BY <1>0, <1>1, <2>1, BacklogReturns DEF BacklogSound
  <2>2. CASE svc' = [svc EXCEPT !.step = "post"] /\ UNCHANGED noSpace
    <3>1. svc'.conn = c /\ svc'.caller = svc.caller /\ svc'.step = "post"
      BY <1>0, <2>2, TypedSvc DEF TxInv, SvcRecs
    <3> QED BY <1>0, <1>1, <2>2, <3>1 DEF BacklogSound, Recalled, Datagrams, Serving
  <2> QED BY <1>2, <2>1, <2>2
<1>4. \A d \in Conns : d # c => noSpace'[d] = noSpace[d]
  <2>1. svc.caller \in Callers /\ noSpace \in [Conns -> BOOLEAN]
    BY <1>1, TypeGroups DEF TxInv, SvcSound, TypeFlags
  <2>2. noSpace' = noSpace \/ noSpace' = [noSpace EXCEPT ![c] = TRUE]
    BY <1>0, <1>2, <2>1 DEF Return, Callers
  <2> QED BY <2>1, <2>2
<1>5. ASSUME NEW d \in open, Evented(d) PROVE Evented(d)'
  <2>1. CASE UNCHANGED readyRing
    BY <1>5, <2>1 DEF Evented
  <2>2. CASE readyRing' = Append(readyRing, svc.conn)
    <3>1. readyRing \in Seq(Conns) /\ readyRing' = Append(readyRing, c)
      BY <1>0, <2>2, TypeGroups DEF TxInv, TypeLists
    <3>2. PICK i \in DOMAIN readyRing : readyRing[i] = d
      BY <1>5 DEF Evented
    <3>3. i \in DOMAIN readyRing' /\ readyRing'[i] = d
      BY <3>1, <3>2, AppendProperties, LenProperties
    <3> QED BY <3>3 DEF Evented
  <2> QED BY <2>1, <2>2 DEF MarkWritable, PostWritable
<1>6. Within(c)
  BY <1>0, <1>1, <1>4, <1>5 DEF Within
<1>7. BacklogSound(c) => (writeDone'[c] => KickPending(c)')
  BY <1>1, <1>6, PendingWithin
<1>8. ASSUME BacklogSound(c), c \in open, txRing'[c] # <<>> PROVE Claimed(c)'
  <2>1. Claimed(c)
    BY <1>1, <1>8 DEF BacklogSound, Looking
  <2> QED BY <1>6, <1>8, <2>1, ClaimedWithin
<1> QED BY <1>3, <1>6, <1>7, <1>8, BacklogWithin

\* A burst leaves behind what came after the count, which the application has still to
\* kick for or has kicked for.
LEMMA BacklogBursts ==
  ASSUME TxInv, BacklogInv, SendBurst
  PROVE  BacklogInv'
<1>0. PICK c \in Conns : c = svc.conn
  BY DEF TxInv, SvcSound, SendBurst, Serving
<1>1. /\ UNCHANGED <<readyRing, writeDone, commands, kind, open, ready, at, cur, attached, writeQueue, finned>>
      /\ svc.step = "burst" /\ svc.step \in Serving
  BY DEF SendBurst, env, tcp, appVars, Serving
<1>2. /\ c \in Datagrams /\ svc.goal \in Nat /\ svc.goal <= Len(txRing[c])
      /\ txRing[c] \in Seq(Numbers) /\ sendQueue[c] \in Seq(Numbers)
      /\ svc.caller \in Callers
  BY <1>0, <1>1, TypedSvc, TypedConn DEF TxInv, SvcSound, Waiting
<1>3. PICK room \in Nat : room = WSpace(c)
  <2>1. /\ Queued(c) \in Nat /\ Fill(c) \in Nat /\ Queued(c) <= Fill(c)
    BY <1>2, TypedConn, Sizes DEF TxInv, BoundsSound, Fill
  <2>2. WSpace(c) = Fill(c) - Queued(c)
    BY DEF WSpace, Fill, Queued
  <2> QED BY <2>1, <2>2
<1>4. PICK fits \in Nat : fits = Least({svc.goal, room}) /\ fits <= svc.goal
  <2>1. svc.goal \in Int /\ room \in Int
    BY <1>2, <1>3
  <2>2. Least({svc.goal, room}) \in {svc.goal, room} /\ Least({svc.goal, room}) <= svc.goal
    BY <2>1, Least2, Zenon
  <2> QED BY <1>2, <1>3, <2>2
<1>5. PICK done \in IF SendsMayFail THEN 0 .. fits ELSE {fits} :
        /\ txRing' = [txRing EXCEPT ![c] = SubSeq(txRing[c], svc.goal + 1, Len(txRing[c]))]
        /\ sendQueue' = [sendQueue EXCEPT ![c] = sendQueue[c] \o SubSeq(txRing[c], 1, done)]
        /\ IF done = svc.goal
           THEN svc' = Opportunity(c, svc.caller) /\ UNCHANGED <<noSpace, starved>>
           ELSE Return(FALSE)
  BY <1>0, <1>3, <1>4 DEF SendBurst
<1>6. done \in Nat /\ done <= svc.goal
  BY <1>2, <1>4
<1>7. /\ txRing'[c] = SubSeq(txRing[c], svc.goal + 1, Len(txRing[c]))
      /\ sendQueue'[c] = sendQueue[c] \o SubSeq(txRing[c], 1, done)
      /\ \A d \in Conns : d # c => txRing'[d] = txRing[d] /\ sendQueue'[d] = sendQueue[d]
  BY <1>5, TypeGroups DEF TxInv, TypeRings
<1>8. /\ sendQueue[c] # <<>> => sendQueue'[c] # <<>>
      /\ txRing'[c] # <<>> => Len(txRing[c]) > svc.goal
  <2>1. PICK q \in Seq(Numbers), r \in Seq(Numbers), goal \in Nat, lq \in Nat, lr \in Nat :
          /\ q = sendQueue[c] /\ r = txRing[c] /\ goal = svc.goal /\ done <= goal /\ goal <= Len(r)
          /\ lq = Len(q) /\ lr = Len(r)
    BY <1>2, <1>6, LenProperties
  <2>2. PICK q2, r2 : /\ q2 = sendQueue'[c] /\ q2 = q \o SubSeq(r, 1, done)
                      /\ r2 = txRing'[c] /\ r2 = SubSeq(r, goal + 1, Len(r))
    BY <1>7, <2>1
  <2>3. /\ q2 \in Seq(Numbers) /\ r2 \in Seq(Numbers) /\ Len(q2) \in Nat /\ Len(r2) \in Nat
        /\ Burst(q, Len(q), r, Len(r), q2, Len(q2), r2, Len(r2), goal, done)
    BY <1>6, <2>1, <2>2, BurstTaken
  <2>4. Len(q2) = lq + done /\ lr = Len(r2) + goal
    BY <2>1, <2>3 DEF Burst
  <2>5. q # <<>> => q2 # <<>>
    <3>1. q # <<>> => lq # 0
      BY <2>1, EmptySeq
    <3>2. q2 = <<>> => Len(q2) = 0
      OBVIOUS
    <3> QED BY <1>6, <2>1, <2>4, <3>1, <3>2
  <2>6. r2 # <<>> => lr > goal
    <3>1. r2 # <<>> => Len(r2) # 0
      BY <2>3, EmptySeq
    <3> QED BY <2>1, <2>3, <2>4, <3>1
  <2> QED BY <2>1, <2>2, <2>5, <2>6
<1>9. \A d \in Conns : d # c => noSpace'[d] = noSpace[d]
  <2>1. noSpace \in [Conns -> BOOLEAN]
    BY TypeGroups DEF TxInv, TypeFlags
  <2>2. noSpace' = noSpace \/ noSpace' = [noSpace EXCEPT ![c] = TRUE]
    BY <1>0, <1>2, <1>5 DEF Return, Callers
  <2> QED BY <2>1, <2>2
<1>10. Within(c)
  BY <1>0, <1>1, <1>7, <1>8, <1>9 DEF Within, Evented
<1>11. Recalled(c)'
  BY <1>1, <1>2 DEF Recalled, Datagrams
<1>12. BacklogSound(c) => (writeDone'[c] => KickPending(c)')
  BY <1>1, <1>10, PendingWithin
<1>13. ASSUME BacklogSound(c), c \in open, txRing'[c] # <<>> PROVE Claimed(c)'
  <2>1. Len(txRing[c]) > svc.goal /\ Len(txRing[c]) \in Nat
    BY <1>2, <1>8, <1>13, LenProperties
  <2>2. txRing[c] # <<>> /\ ~(Len(txRing[c]) <= svc.goal)
    BY <1>2, <2>1
  <2>3. Claimed(c)
    BY <1>1, <1>13, <2>2 DEF BacklogSound, Looking
  <2> QED BY <1>10, <1>13, <2>3, ClaimedWithin
<1> QED BY <1>10, <1>11, <1>12, <1>13, BacklogWithin

LEMMA BacklogInit == Init => BacklogInv
<1> SUFFICES ASSUME Init PROVE BacklogInv
  OBVIOUS
<1>1. /\ open = Conns /\ ready = {}
      /\ \A c \in Conns : txRing[c] = <<>> /\ writeDone[c] = FALSE
  BY DEF Init
<1>2. ASSUME NEW c \in Conns \ Accepted PROVE attached[c] /\ c \in writeQueue
  BY DEF Init
<1>3. ASSUME NEW c \in open \ Excused PROVE BacklogSound(c)
  BY <1>1, <1>2 DEF Excused, BacklogSound, Recalled
<1> QED BY <1>1, <1>3 DEF BacklogInv

LEMMA BacklogStep ==
  ASSUME ~KicksMayFail, 0 \notin SizeGoals, TxInv, BacklogInv, [Next]_vars
  PROVE  BacklogInv'
<1>1. CASE ExecCommand
  BY <1>1, BacklogExecutes
<1>2. CASE InCallback
  BY <1>2, BacklogClears, BacklogCounts, BacklogPages, BacklogDequeues, BacklogBursts, BacklogMarks,
     BacklogLoops DEF InCallback
<1>3. CASE MainLoop
  BY <1>3, BacklogLoops
<1>4. CASE App
  BY <1>4, BacklogSelects, BacklogServes, BacklogSends, BacklogKicks, BacklogKickQueued DEF App
<1>5. CASE PoolRunsDry \/ PoolRefilled \/ UNCHANGED vars
  BY <1>5, BacklogEnv
<1>6. ASSUME NEW c \in Conns, ProcessTxReady(c) \/ Ack(c) \/ PeerFin(c) \/ Close(c)
      PROVE  BacklogInv'
  BY <1>6, BacklogCalls, BacklogAcks, BacklogFins, BacklogCloses
<1> QED BY <1>1, <1>2, <1>3, <1>4, <1>5, <1>6 DEF Next

CalledForNoticed == \A c \in open \ Excused : txRing[c] # <<>> => Noticed(c)

\* What an established connection that was not accepted has in tx_ring is noticed,
\* whatever the accepted ones do and whichever peers send their FIN, for any ring and
\* send buffer sizes, however often the stack returns a buffer's space, with a pool
\* that runs dry, sends that fail and connections that are closed, as long as
\* ipaugenblick_socket_kick finds a command buffer and room in command_ring and the
\* MSS lets user_get_buffer take a buffer.
THEOREM TxBacklogStaysNoticed ==
  ASSUME ~KicksMayFail, 0 \notin SizeGoals
  PROVE  Spec => []CalledForNoticed
<1>1. BacklogInv => CalledForNoticed
  <2> SUFFICES ASSUME BacklogInv, NEW c \in open \ Excused, txRing[c] # <<>> PROVE Noticed(c)
    BY DEF CalledForNoticed
  <2>1. Recalled(c) /\ (Claimed(c) \/ Looking(c))
    BY DEF BacklogInv, BacklogSound
  <2> QED BY <2>1 DEF Recalled, Claimed, Looking, Busy, Evented, Kicked, Noticed
<1>2. TxInv /\ BacklogInv /\ [Next]_vars => BacklogInv'
  BY BacklogStep
<1> QED BY <1>1, <1>2, BacklogInit, TxInvariant, PTL DEF Spec

\* BacklogIsNoticed: without accepted sockets, whose SOCK_NOSPACE is never set, no
\* buffer in tx_ring of a connection that is open and whose peer has not sent its FIN
\* is forgotten between ipaugenblick_socket_kick and user_on_transmission_opportunity,
\* under the same conditions.
THEOREM TxBacklogIsNoticed ==
  ASSUME ~KicksMayFail, 0 \notin SizeGoals, "accepted" \notin Kinds
  PROVE  Spec => []BacklogIsNoticed
<1>1. TypeOK /\ CalledForNoticed => BacklogIsNoticed
  <2> SUFFICES ASSUME TypeOK, CalledForNoticed PROVE BacklogIsNoticed
    OBVIOUS
  <2>1. Accepted = {}
    BY TypeGroups DEF TypeFlags, Accepted
  <2> QED BY <2>1 DEF CalledForNoticed, BacklogIsNoticed, Excused
<1> QED BY <1>1, TxTypeCorrect, TxBacklogStaysNoticed, PTL
=============================================================================
