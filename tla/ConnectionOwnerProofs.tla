---------------------- MODULE ConnectionOwnerProofs ----------------------
(* Proofs about ControlPlane: who may use a connection and a socket.  The   *)
(* first part holds with termination signals at any moment, the second is   *)
(* about applications that are not interrupted by one.                      *)
EXTENDS ControlPlaneProofs, FiniteSetTheorems

---------------------------------------------------------------------------
(* One life of a connection: free, taken by an application, named by the    *)
(* command that attaches a socket to it, attached, free again.              *)

\* Application a has taken connection c and not yet sent the command that
\* attaches a socket to it.
Allocates(a, c) == idx[a] = c /\ at[a] \in {"open.cmd", "open.enq", "accept.enq"}

\* Command b attaches a socket to connection c.
Attaches(b, c) == cmd[b].op \in {"OPEN", "SET_RING"} /\ cmd[b].conn = c

\* A connection is in one stage of its life at most, and once in it.  This holds
\* with termination signals too: a stale CLOSE frees a connection only when a
\* socket is attached to it, that is in the last stage.
LifeSound ==
  /\ \A i, j \in DOMAIN freeConns : freeConns[i] = freeConns[j] => i = j
  /\ \A x, y \in Apps, c \in Conns : Allocates(x, c) /\ Allocates(y, c) => x = y
  /\ \A b, e \in Bufs, c \in Conns : Attaches(b, c) /\ Attaches(e, c) => b = e
  /\ \A c \in Conns : Free(c) =>
       /\ \A a \in Apps : ~Allocates(a, c)
       /\ \A b \in Bufs : ~Attaches(b, c)
       /\ satSock[c] = NULL
  /\ \A a \in Apps, c \in Conns : Allocates(a, c) =>
       (\A b \in Bufs : ~Attaches(b, c)) /\ satSock[c] = NULL
  /\ \A b \in Bufs, c \in Conns : Attaches(b, c) => satSock[c] = NULL

\* The commands that attach a socket, or find one through the satelite entry and
\* change it, name a connection.
AttachIsNamed ==
  \A b \in Bufs : cmd[b].op \in {"OPEN", "SET_RING", "LISTEN"} => cmd[b].conn \in Conns

---------------------------------------------------------------------------
(* One life of an accepted socket: carried by one buffer, attached, closed. *)

\* Buffer b is all that names an accepted socket.
Carries(b) == cmd[b].op \in {"ACCEPTED", "SET_RING", "DECLINE"} /\ lost[b] = "no"

\* An accepted connection is in the buffers where the code looks for one.
AcceptedSound ==
  /\ \A b \in Bufs : InRxRing(b) => cmd[b].op = "ACCEPTED"
  /\ \A a \in Apps : at[a] \in {"accept.conn", "accept.enq", "decline.enq"} =>
                       cmd[buf[a]].op = "ACCEPTED"

\* Slot s has one user at most, and holds what the user takes it for.
SlotSound(s) ==
  /\ \A c \in Conns : satSock[c] = s => sockState[s] # "free"
  /\ \A c, d \in Conns : satSock[c] = s /\ satSock[d] = s => c = d
  /\ \A b \in Bufs : Carries(b) /\ cmd[b].sock = s =>
       sockState[s] = "accepted" /\ \A c \in Conns : satSock[c] # s
  /\ \A b, e \in Bufs :
       Carries(b) /\ Carries(e) /\ cmd[b].sock = s /\ cmd[e].sock = s => b = e

\* That is so for the slots no reset has freed under their user.
SocketsSound ==
  /\ \A b \in Bufs : Carries(b) => cmd[b].sock \in Socks
  /\ \A s \in Socks \ reset : SlotSound(s)

LifeInv ==
  /\ TypeInv /\ CommandBufferConservation
  /\ LifeSound /\ AttachIsNamed /\ AcceptedSound /\ SocketsSound

---------------------------------------------------------------------------
(* Ownership, as long as no termination signal arrives.                     *)

Names(b, c) == cmd[b].conn = c
CloseCmd(b, c) == cmd[b].op = "CLOSE" /\ cmd[b].conn = c
Closes(a, c) == idx[a] = c /\ at[a] = "close.enq"

\* Nobody is in sig_handler.
NoExit == \A a \in Apps : at[a] \notin {"exit", "disc.enq"} /\ todo[a] = {}

\* A command that names a connection is on its way to the service, or about to be
\* sent by the owner of the connection.
CommandsOwned ==
  /\ \A a \in Apps : at[a] = "ctl.enq" =>
       idx[a] \in owned[a] /\ cmd[buf[a]].conn = idx[a] /\ cmd[buf[a]].op # "CLOSE"
  /\ \A b \in Bufs : cmd[b].conn # NULL =>
       Pending(b) \/ \E a \in Apps : buf[a] = b /\ at[a] = "ctl.enq"

\* A connection that is free or being taken is named by nothing; an owned one has
\* one owner and no CLOSE; one that is being closed is closed once.
OwnersAt(c) ==
  /\ \A b \in Bufs : Free(c) => ~Names(b, c)
  /\ \A x \in Apps : Free(c) => c \notin owned[x] /\ ~Closes(x, c)
  /\ \A x \in Apps, b \in Bufs : Allocates(x, c) => ~Names(b, c)
  /\ \A x, y \in Apps : Allocates(x, c) => c \notin owned[y] /\ ~Closes(y, c)
  /\ \A x, y \in Apps : c \in owned[x] => ~Closes(y, c) /\ (c \in owned[y] => x = y)
  /\ \A x \in Apps, b \in Bufs : CloseCmd(b, c) => c \notin owned[x] /\ ~Closes(x, c)
  /\ \A x, y \in Apps : Closes(x, c) /\ Closes(y, c) => x = y
  /\ \A b, e \in Bufs : CloseCmd(b, c) /\ CloseCmd(e, c) => b = e

OwnersSound == \A c \in Conns : OwnersAt(c)

\* CLOSE is the last command about its connection.
CloseIsLast ==
  \A c \in Conns :
    /\ \A i, j \in DOMAIN cmdRing :
         i < j /\ CloseCmd(cmdRing[i], c) => ~Names(cmdRing[j], c)
    /\ svcCmd # NULL /\ CloseCmd(svcCmd, c) => \A b \in Bufs \ {svcCmd} : ~Names(b, c)

OwnerInv == NoExit /\ CommandsOwned /\ OwnersSound /\ CloseIsLast

---------------------------------------------------------------------------
(* The stages of a connection's life.                                      *)

\* Taking the first connection of free_connections_ring.
LEMMA FreeTail ==
  ASSUME freeConns \in Seq(Conns), freeConns # <<>>, freeConns' = Tail(freeConns),
         \A i, j \in DOMAIN freeConns : freeConns[i] = freeConns[j] => i = j
  PROVE  /\ Head(freeConns) \in Conns /\ Free(Head(freeConns))
         /\ \A i, j \in DOMAIN freeConns' : freeConns'[i] = freeConns'[j] => i = j
         /\ \A c \in Conns : Free(c)' => Free(c) /\ c # Head(freeConns)
<1> DEFINE q == freeConns
           h == Head(q)
<1>1. /\ h \in Conns /\ h = q[1] /\ 1 \in DOMAIN q
      /\ DOMAIN Tail(q) = 1 .. Len(q) - 1
      /\ \A i \in DOMAIN Tail(q) : i + 1 \in DOMAIN q /\ Tail(q)[i] = q[i + 1]
  BY DequeueFacts
<1>2. Free(h)
  BY <1>1 DEF Free
<1>3. \A i \in DOMAIN Tail(q) : i \in Nat /\ i + 1 # 1
  BY <1>1
<1>4. ASSUME NEW i \in DOMAIN Tail(q), NEW j \in DOMAIN Tail(q), Tail(q)[i] = Tail(q)[j]
      PROVE  i = j
  <2>1. i + 1 = j + 1
    BY <1>1, <1>4
  <2> QED BY <1>3, <2>1
<1>5. ASSUME NEW c \in Conns, NEW i \in DOMAIN Tail(q), Tail(q)[i] = c
      PROVE  Free(c) /\ c # h
  <2>1. i + 1 \in DOMAIN q /\ q[i + 1] = c /\ i + 1 # 1
    BY <1>1, <1>3, <1>5
  <2> HIDE DEF h
  <2> QED BY <1>1, <2>1 DEF Free
<1>6. freeConns' = Tail(q)
  OBVIOUS
<1> HIDE DEF h, q
<1>7. \A c \in Conns : Free(c)' => Free(c) /\ c # h
  BY <1>5, <1>6 DEF Free
<1>8. \A i, j \in DOMAIN freeConns' : freeConns'[i] = freeConns'[j] => i = j
  BY <1>4, <1>6
<1> QED BY <1>1, <1>2, <1>7, <1>8 DEF h, q

\* Putting a connection back.
LEMMA FreeAppend ==
  ASSUME freeConns \in Seq(Conns), NEW c \in Conns, ~Free(c),
         freeConns' = freeConns \/ freeConns' = Append(freeConns, c),
         \A i, j \in DOMAIN freeConns : freeConns[i] = freeConns[j] => i = j
  PROVE  /\ \A i, j \in DOMAIN freeConns' : freeConns'[i] = freeConns'[j] => i = j
         /\ \A d \in Conns : Free(d)' => Free(d) \/ d = c
<1>1. CASE freeConns' = freeConns
  BY <1>1 DEF Free
<1>2. CASE freeConns' = Append(freeConns, c)
  <2>1. /\ DOMAIN freeConns' = 1 .. Len(freeConns) + 1 /\ Len(freeConns) \in Nat
        /\ DOMAIN freeConns = 1 .. Len(freeConns)
        /\ freeConns'[Len(freeConns) + 1] = c
        /\ \A i \in DOMAIN freeConns : freeConns'[i] = freeConns[i]
    BY <1>2, EnqueueFacts
  <2>2. \A i \in DOMAIN freeConns : freeConns[i] # c
    BY DEF Free
  <2>3. \A i \in DOMAIN freeConns' : i = Len(freeConns) + 1 \/ i \in DOMAIN freeConns
    BY <2>1
  <2>4. \A i, j \in DOMAIN freeConns' : freeConns'[i] = freeConns'[j] => i = j
    BY <2>1, <2>2, <2>3
  <2>5. \A d \in Conns : Free(d)' => Free(d) \/ d = c
    BY <2>1, <2>3 DEF Free
  <2> QED BY <2>4, <2>5
<1> QED BY <1>1, <1>2

\* Nothing new is taken or about to be attached.
LEMMA LifeShrinks ==
  ASSUME LifeSound, UNCHANGED <<freeConns, satSock>>,
         \A a \in Apps, c \in Conns : Allocates(a, c)' => Allocates(a, c),
         \A b \in Bufs, c \in Conns : Attaches(b, c)' => Attaches(b, c)
  PROVE  LifeSound'
<1>1. \A c \in Conns : Free(c)' <=> Free(c)
  BY DEF Free
<1> QED BY <1>1 DEF LifeSound

\* An application takes the first free connection.
LEMMA LifeTakes ==
  ASSUME LifeSound, freeConns \in Seq(Conns), freeConns # <<>>, freeConns' = Tail(freeConns),
         satSock' = satSock, NEW a \in Apps,
         \A x \in Apps, d \in Conns :
           Allocates(x, d)' => (x # a /\ Allocates(x, d)) \/ (x = a /\ d = Head(freeConns)),
         \A b \in Bufs, d \in Conns : Attaches(b, d)' => Attaches(b, d)
  PROVE  LifeSound'
<1>1. /\ Head(freeConns) \in Conns /\ Free(Head(freeConns))
      /\ \A i, j \in DOMAIN freeConns' : freeConns'[i] = freeConns'[j] => i = j
      /\ \A c \in Conns : Free(c)' => Free(c) /\ c # Head(freeConns)
  BY FreeTail DEF LifeSound
<1> DEFINE h == Head(freeConns)
<1> HIDE DEF h
<1>2. /\ h \in Conns /\ \A x \in Apps : ~Allocates(x, h)
      /\ \A b \in Bufs : ~Attaches(b, h)
      /\ satSock[h] = NULL
  BY <1>1 DEF LifeSound, h
<1>3. \A x \in Apps, d \in Conns :
        Allocates(x, d)' => (x # a /\ Allocates(x, d)) \/ (x = a /\ d = h)
  BY DEF h
<1>4. \A c \in Conns : Free(c)' => Free(c) /\ c # h
  BY <1>1 DEF h
<1>5. \A x, y \in Apps, c \in Conns : Allocates(x, c)' /\ Allocates(y, c)' => x = y
  BY <1>2, <1>3 DEF LifeSound
<1>6. \A c \in Conns : Free(c)' =>
       /\ \A x \in Apps : ~Allocates(x, c)'
       /\ \A b \in Bufs : ~Attaches(b, c)'
       /\ satSock'[c] = NULL
  BY <1>3, <1>4 DEF LifeSound
<1>7. \A x \in Apps, c \in Conns : Allocates(x, c)' =>
       (\A b \in Bufs : ~Attaches(b, c)') /\ satSock'[c] = NULL
  BY <1>2, <1>3 DEF LifeSound
<1>8. /\ \A b, e \in Bufs, c \in Conns : Attaches(b, c)' /\ Attaches(e, c)' => b = e
      /\ \A b \in Bufs, c \in Conns : Attaches(b, c)' => satSock'[c] = NULL
  BY DEF LifeSound
<1> QED BY <1>1, <1>5, <1>6, <1>7, <1>8 DEF LifeSound

\* The command that attaches a socket to the connection is sent, or given up.
LEMMA LifeSends ==
  ASSUME LifeSound, UNCHANGED <<freeConns, satSock>>, NEW a \in Apps, NEW f \in Bufs,
         NEW k \in Conns, Allocates(a, k),
         \A x \in Apps, d \in Conns : Allocates(x, d)' => x # a /\ Allocates(x, d),
         \A b \in Bufs, d \in Conns : Attaches(b, d)' => Attaches(b, d) \/ (b = f /\ d = k)
  PROVE  LifeSound'
<1>1. \A c \in Conns : Free(c)' <=> Free(c)
  BY DEF Free
<1>2. \A b \in Bufs : ~Attaches(b, k)
  BY DEF LifeSound
<1>3. satSock[k] = NULL /\ ~Free(k) /\ \A x \in Apps : ~Allocates(x, k)'
  BY DEF LifeSound
<1>4. \A b, e \in Bufs, c \in Conns : Attaches(b, c)' /\ Attaches(e, c)' => b = e
  BY <1>2 DEF LifeSound
<1>5. \A c \in Conns : Free(c)' =>
       /\ \A x \in Apps : ~Allocates(x, c)'
       /\ \A b \in Bufs : ~Attaches(b, c)'
       /\ satSock'[c] = NULL
  BY <1>1, <1>3 DEF LifeSound
<1>6. \A x \in Apps, c \in Conns : Allocates(x, c)' =>
       (\A b \in Bufs : ~Attaches(b, c)') /\ satSock'[c] = NULL
  BY <1>3 DEF LifeSound
<1>7. \A b \in Bufs, c \in Conns : Attaches(b, c)' => satSock'[c] = NULL
  BY <1>3 DEF LifeSound
<1>8. /\ \A i, j \in DOMAIN freeConns' : freeConns'[i] = freeConns'[j] => i = j
      /\ \A x, y \in Apps, c \in Conns : Allocates(x, c)' /\ Allocates(y, c)' => x = y
  BY DEF LifeSound
<1> QED BY <1>4, <1>5, <1>6, <1>7, <1>8 DEF LifeSound

\* The service executes the command and attaches a socket, or could not create it.
LEMMA LifeAttaches ==
  ASSUME LifeSound, satSock \in [Conns -> Socks \cup {NULL}], freeConns' = freeConns,
         NEW f \in Bufs, NEW k \in Conns, Attaches(f, k), NEW s,
         satSock' = satSock \/ satSock' = [satSock EXCEPT ![k] = s],
         \A x \in Apps, d \in Conns : Allocates(x, d)' => Allocates(x, d),
         \A b \in Bufs, d \in Conns : Attaches(b, d)' => Attaches(b, d) /\ b # f
  PROVE  LifeSound'
<1>1. \A c \in Conns : Free(c)' <=> Free(c)
  BY DEF Free
<1>2. ~Free(k) /\ (\A x \in Apps : ~Allocates(x, k)) /\ \A b \in Bufs : ~Attaches(b, k)'
  BY DEF LifeSound
<1>3. \A c \in Conns : c = k \/ satSock'[c] = satSock[c]
  OBVIOUS
<1>4. \A c \in Conns : Free(c)' =>
       /\ \A x \in Apps : ~Allocates(x, c)'
       /\ \A b \in Bufs : ~Attaches(b, c)'
       /\ satSock'[c] = NULL
  BY <1>1, <1>2, <1>3 DEF LifeSound
<1>5. \A x \in Apps, c \in Conns : Allocates(x, c)' =>
       (\A b \in Bufs : ~Attaches(b, c)') /\ satSock'[c] = NULL
  BY <1>2, <1>3 DEF LifeSound
<1>6. \A b \in Bufs, c \in Conns : Attaches(b, c)' => satSock'[c] = NULL
  BY <1>2, <1>3 DEF LifeSound
<1>7. /\ \A i, j \in DOMAIN freeConns' : freeConns'[i] = freeConns'[j] => i = j
      /\ \A x, y \in Apps, c \in Conns : Allocates(x, c)' /\ Allocates(y, c)' => x = y
      /\ \A b, e \in Bufs, c \in Conns : Attaches(b, c)' /\ Attaches(e, c)' => b = e
  BY DEF LifeSound
<1> QED BY <1>4, <1>5, <1>6, <1>7 DEF LifeSound

\* The service detaches the socket and puts the connection back.
LEMMA LifeEnds ==
  ASSUME LifeSound, satSock \in [Conns -> Socks \cup {NULL}], freeConns \in Seq(Conns),
         NEW k \in Conns, satSock[k] # NULL, satSock' = [satSock EXCEPT ![k] = NULL],
         freeConns' = freeConns \/ freeConns' = Append(freeConns, k),
         \A x \in Apps, d \in Conns : Allocates(x, d)' => Allocates(x, d),
         \A b \in Bufs, d \in Conns : Attaches(b, d)' => Attaches(b, d)
  PROVE  LifeSound'
<1>1. ~Free(k) /\ (\A x \in Apps : ~Allocates(x, k)) /\ \A b \in Bufs : ~Attaches(b, k)
  BY DEF LifeSound
<1>2. /\ \A i, j \in DOMAIN freeConns' : freeConns'[i] = freeConns'[j] => i = j
      /\ \A d \in Conns : Free(d)' => Free(d) \/ d = k
  BY <1>1, FreeAppend DEF LifeSound
<1>3. satSock'[k] = NULL /\ \A c \in Conns : c = k \/ satSock'[c] = satSock[c]
  OBVIOUS
<1>4. \A c \in Conns : Free(c)' =>
       /\ \A x \in Apps : ~Allocates(x, c)'
       /\ \A b \in Bufs : ~Attaches(b, c)'
       /\ satSock'[c] = NULL
  BY <1>1, <1>2, <1>3 DEF LifeSound
<1>5. \A x \in Apps, c \in Conns : Allocates(x, c)' =>
       (\A b \in Bufs : ~Attaches(b, c)') /\ satSock'[c] = NULL
  BY <1>3 DEF LifeSound
<1>6. \A b \in Bufs, c \in Conns : Attaches(b, c)' => satSock'[c] = NULL
  BY <1>3 DEF LifeSound
<1>7. /\ \A x, y \in Apps, c \in Conns : Allocates(x, c)' /\ Allocates(y, c)' => x = y
      /\ \A b, e \in Bufs, c \in Conns : Attaches(b, c)' /\ Attaches(e, c)' => b = e
  BY DEF LifeSound
<1> QED BY <1>2, <1>4, <1>5, <1>6, <1>7 DEF LifeSound

---------------------------------------------------------------------------
(* What a step of an application leaves alone.                             *)

\* Writing command k into buffer b.
LEMMA WriteFacts ==
  ASSUME PoolTypes, NEW b \in Bufs, NEW k \in Cmds, cmd' = [cmd EXCEPT ![b] = k]
  PROVE  cmd'[b] = k /\ \A e \in Bufs \ {b} : cmd'[e] = cmd[e]
  BY DEF PoolTypes

\* Goto concerns one application.
LEMMA GotoFacts ==
  ASSUME CallTypes, NEW a \in Apps, NEW s, NEW b, NEW c, Goto(a, s, b, c)
  PROVE  /\ at'[a] = s /\ buf'[a] = b /\ idx'[a] = c
         /\ \A x \in Apps \ {a} : at'[x] = at[x] /\ buf'[x] = buf[x] /\ idx'[x] = idx[x]
  BY DEF CallTypes, Goto

\* Sending a command writes the buffer, loses none and leaves the rest.
LEMMA SendFacts ==
  ASSUME PoolTypes, NEW b \in Bufs, NEW k \in Cmds,
         EnqueueCommandBuf(b, k) \/ EnqueueFailsAndFree(b)
  PROVE  /\ cmd'[b] = k \/ cmd'[b] = Blank
         /\ \A e \in Bufs \ {b} : cmd'[e] = cmd[e]
         /\ lost' = lost
<1>1. CASE EnqueueCommandBuf(b, k)
  BY <1>1, WriteFacts DEF EnqueueCommandBuf
<1>2. CASE EnqueueFailsAndFree(b)
  BY <1>2, WriteFacts, CommandFacts DEF EnqueueFailsAndFree
<1> QED BY <1>1, <1>2

\* A step that touches slot s only leaves the others sound.
LEMMA OtherSlots ==
  ASSUME SocketsSound, NEW s \in Socks,
         \A t \in Socks \ {s} : sockState'[t] = sockState[t] /\ (t \in reset' <=> t \in reset),
         \A c \in Conns : satSock'[c] = satSock[c] \/ satSock'[c] \in {s, NULL},
         \A b \in Bufs : Carries(b)' =>
           cmd'[b].sock = s \/ (Carries(b) /\ cmd'[b].sock = cmd[b].sock),
         s \notin reset' => SlotSound(s)'
  PROVE  SocketsSound'
<1>1. \A b \in Bufs : Carries(b)' => cmd'[b].sock \in Socks
  BY DEF SocketsSound
<1>2. ASSUME NEW t \in Socks \ {s}, t \notin reset' PROVE SlotSound(t)'
  <2>1. SlotSound(t) /\ t # NULL /\ t # s
    BY <1>2, NullFacts DEF SocketsSound
  <2>2. \A c \in Conns : satSock'[c] = t => satSock[c] = t
    BY <2>1
  <2>3. \A b \in Bufs : Carries(b)' /\ cmd'[b].sock = t => Carries(b) /\ cmd[b].sock = t
    BY <2>1
  <2>4. sockState'[t] = sockState[t]
    OBVIOUS
  <2> QED BY <2>1, <2>2, <2>3, <2>4 DEF SlotSound
<1> QED BY <1>1, <1>2 DEF SocketsSound

\* A step that touches no slot leaves all sound.
LEMMA SlotsKept ==
  ASSUME SocketsSound, UNCHANGED <<satSock, sockState, reset>>,
         \A b \in Bufs : Carries(b)' => Carries(b) /\ cmd'[b].sock = cmd[b].sock
  PROVE  SocketsSound'
BY DEF SocketsSound, SlotSound

\* A slot sock_alloc takes out of the set reset is named by nothing.
LEMMA AllocatesUnnamed ==
  ASSUME SocketsSound, NEW s \in Socks, NEW kind, SockAlloc(s, kind), s \notin reset'
  PROVE  /\ \A d \in Conns : satSock[d] # s
         /\ \A b \in Bufs : Carries(b) => cmd[b].sock # s
<1>1. CASE Named(s)
  <2>1. SlotSound(s) /\ sockState[s] = "free"
    BY <1>1 DEF SockAlloc, SocketsSound
  <2> QED BY <2>1 DEF SlotSound
<1>2. CASE ~Named(s)
  BY <1>2 DEF Named, Carries
<1> QED BY <1>1, <1>2

\* A step of application a changes nothing of the others, writes no command but in
\* the buffer it holds, and takes buffers out of the rx_rings only.
AppFrame(a) ==
  /\ UNCHANGED <<satSock, sockState, reset, svcCmd, up>>
  /\ \A x \in Apps \ {a} : at'[x] = at[x] /\ buf'[x] = buf[x] /\ idx'[x] = idx[x]
  /\ \A e \in Bufs : e # buf[a] /\ e # buf'[a] => cmd'[e] = cmd[e]
  /\ \A e \in Bufs : lost'[e] = "no" => lost[e] = "no"
  /\ \A e \in Bufs : InRxRing(e)' => InRxRing(e)

LEMMA AppStepFrame ==
  ASSUME TypeInv, CommandBufferConservation, NEW a \in Apps, AppStep(a)
  PROVE  AppFrame(a)
<1> USE DEF TypeInv
<1>1. ASSUME UNCHANGED <<satSock, sockState, reset, svcCmd, up, cmd, lost, rxRing>>,
             NEW s, NEW b, NEW c, Goto(a, s, b, c)
      PROVE  AppFrame(a)
  BY <1>1, GotoFacts DEF AppFrame, InRxRing
<1>2. ASSUME UNCHANGED <<satSock, sockState, reset, svcCmd, up, rxRing>>, NEW k \in Cmds,
             NEW s, NEW c, Goto(a, s, NULL, c), buf[a] \in Bufs,
             EnqueueCommandBuf(buf[a], k) \/ EnqueueFailsAndFree(buf[a])
      PROVE  AppFrame(a)
  <2>1. lost' = lost /\ \A e \in Bufs \ {buf[a]} : cmd'[e] = cmd[e]
    BY <1>2, SendFacts
  <2> QED BY <1>2, <2>1, GotoFacts DEF AppFrame, InRxRing
<1>3. buf[a] \in Bufs \/ buf[a] = NULL
  BY DEF CallTypes
<1>4. CASE OpenTakeConnection(a)
  BY <1>1, <1>4 DEF OpenTakeConnection
<1>5. CASE OpenTakeCommand(a)
  BY <1>1, <1>5 DEF OpenTakeCommand, Return
<1>6. CASE OpenEnqueue(a)
  <2>1. buf[a] \in Bufs /\ idx[a] \in Conns
    BY <1>6 DEF OpenEnqueue, HoldsAt, CallTypes
  <2>2. Command("OPEN", idx[a], NULL) \in Cmds
    BY <2>1, CommandFacts DEF Ops
  <2> QED BY <1>2, <1>6, <2>1, <2>2 DEF OpenEnqueue, Return
<1>7. CASE CtlTakeCommand(a)
  <2>1. PICK c \in owned[a], b \in Bufs, op \in CtlOps :
              cmd' = [cmd EXCEPT ![b] = Command(op, c, NULL)] /\ Goto(a, "ctl.enq", b, c)
    BY <1>7 DEF CtlTakeCommand
  <2>2. Command(op, c, NULL) \in Cmds
    BY CommandFacts, ControlPlaneAssumption DEF Ops, DescriptorTypes
  <2>3. buf'[a] = b /\ \A e \in Bufs \ {b} : cmd'[e] = cmd[e]
    BY <2>1, <2>2, WriteFacts, GotoFacts
  <2>4. UNCHANGED <<satSock, sockState, reset, svcCmd, up, rxRing, lost>>
    BY <1>7 DEF CtlTakeCommand
  <2> QED BY <2>1, <2>3, <2>4, GotoFacts DEF AppFrame, InRxRing
<1>8. CASE CtlEnqueue(a)
  <2>1. buf[a] \in Bufs /\ cmd[buf[a]] \in Cmds
    BY <1>8 DEF CtlEnqueue, HoldsAt, CallTypes, PoolTypes
  <2>2. UNCHANGED <<satSock, sockState, reset, svcCmd, up, rxRing>> /\ Goto(a, "idle", NULL, NULL)
    BY <1>8 DEF CtlEnqueue, Return
  <2>3. CASE EnqueueCommandBuf(buf[a], cmd[buf[a]]) \/ EnqueueFailsAndFree(buf[a])
    BY <1>2, <2>1, <2>2, <2>3
  <2>4. CASE lost' = [lost EXCEPT ![buf[a]] = "rxkick"] /\ cmd' = [cmd EXCEPT ![buf[a]] = Blank]
    <3>1. \A e \in Bufs \ {buf[a]} : cmd'[e] = cmd[e]
      BY <2>1, <2>4, WriteFacts, CommandFacts
    <3>2. \A e \in Bufs : lost'[e] = "no" => lost[e] = "no"
      BY <2>4 DEF PoolTypes
    <3> QED BY <2>2, <3>1, <3>2, GotoFacts DEF AppFrame, InRxRing
  <2> QED BY <1>8, <2>3, <2>4 DEF CtlEnqueue
<1>9. CASE AcceptDequeue(a)
  <2>1. PICK c \in listens[a] : /\ rxRing[c] # <<>>
                                /\ rxRing' = [rxRing EXCEPT ![c] = Tail(@)]
                                /\ Goto(a, "accept.conn", Head(rxRing[c]), NULL)
    BY <1>9 DEF AcceptDequeue
  <2>2. c \in Conns /\ rxRing[c] \in Seq(Bufs)
    BY DEF PoolTypes, DescriptorTypes
  <2>3. \A i \in DOMAIN Tail(rxRing[c]) :
          i + 1 \in DOMAIN rxRing[c] /\ Tail(rxRing[c])[i] = rxRing[c][i + 1]
    BY <2>1, <2>2, DequeueFacts
  <2>4. rxRing'[c] = Tail(rxRing[c]) /\ \A d \in Conns \ {c} : rxRing'[d] = rxRing[d]
    BY <2>1, <2>2 DEF PoolTypes
  <2>5. ASSUME NEW e \in Bufs, InRxRing(e)' PROVE InRxRing(e)
    <3>1. PICK d \in Conns : \E i \in DOMAIN rxRing'[d] : rxRing'[d][i] = e
      BY <2>5 DEF InRxRing
    <3>2. CASE d = c
      BY <2>2, <2>3, <2>4, <3>1, <3>2 DEF InRxRing
    <3>3. CASE d # c
      BY <2>4, <3>1, <3>3 DEF InRxRing
    <3> QED BY <3>2, <3>3
  <2>6. UNCHANGED <<satSock, sockState, reset, svcCmd, up, cmd, lost>>
    BY <1>9 DEF AcceptDequeue
  <2> QED BY <2>1, <2>5, <2>6, GotoFacts DEF AppFrame
<1>10. CASE AcceptTakeConnection(a)
  BY <1>1, <1>10 DEF AcceptTakeConnection
<1>11. CASE AcceptEnqueue(a)
  <2>1. buf[a] \in Bufs /\ idx[a] \in Conns /\ cmd[buf[a]] \in Cmds
    BY <1>11 DEF AcceptEnqueue, HoldsAt, CallTypes, PoolTypes
  <2>2. Command("SET_RING", idx[a], cmd[buf[a]].sock) \in Cmds
    BY <2>1, CommandFacts DEF Ops
  <2> QED BY <1>2, <1>11, <2>1, <2>2 DEF AcceptEnqueue, Return
<1>12. CASE DeclineEnqueue(a)
  <2>1. buf[a] \in Bufs /\ cmd[buf[a]] \in Cmds
    BY <1>12 DEF DeclineEnqueue, HoldsAt, CallTypes, PoolTypes
  <2>2. Command("DECLINE", NULL, cmd[buf[a]].sock) \in Cmds
    BY <2>1, CommandFacts DEF Ops
  <2> QED BY <1>2, <1>12, <2>1, <2>2 DEF DeclineEnqueue, Return
<1>13. CASE Close(a)
  BY <1>1, <1>13 DEF Close, CloseTakeCommand, Return
<1>14. CASE CloseEnqueue(a)
  <2>1. buf[a] \in Bufs /\ idx[a] \in Conns
    BY <1>14 DEF CloseEnqueue, HoldsAt, CallTypes
  <2>2. Command("CLOSE", idx[a], NULL) \in Cmds
    BY <2>1, CommandFacts DEF Ops
  <2> QED BY <1>2, <1>14, <2>1, <2>2 DEF CloseEnqueue
<1>15. CASE CloseFlush(a)
  <2>1. idx[a] \in Conns /\ FlushRx(idx[a])
    BY <1>15 DEF CloseFlush, HoldsAt, CallTypes
  <2>2. \A e \in Bufs : (InRxRing(e)' => InRxRing(e)) /\ (lost'[e] = "no" => lost[e] = "no")
    BY <2>1, FlushFacts DEF CommandBufferConservation
  <2>3. PICK s : Goto(a, s, NULL, NULL)
    BY <1>15 DEF CloseFlush, Return
  <2>4. UNCHANGED <<satSock, sockState, reset, svcCmd, up, cmd>>
    BY <1>15 DEF CloseFlush
  <2> QED BY <2>2, <2>3, <2>4, GotoFacts DEF AppFrame
<1>16. CASE Signal(a)
  <2>1. UNCHANGED <<satSock, sockState, reset, svcCmd, up, rxRing>> /\ Goto(a, "exit", NULL, NULL)
    BY <1>16 DEF Signal, Return
  <2>2. CASE buf[a] = NULL
    BY <1>1, <1>16, <2>1, <2>2 DEF Signal
  <2>3. CASE buf[a] # NULL
    <3>1. lost' = [lost EXCEPT ![buf[a]] = "died"] /\ cmd' = [cmd EXCEPT ![buf[a]] = Blank]
      BY <1>16, <2>3 DEF Signal
    <3>2. \A e \in Bufs \ {buf[a]} : cmd'[e] = cmd[e]
      BY <1>3, <2>3, <3>1, WriteFacts, CommandFacts
    <3>3. \A e \in Bufs : lost'[e] = "no" => lost[e] = "no"
      BY <3>1 DEF PoolTypes
    <3> QED BY <2>1, <3>2, <3>3, GotoFacts DEF AppFrame, InRxRing
  <2> QED BY <2>2, <2>3
<1>17. CASE ExitClose(a)
  BY <1>1, <1>17 DEF ExitClose, CloseTakeCommand, Return
<1>18. CASE ExitDisconnect(a)
  BY <1>1, <1>18 DEF ExitDisconnect, Return
<1>19. CASE DisconnectEnqueue(a)
  <2>1. buf[a] \in Bufs
    BY <1>19 DEF DisconnectEnqueue, HoldsAt, CallTypes
  <2>2. Command("DISC", NULL, NULL) \in Cmds
    BY CommandFacts DEF Ops
  <2> QED BY <1>2, <1>19, <2>1, <2>2 DEF DisconnectEnqueue, Return
<1> QED
  BY <1>4, <1>5, <1>6, <1>7, <1>8, <1>9, <1>10, <1>11, <1>12, <1>13, <1>14, <1>15,
     <1>16, <1>17, <1>18, <1>19 DEF AppStep

\* The buffers of the other applications and of the rx_rings are not written.
LEMMA OthersKept ==
  ASSUME TypeInv, CommandBufferConservation, CommandBufferConservation', NEW a \in Apps,
         AppFrame(a)
  PROVE  /\ \A x \in Apps \ {a} : buf[x] \in Bufs => cmd'[buf[x]] = cmd[buf[x]]
         /\ \A e \in Bufs : InRxRing(e)' => cmd'[e] = cmd[e]
<1>1. ASSUME NEW x \in Apps \ {a}, buf[x] \in Bufs PROVE cmd'[buf[x]] = cmd[buf[x]]
  <2>1. buf'[x] = buf[x]
    BY DEF AppFrame
  <2>2. buf[x] # buf[a] /\ buf[x] # buf'[a]
    BY <1>1, <2>1, NullFacts DEF CommandBufferConservation, OneHolder
  <2> QED BY <1>1, <2>2 DEF AppFrame
<1>2. ASSUME NEW e \in Bufs, InRxRing(e)' PROVE cmd'[e] = cmd[e]
  <2>1. InRxRing(e)
    BY <1>2 DEF AppFrame
  <2>2. ~Held(e)
    BY <2>1, Exclusive DEF CommandBufferConservation
  <2>3. ~Held(e)'
    <3>1. SinglePlace'
      BY DEF CommandBufferConservation
    <3>2. PICK p \in Places : \A q \in Places : IsAt(e, q)' <=> q = p
      BY <3>1 DEF SinglePlace
    <3>3. /\ IsAt(e, "rx")' <=> InRxRing(e)'
          /\ IsAt(e, "app")' <=> Held(e)'
      BY DEF IsAt
    <3> QED BY <1>2, <3>2, <3>3 DEF Places
  <2>4. e # buf[a] /\ e # buf'[a]
    BY <2>2, <2>3 DEF Held
  <2> QED BY <2>4 DEF AppFrame
<1> QED BY <1>1, <1>2

\* What application a may write into buffer e: a command about no socket, or the
\* command its open or accept ends with.
AppWrites(a, e) ==
  \/ cmd'[e] = cmd[e]
  \/ /\ cmd'[e].op \notin {"OPEN", "SET_RING", "ACCEPTED", "DECLINE"}
     /\ cmd'[e].op = "LISTEN" => cmd'[e].conn \in Conns
  \/ e = buf[a] /\ at[a] = "open.enq" /\ cmd'[e] = Command("OPEN", idx[a], NULL)
  \/ e = buf[a] /\ at[a] = "accept.enq" /\ cmd'[e] = Command("SET_RING", idx[a], cmd[e].sock)
  \/ e = buf[a] /\ at[a] = "decline.enq" /\ cmd'[e] = Command("DECLINE", NULL, cmd[e].sock)

\* Where application a stands with a connection it takes, and with an accepted one.
AppTakes(a) ==
  /\ \/ /\ freeConns' = freeConns
        /\ \A d \in Conns : Allocates(a, d)' => Allocates(a, d) /\ at[a] = "open.cmd"
     \/ /\ freeConns # <<>> /\ freeConns' = Tail(freeConns)
        /\ at[a] \notin {"open.enq", "accept.enq"}
        /\ \A d \in Conns : Allocates(a, d)' => d = Head(freeConns)
  /\ at'[a] \in {"accept.conn", "accept.enq", "decline.enq"} =>
       /\ buf'[a] \in Bufs /\ cmd' = cmd
       /\ \/ at[a] = "accept.conn" /\ buf'[a] = buf[a]
          \/ InRxRing(buf'[a])

LEMMA AppStepWrites ==
  ASSUME TypeInv, NEW a \in Apps, AppStep(a), AppFrame(a)
  PROVE  AppTakes(a) /\ \A e \in Bufs : AppWrites(a, e)
<1> USE DEF TypeInv
<1> DEFINE Good == AppTakes(a) /\ \A e \in Bufs : AppWrites(a, e)
<1>0. Blank.op = "NONE" /\ \A op, c, s : /\ Command(op, c, s).op = op
                                         /\ Command(op, c, s).conn = c
                                         /\ Command(op, c, s).sock = s
  BY DEF Blank, Command
\* A step to a place outside open and accept that writes nothing.
<1>1. ASSUME UNCHANGED <<freeConns, cmd>>, NEW s, NEW b, NEW c, Goto(a, s, b, c),
             s \notin {"open.cmd", "open.enq", "accept.conn", "accept.enq", "decline.enq"}
      PROVE  Good
  BY <1>1, GotoFacts DEF AppTakes, AppWrites, Allocates
\* A step that sends a command.
<1>2. ASSUME freeConns' = freeConns, NEW k \in Cmds, NEW s, NEW c, Goto(a, s, NULL, c),
             s \in {"idle", "close.flush", "dead"}, buf[a] \in Bufs,
             EnqueueCommandBuf(buf[a], k) \/ EnqueueFailsAndFree(buf[a]),
             \/ k = cmd[buf[a]]
             \/ k.op \notin {"OPEN", "SET_RING", "ACCEPTED", "DECLINE", "LISTEN"}
             \/ at[a] = "open.enq" /\ k = Command("OPEN", idx[a], NULL)
             \/ at[a] = "accept.enq" /\ k = Command("SET_RING", idx[a], cmd[buf[a]].sock)
             \/ at[a] = "decline.enq" /\ k = Command("DECLINE", NULL, cmd[buf[a]].sock)
      PROVE  Good
  <2>1. /\ cmd'[buf[a]] = k \/ cmd'[buf[a]] = Blank
        /\ \A e \in Bufs \ {buf[a]} : cmd'[e] = cmd[e]
    BY <1>2, SendFacts
  <2>2. \A e \in Bufs : AppWrites(a, e)
    BY <1>0, <1>2, <2>1 DEF AppWrites
  <2>3. at'[a] = s
    BY <1>2, GotoFacts
  <2>4. AppTakes(a)
    BY <1>2, <2>3 DEF AppTakes, Allocates
  <2> QED BY <2>2, <2>4
<1>4. CASE OpenTakeConnection(a)
  <2>1. /\ freeConns # <<>> /\ freeConns' = Tail(freeConns) /\ cmd' = cmd
        /\ at[a] = "idle" /\ at'[a] = "open.cmd" /\ idx'[a] = Head(freeConns)
    BY <1>4, GotoFacts DEF OpenTakeConnection
  <2> QED BY <2>1 DEF AppTakes, AppWrites, Allocates
<1>5. CASE OpenTakeCommand(a)
  <2>1. CASE Return(a, "idle")
    BY <1>1, <1>5, <2>1 DEF OpenTakeCommand, Return
  <2>2. ASSUME NEW b \in Bufs, Goto(a, "open.enq", b, idx[a])
        PROVE  Good
    <3>1. at[a] = "open.cmd" /\ at'[a] = "open.enq" /\ idx'[a] = idx[a]
          /\ UNCHANGED <<freeConns, cmd>>
      BY <1>5, <2>2, GotoFacts DEF OpenTakeCommand
    <3> QED BY <3>1 DEF AppTakes, AppWrites, Allocates
  <2> QED BY <1>5, <2>1, <2>2 DEF OpenTakeCommand
<1>6. CASE OpenEnqueue(a)
  <2>1. buf[a] \in Bufs /\ idx[a] \in Conns
    BY <1>6 DEF OpenEnqueue, HoldsAt, CallTypes
  <2>2. Command("OPEN", idx[a], NULL) \in Cmds
    BY <2>1, CommandFacts DEF Ops
  <2> QED BY <1>2, <1>6, <2>1, <2>2 DEF OpenEnqueue, Return
<1>7. CASE CtlTakeCommand(a)
  <2>1. PICK c \in owned[a], b \in Bufs, op \in CtlOps :
              cmd' = [cmd EXCEPT ![b] = Command(op, c, NULL)] /\ Goto(a, "ctl.enq", b, c)
    BY <1>7 DEF CtlTakeCommand
  <2>2. /\ Command(op, c, NULL) \in Cmds /\ c \in Conns
        /\ op \notin {"OPEN", "SET_RING", "ACCEPTED", "DECLINE"}
    BY CommandFacts, ControlPlaneAssumption DEF Ops, DescriptorTypes
  <2>3. cmd'[b] = Command(op, c, NULL) /\ \A e \in Bufs \ {b} : cmd'[e] = cmd[e]
    BY <2>1, <2>2, WriteFacts
  <2>4. at'[a] = "ctl.enq" /\ freeConns' = freeConns
    BY <1>7, <2>1, GotoFacts DEF CtlTakeCommand
  <2>5. \A e \in Bufs : AppWrites(a, e)
    BY <1>0, <2>2, <2>3 DEF AppWrites
  <2> QED BY <2>4, <2>5 DEF AppTakes, Allocates
<1>8. CASE CtlEnqueue(a)
  <2>1. buf[a] \in Bufs /\ cmd[buf[a]] \in Cmds
    BY <1>8 DEF CtlEnqueue, HoldsAt, CallTypes, PoolTypes
  <2>2. freeConns' = freeConns /\ Goto(a, "idle", NULL, NULL)
    BY <1>8 DEF CtlEnqueue, Return
  <2>3. CASE EnqueueCommandBuf(buf[a], cmd[buf[a]]) \/ EnqueueFailsAndFree(buf[a])
    BY <1>2, <2>1, <2>2, <2>3
  <2>4. CASE cmd' = [cmd EXCEPT ![buf[a]] = Blank]
    <3>1. cmd'[buf[a]] = Blank /\ \A e \in Bufs \ {buf[a]} : cmd'[e] = cmd[e]
      BY <2>1, <2>4, WriteFacts, CommandFacts
    <3>2. at'[a] = "idle"
      BY <2>2, GotoFacts
    <3>3. \A e \in Bufs : AppWrites(a, e)
      BY <1>0, <3>1 DEF AppWrites
    <3> QED BY <2>2, <3>2, <3>3 DEF AppTakes, Allocates
  <2> QED BY <1>8, <2>3, <2>4 DEF CtlEnqueue
<1>9. CASE AcceptDequeue(a)
  <2>1. PICK c \in listens[a] : /\ rxRing[c] # <<>>
                                /\ Goto(a, "accept.conn", Head(rxRing[c]), NULL)
    BY <1>9 DEF AcceptDequeue
  <2>2. c \in Conns /\ rxRing[c] \in Seq(Bufs)
    BY DEF PoolTypes, DescriptorTypes
  <2>3. Head(rxRing[c]) \in Bufs /\ 1 \in DOMAIN rxRing[c] /\ rxRing[c][1] = Head(rxRing[c])
    BY <2>1, <2>2, DequeueFacts
  <2>4. InRxRing(Head(rxRing[c]))
    BY <2>2, <2>3 DEF InRxRing
  <2>5. at'[a] = "accept.conn" /\ buf'[a] = Head(rxRing[c]) /\ UNCHANGED <<freeConns, cmd>>
    BY <1>9, <2>1, GotoFacts DEF AcceptDequeue
  <2> QED BY <2>3, <2>4, <2>5 DEF AppTakes, AppWrites, Allocates
<1>10. CASE AcceptTakeConnection(a)
  <2>1. buf[a] \in Bufs /\ at[a] = "accept.conn" /\ cmd' = cmd
    BY <1>10 DEF AcceptTakeConnection, HoldsAt, CallTypes
  <2>2. CASE freeConns # <<>> /\ freeConns' = Tail(freeConns)
             /\ Goto(a, "accept.enq", buf[a], Head(freeConns))
    <3>1. at'[a] = "accept.enq" /\ buf'[a] = buf[a] /\ idx'[a] = Head(freeConns)
      BY <2>2, GotoFacts
    <3> QED BY <2>1, <2>2, <3>1 DEF AppTakes, AppWrites, Allocates
  <2>3. CASE freeConns' = freeConns /\ Goto(a, "decline.enq", buf[a], NULL)
    <3>1. at'[a] = "decline.enq" /\ buf'[a] = buf[a]
      BY <2>3, GotoFacts
    <3> QED BY <2>1, <2>3, <3>1 DEF AppTakes, AppWrites, Allocates
  <2> QED BY <1>10, <2>2, <2>3 DEF AcceptTakeConnection
<1>11. CASE AcceptEnqueue(a)
  <2>1. buf[a] \in Bufs /\ idx[a] \in Conns /\ cmd[buf[a]] \in Cmds
    BY <1>11 DEF AcceptEnqueue, HoldsAt, CallTypes, PoolTypes
  <2>2. Command("SET_RING", idx[a], cmd[buf[a]].sock) \in Cmds
    BY <2>1, CommandFacts DEF Ops
  <2> QED BY <1>2, <1>11, <2>1, <2>2 DEF AcceptEnqueue, Return
<1>12. CASE DeclineEnqueue(a)
  <2>1. buf[a] \in Bufs /\ cmd[buf[a]] \in Cmds
    BY <1>12 DEF DeclineEnqueue, HoldsAt, CallTypes, PoolTypes
  <2>2. Command("DECLINE", NULL, cmd[buf[a]].sock) \in Cmds
    BY <2>1, CommandFacts DEF Ops
  <2> QED BY <1>2, <1>12, <2>1, <2>2 DEF DeclineEnqueue, Return
<1>13. CASE Close(a)
  BY <1>1, <1>13 DEF Close, CloseTakeCommand, Return
<1>14. CASE CloseEnqueue(a)
  <2>1. buf[a] \in Bufs /\ idx[a] \in Conns
    BY <1>14 DEF CloseEnqueue, HoldsAt, CallTypes
  <2>2. Command("CLOSE", idx[a], NULL) \in Cmds /\ Command("CLOSE", idx[a], NULL).op = "CLOSE"
    BY <1>0, <2>1, CommandFacts DEF Ops
  <2> QED BY <1>2, <1>14, <2>1, <2>2 DEF CloseEnqueue
<1>15. CASE CloseFlush(a)
  BY <1>1, <1>15 DEF CloseFlush, Return
<1>16. CASE Signal(a)
  <2>1. freeConns' = freeConns /\ Goto(a, "exit", NULL, NULL)
    BY <1>16 DEF Signal, Return
  <2>2. CASE UNCHANGED cmd
    BY <1>1, <2>1, <2>2
  <2>3. CASE buf[a] # NULL /\ cmd' = [cmd EXCEPT ![buf[a]] = Blank]
    <3>1. buf[a] \in Bufs
      BY <2>3 DEF CallTypes
    <3>2. cmd'[buf[a]] = Blank /\ \A e \in Bufs \ {buf[a]} : cmd'[e] = cmd[e]
      BY <2>3, <3>1, WriteFacts, CommandFacts
    <3>3. at'[a] = "exit"
      BY <2>1, GotoFacts
    <3>4. \A e \in Bufs : AppWrites(a, e)
      BY <1>0, <3>2 DEF AppWrites
    <3> QED BY <2>1, <3>3, <3>4 DEF AppTakes, Allocates
  <2> QED BY <1>16, <2>2, <2>3 DEF Signal
<1>17. CASE ExitClose(a)
  BY <1>1, <1>17 DEF ExitClose, CloseTakeCommand, Return
<1>18. CASE ExitDisconnect(a)
  BY <1>1, <1>18 DEF ExitDisconnect, Return
<1>19. CASE DisconnectEnqueue(a)
  <2>1. buf[a] \in Bufs
    BY <1>19 DEF DisconnectEnqueue, HoldsAt, CallTypes
  <2>2. Command("DISC", NULL, NULL) \in Cmds /\ Command("DISC", NULL, NULL).op = "DISC"
    BY <1>0, CommandFacts DEF Ops
  <2> QED BY <1>2, <1>19, <2>1, <2>2 DEF DisconnectEnqueue, Return
<1> QED
  BY <1>4, <1>5, <1>6, <1>7, <1>8, <1>9, <1>10, <1>11, <1>12, <1>13, <1>14, <1>15,
     <1>16, <1>17, <1>18, <1>19 DEF AppStep

\* The first part of the invariant is kept by the applications.
LEMMA AppStepLife ==
  ASSUME LifeInv, TypeInv', CommandBufferConservation', NEW a \in Apps, AppStep(a)
  PROVE  LifeInv'
<1> USE DEF LifeInv
<1>1. AppFrame(a)
  BY AppStepFrame
<1>2. AppTakes(a) /\ \A e \in Bufs : AppWrites(a, e)
  BY <1>1, AppStepWrites
<1>3. \A op, c, s : /\ Command(op, c, s).op = op
                    /\ Command(op, c, s).conn = c
                    /\ Command(op, c, s).sock = s
  BY DEF Command
<1>4. at[a] \in {"open.enq", "accept.enq"} => idx[a] \in Conns /\ buf[a] \in Bufs
  BY DEF TypeInv, HoldsAt, CallTypes
<1>5. at[a] = "decline.enq" => buf[a] \in Bufs
  BY DEF TypeInv, HoldsAt, CallTypes
<1>6. AttachIsNamed'
  BY <1>2, <1>3, <1>4 DEF AttachIsNamed, AppWrites
<1>7. AcceptedSound'
  <2>1. /\ \A x \in Apps \ {a} : buf[x] \in Bufs => cmd'[buf[x]] = cmd[buf[x]]
        /\ \A e \in Bufs : InRxRing(e)' => cmd'[e] = cmd[e]
    BY <1>1, OthersKept
  <2>2. \A e \in Bufs : InRxRing(e)' => cmd'[e].op = "ACCEPTED"
    BY <1>1, <2>1 DEF AcceptedSound, AppFrame
  <2>3. ASSUME NEW x \in Apps, at'[x] \in {"accept.conn", "accept.enq", "decline.enq"}
        PROVE  cmd'[buf'[x]].op = "ACCEPTED"
    <3>1. CASE x = a
      BY <1>2, <2>3, <3>1 DEF AppTakes, AcceptedSound
    <3>2. CASE x # a
      <4>1. at'[x] = at[x] /\ buf'[x] = buf[x]
        BY <1>1, <3>2 DEF AppFrame
      <4>2. buf[x] \in Bufs
        BY <2>3, <4>1 DEF TypeInv, HoldsAt, CallTypes
      <4> QED BY <2>1, <2>3, <3>2, <4>1, <4>2 DEF AcceptedSound
    <3> QED BY <3>1, <3>2
  <2> QED BY <2>2, <2>3 DEF AcceptedSound
<1>8. SocketsSound'
  <2>1. ASSUME NEW e \in Bufs, Carries(e)' PROVE Carries(e) /\ cmd'[e].sock = cmd[e].sock
    <3>1. lost[e] = "no"
      BY <1>1, <2>1 DEF Carries, AppFrame
    <3>2. AppWrites(a, e)
      BY <1>2
    <3>3. CASE cmd'[e] = cmd[e]
      BY <2>1, <3>1, <3>3 DEF Carries
    <3>4. CASE e = buf[a] /\ at[a] \in {"accept.enq", "decline.enq"} /\ cmd'[e].sock = cmd[e].sock
      BY <3>1, <3>4 DEF Carries, AcceptedSound
    <3> QED BY <1>3, <2>1, <3>2, <3>3, <3>4 DEF Carries, AppWrites
  <2>2. UNCHANGED <<satSock, sockState, reset>>
    BY <1>1 DEF AppFrame
  <2> QED BY <2>1, <2>2, SlotsKept
<1>9. LifeSound'
  <2>1. /\ satSock' = satSock
        /\ \A x \in Apps \ {a}, d \in Conns : Allocates(x, d)' <=> Allocates(x, d)
    BY <1>1 DEF AppFrame, Allocates
  <2>2. ASSUME at[a] \notin {"open.enq", "accept.enq"}, NEW e \in Bufs, NEW d \in Conns,
               Attaches(e, d)'
        PROVE  Attaches(e, d)
    BY <1>2, <1>3, <2>2 DEF Attaches, AppWrites
  <2>3. CASE freeConns # <<>> /\ freeConns' = Tail(freeConns)
             /\ at[a] \notin {"open.enq", "accept.enq"}
             /\ \A d \in Conns : Allocates(a, d)' => d = Head(freeConns)
    <3>1. freeConns \in Seq(Conns)
      BY DEF TypeInv, PoolTypes
    <3> QED BY <2>1, <2>2, <2>3, <3>1, LifeTakes
  <2>4. CASE freeConns' = freeConns
             /\ \A d \in Conns : Allocates(a, d)' => Allocates(a, d) /\ at[a] = "open.cmd"
    <3>1. CASE at[a] \notin {"open.enq", "accept.enq"}
      BY <2>1, <2>2, <2>4, <3>1, LifeShrinks
    <3>2. CASE at[a] \in {"open.enq", "accept.enq"}
      <4>1. Allocates(a, idx[a])
        BY <3>2 DEF Allocates
      <4>2. \A e \in Bufs, d \in Conns : Attaches(e, d)' => Attaches(e, d) \/ (e = buf[a] /\ d = idx[a])
        BY <1>2, <1>3 DEF Attaches, AppWrites
      <4>3. \A x \in Apps, d \in Conns : Allocates(x, d)' => x # a /\ Allocates(x, d)
        BY <2>1, <2>4, <3>2
      <4> QED BY <1>4, <2>1, <2>4, <3>2, <4>1, <4>2, <4>3, LifeSends
    <3> QED BY <3>1, <3>2
  <2> QED BY <1>2, <2>3, <2>4 DEF AppTakes
<1> QED BY <1>6, <1>7, <1>8, <1>9

---------------------------------------------------------------------------
(* The steps of the service.                                               *)

\* The service ends a command: only its buffer changes, and holds nothing then.
LEMMA EndFacts ==
  ASSUME TypeInv, svcCmd \in Bufs, FreeCommandBuf \/ ServiceDown
  PROVE  \A e \in Bufs : cmd'[e] = cmd[e] \/ (e = svcCmd /\ cmd'[e] = Blank)
<1>1. CASE FreeCommandBuf
  BY <1>1, WriteFacts, CommandFacts DEF FreeCommandBuf, TypeInv
<1>2. CASE ServiceDown
  BY <1>2 DEF ServiceDown
<1> QED BY <1>1, <1>2

\* The parts of the invariant that no command of the service can disturb but by
\* what it does to sockets and connections.
LEMMA ExecFrame ==
  ASSUME LifeInv, svcCmd \in Bufs, FreeCommandBuf \/ ServiceDown, UNCHANGED appVars,
         \A e \in Bufs : InRxRing(e)' => InRxRing(e),
         \A e \in Bufs : lost'[e] = "no" => lost[e] = "no"
  PROVE  /\ AttachIsNamed' /\ AcceptedSound'
         /\ \A x \in Apps, d \in Conns : Allocates(x, d)' => Allocates(x, d)
         /\ \A b \in Bufs, d \in Conns : Attaches(b, d)' => Attaches(b, d)
         /\ \A b \in Bufs : Carries(b)' => Carries(b) /\ cmd'[b].sock = cmd[b].sock
         /\ FreeCommandBuf =>
              \A b \in Bufs : b = svcCmd => ~Carries(b)' /\ \A d \in Conns : ~Attaches(b, d)'
<1> USE DEF LifeInv
<1>1. Blank.op = "NONE"
  BY DEF Blank, Command
<1>2. \A e \in Bufs : cmd'[e] = cmd[e] \/ (e = svcCmd /\ cmd'[e] = Blank)
  BY EndFacts
<1>3. UNCHANGED <<at, buf, idx>>
  BY DEF appVars
<1>4. AttachIsNamed'
  BY <1>1, <1>2 DEF AttachIsNamed
<1>5. AcceptedSound'
  <2>1. ASSUME NEW e \in Bufs, InRxRing(e)' PROVE cmd'[e].op = "ACCEPTED"
    <3>1. InRxRing(e)
      BY <2>1
    <3>2. e # svcCmd
      BY <3>1, Exclusive DEF CommandBufferConservation
    <3> QED BY <1>2, <3>1, <3>2 DEF AcceptedSound
  <2>2. ASSUME NEW x \in Apps, at[x] \in {"accept.conn", "accept.enq", "decline.enq"}
        PROVE  cmd'[buf[x]].op = "ACCEPTED"
    <3>1. buf[x] \in Bufs
      BY <2>2 DEF TypeInv, HoldsAt, CallTypes
    <3>2. Held(buf[x])
      BY DEF Held
    <3>3. buf[x] # svcCmd
      BY <3>1, <3>2, Exclusive DEF CommandBufferConservation
    <3> QED BY <1>2, <2>2, <3>1, <3>3 DEF AcceptedSound
  <2> QED BY <1>3, <2>1, <2>2 DEF AcceptedSound
<1>6. \A x \in Apps, d \in Conns : Allocates(x, d)' => Allocates(x, d)
  BY <1>3 DEF Allocates
<1>7. \A b \in Bufs, d \in Conns : Attaches(b, d)' => Attaches(b, d)
  BY <1>1, <1>2 DEF Attaches
<1>8. \A b \in Bufs : Carries(b)' => Carries(b) /\ cmd'[b].sock = cmd[b].sock
  BY <1>1, <1>2 DEF Carries
<1>9. FreeCommandBuf => cmd'[svcCmd] = Blank
  BY WriteFacts, CommandFacts DEF FreeCommandBuf, TypeInv
<1>10. FreeCommandBuf =>
         \A b \in Bufs : b = svcCmd => ~Carries(b)' /\ \A d \in Conns : ~Attaches(b, d)'
  BY <1>1, <1>9 DEF Carries, Attaches
<1> QED BY <1>4, <1>5, <1>6, <1>7, <1>8, <1>10

\* The first part of the invariant is kept by process_commands.
LEMMA ServiceStepLife ==
  ASSUME LifeInv, TypeInv', CommandBufferConservation', ProcessCommands
  PROVE  LifeInv'
<1> USE DEF LifeInv
<1>0. \A e \in Bufs : lost'[e] = "no" => lost[e] = "no"
  <2>1. ASSUME NEW c \in Conns, FlushRx(c) PROVE \A e \in Bufs : lost'[e] = "no" => lost[e] = "no"
    BY <2>1, FlushFacts DEF CommandBufferConservation, TypeInv
  <2>2. CASE ExecClose
    <3>1. svcCmd \in Bufs /\ cmd[svcCmd].conn \in Conns
      BY <2>2 DEF ExecClose, Executing, TypeInv, ServiceTypes, CloseIsNamed
    <3>2. lost' = lost \/ FlushRx(cmd[svcCmd].conn)
      BY <2>2 DEF ExecClose
    <3> QED BY <2>1, <3>1, <3>2
  <2>3. CASE ~ExecClose
    BY <2>3 DEF ProcessCommands, DequeueCommandBuf, ExecOpen, ExecListen, ExecCallback, ExecOther,
                ExecSetRing, ExecDecline
  <2> QED BY <2>2, <2>3
<1>1. CASE DequeueCommandBuf
  <2>1. UNCHANGED <<freeConns, cmd, rxRing, satSock, sockState, reset, at, buf, idx, lost>>
    BY <1>1 DEF DequeueCommandBuf, appVars
  <2>2. AttachIsNamed' /\ AcceptedSound'
    BY <2>1 DEF AttachIsNamed, AcceptedSound, InRxRing
  <2>3. SocketsSound'
    BY <2>1, SlotsKept DEF Carries
  <2>4. LifeSound'
    BY <2>1 DEF LifeSound, Free, Allocates, Attaches
  <2> QED BY <2>2, <2>3, <2>4
<1>2. CASE ~DequeueCommandBuf
  <2>1. svcCmd \in Bufs /\ UNCHANGED appVars /\ (FreeCommandBuf \/ ServiceDown)
    BY <1>2 DEF ProcessCommands, ExecOpen, ExecListen, ExecCallback, ExecOther, ExecClose,
                ExecSetRing, ExecDecline, Executing, TypeInv, ServiceTypes
  <2>2. \A e \in Bufs : InRxRing(e)' => InRxRing(e)
    <3>1. CASE rxRing' = rxRing
      BY <3>1 DEF InRxRing
    <3>2. ASSUME NEW c \in Conns, FlushRx(c) PROVE \A e \in Bufs : InRxRing(e)' => InRxRing(e)
      BY <3>2, FlushFacts DEF CommandBufferConservation, TypeInv
    <3>3. CASE ExecClose
      <4>1. cmd[svcCmd].conn \in Conns
        BY <2>1, <3>3 DEF ExecClose, Executing, TypeInv, CloseIsNamed
      <4> QED BY <3>1, <3>2, <3>3, <4>1 DEF ExecClose
    <3>4. CASE ~ExecClose
      BY <1>2, <3>1, <3>4 DEF ProcessCommands, ExecOpen, ExecListen, ExecCallback, ExecOther,
                              ExecSetRing, ExecDecline
    <3> QED BY <3>3, <3>4
  <2>3. /\ AttachIsNamed' /\ AcceptedSound'
        /\ \A x \in Apps, d \in Conns : Allocates(x, d)' => Allocates(x, d)
        /\ \A b \in Bufs, d \in Conns : Attaches(b, d)' => Attaches(b, d)
        /\ \A b \in Bufs : Carries(b)' => Carries(b) /\ cmd'[b].sock = cmd[b].sock
        /\ FreeCommandBuf =>
             \A b \in Bufs : b = svcCmd => ~Carries(b)' /\ \A d \in Conns : ~Attaches(b, d)'
    BY <1>0, <2>1, <2>2, ExecFrame
  <2>4. cmd[svcCmd] \in Cmds /\ lost[svcCmd] = "no"
    BY <2>1, Exclusive DEF TypeInv, PoolTypes, CommandBufferConservation
  <2>5. ASSUME UNCHANGED <<freeConns, satSock>> PROVE LifeSound'
    BY <2>3, <2>5, LifeShrinks
  <2>6. ASSUME UNCHANGED <<satSock, sockState, reset>> PROVE SocketsSound'
    BY <2>3, <2>6, SlotsKept
  <2>7. ServiceTypes /\ freeConns \in Seq(Conns) /\ satSock \in [Conns -> Socks \cup {NULL}]
    BY DEF TypeInv, ServiceTypes, PoolTypes
  <2>8. CASE ExecOpen
    <3> DEFINE c == cmd[svcCmd].conn
    <3>1. c \in Conns /\ Attaches(svcCmd, c) /\ FreeCommandBuf /\ freeConns' = freeConns
      BY <2>1, <2>8 DEF ExecOpen, Executing, AttachIsNamed, Attaches
    <3>2. satSock[c] = NULL
      BY <2>1, <3>1 DEF LifeSound
    <3> HIDE DEF c
    <3>3. CASE UNCHANGED <<sockState, reset, satSock>>
      BY <2>3, <2>5, <2>6, <3>1, <3>3
    <3>4. ASSUME NEW s \in Socks, SockAlloc(s, "open"),
                 satSock' = [satSock EXCEPT ![c] = s]
          PROVE  LifeSound' /\ SocketsSound'
      <4>1. LifeSound'
        BY <2>1, <2>3, <2>7, <3>1, <3>4, LifeAttaches
      <4>2. s \notin reset' => (\A d \in Conns : satSock[d] # s)
                               /\ \A b \in Bufs : Carries(b) => cmd[b].sock # s
        BY <3>4, AllocatesUnnamed
      <4>3. /\ sockState'[s] = "open" /\ satSock'[c] = s
            /\ \A d \in Conns \ {c} : satSock'[d] = satSock[d]
        BY <2>7, <3>1, <3>4 DEF SockAlloc, ServiceTypes
      <4>4. s \notin reset' => SlotSound(s)'
        BY <2>3, <4>2, <4>3 DEF SlotSound
      <4>5. \A t \in Socks \ {s} : sockState'[t] = sockState[t] /\ (t \in reset' <=> t \in reset)
        BY <2>7, <3>4 DEF SockAlloc, ServiceTypes
      <4>6. SocketsSound'
        BY <2>3, <4>3, <4>4, <4>5, OtherSlots
      <4> QED BY <4>1, <4>6
    <3>5. LifeSound' /\ SocketsSound'
      BY <2>5, <2>6, <2>8, <3>1, <3>3, <3>4 DEF ExecOpen, c
    <3> QED BY <2>3, <3>5
  <2>9. CASE ExecListen
    <3>1. UNCHANGED <<freeConns, satSock, reset>>
      BY <2>9 DEF ExecListen
    <3>2. SocketsSound'
      <4>1. CASE sockState' = sockState
        BY <2>6, <3>1, <4>1
      <4>2. ASSUME satSock[cmd[svcCmd].conn] # NULL,
                   sockState' = [sockState EXCEPT ![satSock[cmd[svcCmd].conn]] = "listen"]
            PROVE  SocketsSound'
        <5>1. cmd[svcCmd].conn \in Conns
          BY <2>1, <2>9 DEF ExecListen, Executing, AttachIsNamed
        <5>2. PICK s \in Socks : s = satSock[cmd[svcCmd].conn]
          BY <2>7, <4>2, <5>1
        <5>3. sockState'[s] = "listen" /\ \A t \in Socks \ {s} : sockState'[t] = sockState[t]
          BY <2>7, <4>2, <5>2 DEF ServiceTypes
        <5>4. s \notin reset => SlotSound(s)
          BY DEF SocketsSound
        <5>5. s \notin reset' => SlotSound(s)'
          BY <2>3, <3>1, <5>1, <5>2, <5>3, <5>4 DEF SlotSound
        <5> QED BY <2>3, <3>1, <5>3, <5>5, OtherSlots
      <4> QED BY <2>9, <4>1, <4>2 DEF ExecListen
    <3> QED BY <2>3, <2>5, <3>1, <3>2
  <2>10. CASE ExecCallback \/ ExecOther
    <3>1. UNCHANGED <<freeConns, satSock, sockState, reset>>
      BY <2>10 DEF ExecCallback, ExecOther
    <3> QED BY <2>3, <2>5, <2>6, <3>1
  <2>11. CASE ExecClose
    <3> DEFINE c == cmd[svcCmd].conn
    <3>0. reset' = reset
      BY <2>11 DEF ExecClose
    <3>1. CASE UNCHANGED <<freeConns, satSock, sockState>>
      BY <2>3, <2>5, <2>6, <3>0, <3>1
    <3>2. CASE /\ satSock[c] # NULL /\ sockState' = [sockState EXCEPT ![satSock[c]] = "free"]
               /\ satSock' = [satSock EXCEPT ![c] = NULL]
               /\ freeConns' = freeConns \/ freeConns' = Append(freeConns, c)
      <4>1. c \in Conns
        BY <2>1, <2>11 DEF ExecClose, Executing, TypeInv, CloseIsNamed
      <4>2. LifeSound'
        BY <2>3, <2>7, <3>2, <4>1, LifeEnds
      <4>3. PICK s \in Socks : s = satSock[c]
        BY <2>7, <3>2, <4>1
      <4>4. /\ \A t \in Socks \ {s} : sockState'[t] = sockState[t]
            /\ satSock'[c] = NULL /\ \A d \in Conns \ {c} : satSock'[d] = satSock[d]
        BY <2>7, <3>2, <4>1, <4>3 DEF ServiceTypes
      <4>5. s \notin reset => SlotSound(s)
        BY DEF SocketsSound
      <4> HIDE DEF c
      <4>6. s \notin reset' => SlotSound(s)'
        BY <2>3, <3>0, <4>1, <4>3, <4>4, <4>5, NullFacts DEF SlotSound
      <4>7. SocketsSound'
        BY <2>3, <3>0, <4>4, <4>6, OtherSlots
      <4> QED BY <2>3, <4>2, <4>7
    <3> QED BY <2>11, <3>1, <3>2 DEF ExecClose
  <2>12. CASE ExecSetRing
    <3> DEFINE c == cmd[svcCmd].conn
    <3>1. /\ c \in Conns /\ Attaches(svcCmd, c) /\ FreeCommandBuf /\ freeConns' = freeConns
          /\ satSock' = [satSock EXCEPT ![c] = cmd[svcCmd].sock]
          /\ UNCHANGED <<sockState, reset>>
      BY <2>1, <2>12 DEF ExecSetRing, Executing, AttachIsNamed, Attaches
    <3>2. satSock[c] = NULL
      BY <2>1, <3>1 DEF LifeSound
    <3>3. Carries(svcCmd)
      BY <2>4, <2>12 DEF ExecSetRing, Executing, Carries
    <3>4. PICK s \in Socks : s = cmd[svcCmd].sock
      BY <2>1, <3>3 DEF SocketsSound
    <3>5. s \notin reset => SlotSound(s)
      BY DEF SocketsSound
    <3>6. s \notin reset => \A b \in Bufs : Carries(b) /\ b # svcCmd => cmd[b].sock # s
      BY <2>1, <3>3, <3>4, <3>5 DEF SlotSound
    <3>7. s \notin reset => sockState[s] = "accepted" /\ \A d \in Conns : satSock[d] # s
      BY <2>1, <3>3, <3>4, <3>5 DEF SlotSound
    <3> HIDE DEF c
    <3>8. LifeSound'
      BY <2>1, <2>3, <2>7, <3>1, <3>4, LifeAttaches
    <3>9. satSock'[c] = s /\ \A d \in Conns \ {c} : satSock'[d] = satSock[d]
      BY <2>7, <3>1, <3>4
    <3>10. s \notin reset' => SlotSound(s)'
      BY <2>3, <3>1, <3>6, <3>7, <3>9 DEF SlotSound
    <3>11. SocketsSound'
      BY <2>3, <3>1, <3>9, <3>10, OtherSlots
    <3> QED BY <2>3, <3>8, <3>11
  <2>13. CASE ExecDecline
    <3>1. /\ FreeCommandBuf /\ UNCHANGED <<freeConns, satSock, reset>>
          /\ sockState' = [sockState EXCEPT ![cmd[svcCmd].sock] = "free"]
      BY <2>13 DEF ExecDecline
    <3>2. Carries(svcCmd)
      BY <2>4, <2>13 DEF ExecDecline, Executing, Carries
    <3>3. PICK s \in Socks : s = cmd[svcCmd].sock
      BY <2>1, <3>2 DEF SocketsSound
    <3>4. s \notin reset => SlotSound(s)
      BY DEF SocketsSound
    <3>5. s \notin reset => /\ \A d \in Conns : satSock[d] # s
                           /\ \A b \in Bufs : Carries(b) /\ b # svcCmd => cmd[b].sock # s
      BY <2>1, <3>2, <3>3, <3>4 DEF SlotSound
    <3>6. \A t \in Socks \ {s} : sockState'[t] = sockState[t]
      BY <2>7, <3>1, <3>3 DEF ServiceTypes
    <3>7. s \notin reset' => SlotSound(s)'
      BY <2>3, <3>1, <3>5 DEF SlotSound
    <3>8. SocketsSound'
      BY <2>3, <3>1, <3>6, <3>7, OtherSlots
    <3> QED BY <2>3, <2>5, <3>1, <3>8
  <2> QED BY <1>2, <2>8, <2>9, <2>10, <2>11, <2>12, <2>13 DEF ProcessCommands
<1> QED BY <1>1, <1>2

\* The first part of the invariant is kept by user_on_accept.
LEMMA AcceptLife ==
  ASSUME LifeInv, TypeInv', CommandBufferConservation', Accept
  PROVE  LifeInv'
<1> USE DEF LifeInv
<1>1. PICK k \in Conns, s \in Socks :
        /\ SockAlloc(s, "accepted")
        /\ \/ \E b \in Bufs : /\ GetFreeCommandBuf(b)
                              /\ cmd' = [cmd EXCEPT ![b] = Command("ACCEPTED", NULL, s)]
                              /\ rxRing' = [rxRing EXCEPT ![k] = Append(@, b)]
           \/ UNCHANGED <<cmd, rxRing>>
  BY DEF Accept
<1>2. UNCHANGED <<freeConns, satSock, at, buf, idx, lost>>
  BY DEF Accept, appVars
<1>3. /\ sockState'[s] = "accepted"
      /\ \A t \in Socks \ {s} : sockState'[t] = sockState[t] /\ (t \in reset' <=> t \in reset)
  BY <1>1 DEF SockAlloc, TypeInv, ServiceTypes
<1>4. s \notin reset' => /\ \A d \in Conns : satSock[d] # s
                        /\ \A b \in Bufs : Carries(b) => cmd[b].sock # s
  BY <1>1, AllocatesUnnamed
<1>6. ASSUME NEW f,
             \A b \in Bufs : cmd'[b] = IF b = f THEN Command("ACCEPTED", NULL, s) ELSE cmd[b],
             \A b \in Bufs : InRxRing(b)' => InRxRing(b) \/ b = f,
             \A x \in Apps : buf[x] \in Bufs => buf[x] # f
      PROVE  LifeInv'
  <2>1. /\ Command("ACCEPTED", NULL, s).op = "ACCEPTED"
        /\ Command("ACCEPTED", NULL, s).sock = s
    BY DEF Command
  <2>2. AttachIsNamed'
    BY <1>6, <2>1 DEF AttachIsNamed
  <2>3. \A b \in Bufs, d \in Conns : Attaches(b, d)' => Attaches(b, d)
    BY <1>6, <2>1 DEF Attaches
  <2>4. \A x \in Apps, d \in Conns : Allocates(x, d)' => Allocates(x, d)
    BY <1>2 DEF Allocates
  <2>5. LifeSound'
    BY <1>2, <2>3, <2>4, LifeShrinks
  <2>6. \A x \in Apps : at[x] \in {"accept.conn", "accept.enq", "decline.enq"} => buf[x] \in Bufs
    BY DEF TypeInv, HoldsAt, CallTypes
  <2>7. AcceptedSound'
    BY <1>2, <1>6, <2>1, <2>6 DEF AcceptedSound
  <2>8. \A b \in Bufs : Carries(b)' => /\ (b = f /\ cmd'[b].sock = s)
                                          \/ (b # f /\ Carries(b) /\ cmd'[b].sock = cmd[b].sock)
    BY <1>2, <1>6, <2>1 DEF Carries
  <2>9. s \notin reset' => SlotSound(s)'
    BY <1>2, <1>3, <1>4, <2>8 DEF SlotSound
  <2>10. SocketsSound'
    BY <1>2, <1>3, <2>8, <2>9, OtherSlots
  <2> QED BY <2>2, <2>5, <2>7, <2>10
<1>7. CASE UNCHANGED <<cmd, rxRing>>
  <2>1. \A b \in Bufs : cmd'[b] = IF b = NULL THEN Command("ACCEPTED", NULL, s) ELSE cmd[b]
    BY <1>7, NullFacts
  <2>2. \A b \in Bufs : InRxRing(b)' => InRxRing(b) \/ b = NULL
    BY <1>7 DEF InRxRing
  <2>3. \A x \in Apps : buf[x] \in Bufs => buf[x] # NULL
    BY NullFacts
  <2> QED BY <1>6, <2>1, <2>2, <2>3
<1>8. ASSUME NEW f \in Bufs, GetFreeCommandBuf(f),
             cmd' = [cmd EXCEPT ![f] = Command("ACCEPTED", NULL, s)],
             rxRing' = [rxRing EXCEPT ![k] = Append(@, f)]
      PROVE  LifeInv'
  <2>1. f \in freeCmds /\ rxRing[k] \in Seq(Bufs) /\ rxRing \in [Conns -> Seq(Bufs)]
    BY <1>8 DEF GetFreeCommandBuf, TypeInv, PoolTypes
  <2>2. ~Held(f)
    BY <2>1, Exclusive DEF CommandBufferConservation
  <2>3. \A x \in Apps : buf[x] \in Bufs => buf[x] # f
    BY <2>2 DEF Held
  <2>4. Command("ACCEPTED", NULL, s) \in Cmds
    BY CommandFacts DEF Ops
  <2>5. \A b \in Bufs : cmd'[b] = IF b = f THEN Command("ACCEPTED", NULL, s) ELSE cmd[b]
    BY <1>8, <2>4, WriteFacts DEF TypeInv
  <2>6. /\ DOMAIN rxRing'[k] = 1 .. Len(rxRing[k]) + 1 /\ Len(rxRing[k]) \in Nat
        /\ DOMAIN rxRing[k] = 1 .. Len(rxRing[k])
        /\ rxRing'[k][Len(rxRing[k]) + 1] = f
        /\ \A i \in DOMAIN rxRing[k] : rxRing'[k][i] = rxRing[k][i]
        /\ \A d \in Conns \ {k} : rxRing'[d] = rxRing[d]
    BY <1>8, <2>1, EnqueueFacts
  <2>7. \A d \in Conns : \A i \in DOMAIN rxRing'[d] :
          rxRing'[d][i] = f \/ (i \in DOMAIN rxRing[d] /\ rxRing'[d][i] = rxRing[d][i])
    BY <2>6
  <2>8. \A b \in Bufs : InRxRing(b)' => InRxRing(b) \/ b = f
    BY <2>7 DEF InRxRing
  <2> QED BY <1>6, <2>3, <2>5, <2>8
<1> QED BY <1>1, <1>7, <1>8

\* The first part of the invariant is kept when the closed list is worked off.
LEMMA ClosedListLife ==
  ASSUME LifeInv, TypeInv', CommandBufferConservation', ClosedList
  PROVE  LifeInv'
<1> USE DEF LifeInv
<1>1. PICK s \in Socks : /\ sockState' = [sockState EXCEPT ![s] = "free"]
                         /\ reset' = IF Named(s) THEN reset \cup {s} ELSE reset
  BY DEF ClosedList
<1>2. UNCHANGED <<freeConns, cmd, rxRing, satSock, at, buf, idx, lost>>
  BY DEF ClosedList, appVars
<1>3. AttachIsNamed' /\ AcceptedSound'
  BY <1>2 DEF AttachIsNamed, AcceptedSound, InRxRing
<1>4. LifeSound'
  BY <1>2 DEF LifeSound, Free, Allocates, Attaches
<1>5. \A t \in Socks \ {s} : sockState'[t] = sockState[t] /\ (t \in reset' <=> t \in reset)
  BY <1>1 DEF TypeInv, ServiceTypes
<1>6. \A b \in Bufs : Carries(b)' => Carries(b) /\ cmd'[b].sock = cmd[b].sock
  BY <1>2 DEF Carries
<1>7. s \notin reset' => SlotSound(s)'
  BY <1>1, <1>2, <1>6 DEF SlotSound, Named, Carries
<1>8. SocketsSound'
  BY <1>2, <1>5, <1>6, <1>7, OtherSlots
<1> QED BY <1>3, <1>4, <1>8

\* Every step keeps the first part of the invariant.
LEMMA LifeStep ==
  ASSUME LifeInv, TypeInv', [Next]_vars
  PROVE  LifeInv'
<1>1. CommandBufferConservation'
  BY ConservationStep DEF LifeInv
<1>2. CASE UNCHANGED vars
  <2>1. UNCHANGED <<freeConns, cmd, rxRing, satSock, sockState, reset, at, buf, idx, lost>>
    BY <1>2 DEF vars
  <2>2. AttachIsNamed' /\ AcceptedSound'
    BY <2>1 DEF LifeInv, AttachIsNamed, AcceptedSound, InRxRing
  <2>3. SocketsSound'
    BY <2>1, SlotsKept DEF LifeInv, Carries
  <2>4. LifeSound'
    BY <2>1 DEF LifeInv, LifeSound, Free, Allocates, Attaches
  <2> QED BY <1>1, <2>2, <2>3, <2>4 DEF LifeInv
<1>3. ASSUME NEW a \in Apps, AppStep(a) PROVE LifeInv'
  BY <1>1, <1>3, AppStepLife
<1>4. CASE ProcessCommands
  BY <1>1, <1>4, ServiceStepLife
<1>5. CASE Accept
  BY <1>1, <1>5, AcceptLife
<1>6. CASE ClosedList
  BY <1>1, <1>6, ClosedListLife
<1> QED BY <1>2, <1>3, <1>4, <1>5, <1>6 DEF Next

LEMMA LifeInit ==
  ASSUME Init
  PROVE  LifeInv
<1>1. TypeInv /\ CommandBufferConservation
  BY InitTypes, InitConservation
<1>2. \A b \in Bufs : cmd[b].op = "NONE"
  BY CommandFacts DEF Init
<1>3. /\ \A a \in Apps : at[a] = "idle"
      /\ \A c \in Conns : satSock[c] = NULL /\ rxRing[c] = <<>>
  BY DEF Init
<1>4. AttachIsNamed /\ AcceptedSound
  BY <1>2, <1>3 DEF AttachIsNamed, AcceptedSound, InRxRing
<1>5. SocketsSound
  BY <1>2, <1>3, NullFacts DEF SocketsSound, SlotSound, Carries
<1>6. \A i, j \in DOMAIN freeConns : freeConns[i] = freeConns[j] => i = j
  BY ControlPlaneAssumption DEF Init
<1>7. LifeSound
  BY <1>2, <1>3, <1>6 DEF LifeSound, Allocates, Attaches
<1> QED BY <1>1, <1>4, <1>5, <1>7 DEF LifeInv

\* The first inductive invariant.
THEOREM LifeInvariant == Spec => []LifeInv
<1>1. Init => LifeInv
  BY LifeInit
<1>2. LifeInv /\ TypeInv' /\ [Next]_vars => LifeInv'
  BY LifeStep
<1> QED BY <1>1, <1>2, TypeInvariance, PTL DEF Spec

\* FreeRingSound holds in every reachable state, for any numbers of applications,
\* connections and buffers: also after the stale CLOSE commands of sig_handler no
\* connection is twice in free_connections_ring or in it with a socket attached.
THEOREM FreeRingStaysSound == Spec => []FreeRingSound
<1>1. LifeInv => FreeRingSound
  BY DEF LifeInv, LifeSound, FreeRingSound
<1> QED BY <1>1, LifeInvariant, PTL

\* AttachesToEmptyEntry holds in every reachable state, with signals and crashes:
\* OPEN and SET_SOCKET_RING never overwrite the socket of a satelite entry.
THEOREM AttachesOnlyToEmptyEntry == Spec => []AttachesToEmptyEntry
<1>1. LifeInv => AttachesToEmptyEntry
  <2> SUFFICES ASSUME LifeInv, NEW op \in {"OPEN", "SET_RING"}, Executing(op)
               PROVE  satSock[cmd[svcCmd].conn] = NULL
    BY DEF AttachesToEmptyEntry
  <2>1. svcCmd \in Bufs
    BY DEF LifeInv, TypeInv, ServiceTypes, Executing
  <2>2. cmd[svcCmd].conn \in Conns /\ Attaches(svcCmd, cmd[svcCmd].conn)
    BY <2>1 DEF LifeInv, AttachIsNamed, Executing, Attaches
  <2> QED BY <2>1, <2>2 DEF LifeInv, LifeSound
<1> QED BY <1>1, LifeInvariant, PTL

\* SocketsNotShared holds in every reachable state, with signals and crashes: a
\* slot serves two connections, or is free while a connection or a buffer names
\* it, only when the closed list freed it under its user.
THEOREM SocketsAreSharedByResetsOnly == Spec => []SocketsNotShared
<1>1. ASSUME LifeInv PROVE SocketsNotShared
  <2> USE <1>1 DEF LifeInv
  <2>1. ASSUME NEW b \in Bufs, CarriesSocket(b) PROVE Carries(b)
    <3>1. lost[b] = "no"
      BY <2>1, Exclusive DEF CarriesSocket, Pending, CommandBufferConservation
    <3> QED BY <2>1, <3>1 DEF CarriesSocket, Carries
  <2>2. \A b \in Bufs : CarriesSocket(b) /\ cmd[b].sock \notin reset =>
          /\ sockState[cmd[b].sock] = "accepted"
          /\ \A c \in Conns : satSock[c] # cmd[b].sock
          /\ \A e \in Bufs : CarriesSocket(e) /\ cmd[e].sock = cmd[b].sock => e = b
    BY <2>1 DEF SocketsSound, SlotSound
  <2>3. \A c \in Conns : satSock[c] \in Socks \cup {NULL}
    BY DEF TypeInv, ServiceTypes
  <2>4. \A c \in Conns : satSock[c] \notin reset \cup {NULL} => SlotSound(satSock[c])
    BY <2>3 DEF SocketsSound
  <2>5. /\ \A c \in Conns : satSock[c] # NULL /\ satSock[c] \notin reset =>
            sockState[satSock[c]] # "free"
        /\ \A c, d \in Conns :
            satSock[c] = satSock[d] /\ satSock[c] \notin reset \cup {NULL} => c = d
    BY <2>4 DEF SlotSound
  <2> QED BY <2>2, <2>5 DEF SocketsNotShared
<1> QED BY <1>1, LifeInvariant, PTL

---------------------------------------------------------------------------
(* The leak of receive.                                                    *)

RxKickLost == {b \in Bufs : lost[b] = "rxkick"}

\* The entries of command_ring are as many buffers.
LEMMA RingCounts ==
  ASSUME IsFiniteSet(Bufs), cmdRing \in Seq(Bufs), OnceInRing
  PROVE  /\ IsFiniteSet({b \in Bufs : InRing(b)})
         /\ Cardinality({b \in Bufs : InRing(b)}) = Len(cmdRing)
<1> DEFINE I == 1 .. Len(cmdRing)
           B == {b \in Bufs : InRing(b)}
           f == [i \in I |-> cmdRing[i]]
<1>1. Len(cmdRing) \in Nat /\ DOMAIN cmdRing = I /\ \A i \in I : cmdRing[i] \in Bufs
  OBVIOUS
<1>2. IsFiniteSet(I) /\ Cardinality(I) = Len(cmdRing)
  <2>1. /\ IsFiniteSet(1 .. Len(cmdRing))
        /\ Cardinality(1 .. Len(cmdRing)) =
             IF 1 > Len(cmdRing) THEN 0 ELSE Len(cmdRing) - 1 + 1
    BY <1>1, FS_Interval
  <2> QED BY <1>1, <2>1
<1>3. f \in Bijection(I, B)
  <2>1. f \in [I -> B]
    BY <1>1 DEF InRing
  <2>2. \A i, j \in I : f[i] = f[j] => i = j
    BY <1>1 DEF OnceInRing
  <2>3. \A b \in B : \E i \in I : f[i] = b
    BY <1>1 DEF InRing
  <2> HIDE DEF I, B, f
  <2> QED BY <2>1, <2>2, <2>3 DEF Bijection, Injection, Surjection, IsInjective
<1>4. IsFiniteSet(B) /\ Cardinality(B) = Cardinality(I)
  <2> HIDE DEF I, B, f
  <2> QED BY <1>2, <1>3, FS_Bijection DEF ExistsBijection
<1> QED BY <1>2, <1>4

\* Buffers are forgotten by receive only, one at a time.
LEMMA LeakStep ==
  ASSUME TypeInv, [Next]_vars
  PROVE  \/ RxKickLost' \subseteq RxKickLost
         \/ \E a \in Apps : /\ buf[a] \in Bufs /\ RingFull(cmdRing, CommandRingSize)
                            /\ RxKickLost' = RxKickLost \cup {buf[a]}
<1> USE DEF TypeInv
<1>1. lost \in [Bufs -> {"no", "rxkick", "flushed", "died"}]
  BY DEF PoolTypes
<1>2. ASSUME lost' = lost PROVE RxKickLost' \subseteq RxKickLost
  BY <1>2 DEF RxKickLost
<1>3. ASSUME NEW c, FlushRx(c) PROVE RxKickLost' \subseteq RxKickLost
  <2>1. \A b \in Bufs : lost'[b] = "flushed" \/ lost'[b] = lost[b]
    BY <1>3 DEF FlushRx
  <2> QED BY <2>1 DEF RxKickLost
<1>4. CASE UNCHANGED vars
  BY <1>2, <1>4 DEF vars
<1>5. ASSUME NEW a \in Apps, AppStep(a)
      PROVE  \/ RxKickLost' \subseteq RxKickLost
             \/ /\ buf[a] \in Bufs /\ RingFull(cmdRing, CommandRingSize)
                /\ RxKickLost' = RxKickLost \cup {buf[a]}
  <2>1. CASE CtlEnqueue(a)
    <3>1. buf[a] \in Bufs
      BY <2>1 DEF CtlEnqueue, HoldsAt, CallTypes
    <3>2. CASE lost' = lost
      BY <1>2, <3>2
    <3>3. CASE RingFull(cmdRing, CommandRingSize) /\ lost' = [lost EXCEPT ![buf[a]] = "rxkick"]
      <4>1. \A b \in Bufs : lost'[b] = IF b = buf[a] THEN "rxkick" ELSE lost[b]
        BY <1>1, <3>3
      <4>2. RxKickLost' = RxKickLost \cup {buf[a]}
        BY <3>1, <4>1 DEF RxKickLost
      <4> QED BY <3>1, <3>3, <4>2
    <3> QED BY <2>1, <3>2, <3>3 DEF CtlEnqueue, EnqueueCommandBuf, EnqueueFailsAndFree
  <2>2. CASE CloseFlush(a)
    BY <1>3, <2>2 DEF CloseFlush
  <2>3. CASE Signal(a)
    <3>1. lost' = lost \/ lost' = [lost EXCEPT ![buf[a]] = "died"]
      BY <2>3 DEF Signal
    <3>2. \A b \in Bufs : lost'[b] = "died" \/ lost'[b] = lost[b]
      BY <1>1, <3>1
    <3> QED BY <3>2 DEF RxKickLost
  <2>4. CASE ~CtlEnqueue(a) /\ ~CloseFlush(a) /\ ~Signal(a)
    <3>1. lost' = lost
      BY <1>5, <2>4 DEF AppStep, OpenTakeConnection, OpenTakeCommand, OpenEnqueue, CtlTakeCommand,
           AcceptDequeue, AcceptTakeConnection, AcceptEnqueue, DeclineEnqueue, Close,
           CloseTakeCommand, CloseEnqueue, ExitClose, ExitDisconnect, DisconnectEnqueue,
           EnqueueCommandBuf, EnqueueFailsAndFree
    <3> QED BY <1>2, <3>1
  <2> QED BY <2>1, <2>2, <2>3, <2>4
<1>6. CASE ProcessCommands \/ Accept \/ ClosedList
  <2>1. lost' = lost \/ \E c : FlushRx(c)
    BY <1>6 DEF ProcessCommands, Accept, ClosedList, DequeueCommandBuf, ExecOpen, ExecListen, ExecCallback,
                ExecOther, ExecClose, ExecSetRing, ExecDecline
  <2> QED BY <1>2, <1>3, <2>1
<1> QED BY <1>4, <1>5, <1>6 DEF Next

\* RxKickLeakBounded holds in every reachable state when there are at most as many
\* buffers as command_ring has entries (COMMAND_POOL_SIZE for both): a buffer is
\* forgotten only when the ring is full, and then all others are in it.
THEOREM RxKickLeakStaysBounded ==
  ASSUME IsFiniteSet(Bufs), Cardinality(Bufs) <= CommandRingSize
  PROVE  Spec => []RxKickLeakBounded
<1>1. ASSUME TypeInv, CommandBufferConservation, RxKickLeakBounded, [Next]_vars
      PROVE  RxKickLeakBounded'
  <2> DEFINE L == RxKickLost
             R == {b \in Bufs : InRing(b)}
  <2>1. IsFiniteSet(L) /\ Cardinality(L) \in Nat /\ Cardinality(L) <= 1
    <3>1. L \in SUBSET Bufs
      BY DEF RxKickLost
    <3>2. IsFiniteSet(L)
      BY <3>1, FS_Subset
    <3> QED BY <1>1, <3>2, FS_CardinalityType DEF RxKickLeakBounded, RxKickLost
  <2>2. CASE RxKickLost' \subseteq RxKickLost
    <3>1. Cardinality(RxKickLost') <= Cardinality(L) /\ IsFiniteSet(RxKickLost')
      BY <2>1, <2>2, FS_Subset
    <3>2. Cardinality(RxKickLost') \in Nat
      BY <3>1, FS_CardinalityType
    <3>3. Cardinality(RxKickLost') <= 1
      BY <2>1, <3>1, <3>2
    <3> QED BY <3>3 DEF RxKickLeakBounded, RxKickLost
  <2>3. ASSUME NEW a \in Apps, buf[a] \in Bufs, RingFull(cmdRing, CommandRingSize),
               RxKickLost' = RxKickLost \cup {buf[a]}
        PROVE  RxKickLeakBounded'
    <3> DEFINE x == buf[a]
    <3>1. IsFiniteSet(R) /\ Cardinality(R) = Len(cmdRing) /\ Len(cmdRing) \in Nat
      BY <1>1, RingCounts DEF TypeInv, PoolTypes, CommandBufferConservation
    <3>2. Len(cmdRing) >= CommandRingSize - 1 /\ CommandRingSize \in Nat
      BY <2>3, ControlPlaneAssumption DEF RingFull
    <3>3. Held(x)
      BY DEF Held
    <3>4. x \notin R /\ x \notin L
      BY <1>1, <2>3, <3>3, Exclusive DEF CommandBufferConservation, RxKickLost
    <3>5. L \cap R = {}
      BY <1>1, Exclusive DEF CommandBufferConservation, RxKickLost
    <3>6. L \subseteq Bufs /\ R \subseteq Bufs /\ x \in Bufs
      BY <2>3 DEF RxKickLost
    <3> HIDE DEF L, R, x
    <3>7. /\ IsFiniteSet(L \cup R)
          /\ Cardinality(L \cup R) = Cardinality(L) + Cardinality(R) - Cardinality(L \cap R)
      BY <2>1, <3>1, FS_Union
    <3>8. Cardinality(L \cap R) = 0
      BY <3>5, FS_EmptySet
    <3>9. /\ IsFiniteSet((L \cup R) \cup {x})
          /\ Cardinality((L \cup R) \cup {x}) = Cardinality(L \cup R) + 1
      BY <3>4, <3>7, FS_AddElement
    <3>10. (L \cup R) \cup {x} \in SUBSET Bufs
      BY <3>6
    <3>11. Cardinality((L \cup R) \cup {x}) <= Cardinality(Bufs) /\ Cardinality(Bufs) \in Nat
      BY <3>10, FS_Subset, FS_CardinalityType
    <3>12. Cardinality(L) = 0
      BY <2>1, <3>1, <3>2, <3>7, <3>8, <3>9, <3>11
    <3>13. Cardinality(L \cup {x}) = 1
      <4>1. Cardinality(L \cup {x}) = Cardinality(L) + 1
        BY <2>1, <3>4, FS_AddElement
      <4> QED BY <3>12, <4>1
    <3>14. RxKickLost' = L \cup {x}
      BY <2>3 DEF L, x
    <3>15. Cardinality(RxKickLost') <= 1
      BY <3>13, <3>14
    <3> QED BY <3>15 DEF RxKickLeakBounded, RxKickLost
  <2> QED BY <1>1, <2>2, <2>3, LeakStep
<1>2. Init => RxKickLeakBounded
  <2> SUFFICES ASSUME Init PROVE Cardinality(RxKickLost) <= 1
    BY DEF RxKickLeakBounded, RxKickLost
  <2>1. RxKickLost = {}
    BY DEF Init, RxKickLost
  <2> QED BY <2>1, FS_EmptySet
<1> QED BY <1>1, <1>2, TypeInvariance, Conservation, PTL DEF Spec

---------------------------------------------------------------------------
(* Ownership: the second invariant.                                        *)

\* Nothing happens to connection c but that claims to it end.
LEMMA OwnersShrink ==
  ASSUME NEW c, OwnersAt(c),
         Free(c)' => Free(c),
         \A x \in Apps : Allocates(x, c)' => Allocates(x, c),
         \A x \in Apps : c \in owned'[x] => c \in owned[x],
         \A x \in Apps : Closes(x, c)' => Closes(x, c),
         \A b \in Bufs : Names(b, c)' => Names(b, c),
         \A b \in Bufs : CloseCmd(b, c)' => CloseCmd(b, c)
  PROVE  OwnersAt(c)'
  BY DEF OwnersAt

\* No CLOSE for connection c is on its way.
NoClose(c) == \A e \in Bufs : ~CloseCmd(e, c)

\* What a step of application a does to the commands.
AppCommands(a) ==
  /\ at'[a] \notin {"exit", "disc.enq"} /\ todo' = todo
  /\ \A x \in Apps \ {a} : owned'[x] = owned[x]
  /\ at'[a] = "ctl.enq" =>
       idx'[a] \in owned'[a] /\ cmd'[buf'[a]].conn = idx'[a] /\ cmd'[buf'[a]].op # "CLOSE"
  /\ \/ cmdRing' = cmdRing
     \/ /\ buf[a] \in Bufs /\ cmdRing' = Append(cmdRing, buf[a])
        /\ \A c \in Conns : cmd'[buf[a]].conn = c => NoClose(c)
  /\ \A b \in Bufs, c \in Conns : Names(b, c)' => Names(b, c) \/ NoClose(c)
  /\ \A b \in Bufs : cmd'[b].conn # NULL =>
       \/ cmd'[b] = cmd[b] /\ (at[a] = "ctl.enq" => b # buf[a])
       \/ InRing(b)'
       \/ b = buf'[a] /\ at'[a] = "ctl.enq"

LEMMA AppOwnersRest ==
  ASSUME LifeInv, CommandBufferConservation', OwnerInv, NEW a \in Apps, AppFrame(a),
         AppCommands(a), OwnersSound'
  PROVE  OwnerInv'
<1> USE DEF LifeInv, OwnerInv
<1>1. NoExit'
  BY DEF NoExit, AppCommands, AppFrame
<1>2. /\ \A x \in Apps \ {a} : buf[x] \in Bufs => cmd'[buf[x]] = cmd[buf[x]]
      /\ \A x \in Apps \ {a} : /\ at'[x] = at[x] /\ buf'[x] = buf[x] /\ idx'[x] = idx[x]
                               /\ owned'[x] = owned[x]
  BY OthersKept DEF AppFrame, AppCommands
<1>3. \A x \in Apps : at[x] = "ctl.enq" => buf[x] \in Bufs
  BY DEF TypeInv, HoldsAt, CallTypes
<1>4. \A x \in Apps : at'[x] = "ctl.enq" =>
        idx'[x] \in owned'[x] /\ cmd'[buf'[x]].conn = idx'[x] /\ cmd'[buf'[x]].op # "CLOSE"
  BY <1>2, <1>3 DEF CommandsOwned, AppCommands
<1>5. cmdRing \in Seq(Bufs)
  BY DEF TypeInv, PoolTypes
<1>6. /\ \A i \in DOMAIN cmdRing : i \in DOMAIN cmdRing' /\ cmdRing'[i] = cmdRing[i]
      /\ \A i \in DOMAIN cmdRing' : i \in Nat /\
           (i \in DOMAIN cmdRing \/
             (/\ buf[a] \in Bufs /\ cmdRing'[i] = buf[a] /\ i = Len(cmdRing) + 1
              /\ \A c \in Conns : cmd'[buf[a]].conn = c => NoClose(c)))
      /\ \A i \in DOMAIN cmdRing : i <= Len(cmdRing)
      /\ Len(cmdRing) \in Nat
  <2>1. DOMAIN cmdRing = 1 .. Len(cmdRing) /\ Len(cmdRing) \in Nat
    BY <1>5
  <2>2. CASE cmdRing' = cmdRing
    BY <2>1, <2>2
  <2>3. CASE /\ buf[a] \in Bufs /\ cmdRing' = Append(cmdRing, buf[a])
             /\ \A c \in Conns : cmd'[buf[a]].conn = c => NoClose(c)
    <3>1. /\ DOMAIN cmdRing' = 1 .. Len(cmdRing) + 1
          /\ cmdRing'[Len(cmdRing) + 1] = buf[a]
          /\ \A i \in DOMAIN cmdRing : cmdRing'[i] = cmdRing[i]
      BY <1>5, <2>3, EnqueueFacts
    <3> QED BY <2>1, <2>3, <3>1
  <2> QED BY <2>2, <2>3 DEF AppCommands
<1>7. svcCmd' = svcCmd
  BY DEF AppFrame
<1>8. \A b \in Bufs : cmd'[b].conn # NULL =>
        Pending(b)' \/ \E x \in Apps : buf'[x] = b /\ at'[x] = "ctl.enq"
  <2> SUFFICES ASSUME NEW b \in Bufs, cmd'[b].conn # NULL
               PROVE  Pending(b)' \/ \E x \in Apps : buf'[x] = b /\ at'[x] = "ctl.enq"
    OBVIOUS
  <2>1. CASE InRing(b)'
    BY <2>1 DEF Pending
  <2>2. CASE b = buf'[a] /\ at'[a] = "ctl.enq"
    BY <2>2
  <2>3. CASE cmd'[b] = cmd[b] /\ (at[a] = "ctl.enq" => b # buf[a])
    <3>1. Pending(b) \/ \E x \in Apps : buf[x] = b /\ at[x] = "ctl.enq"
      BY <2>3 DEF CommandsOwned
    <3>2. CASE svcCmd = b
      BY <1>7, <3>2 DEF Pending
    <3>3. CASE InRing(b)
      <4>1. InRing(b)'
        BY <1>6, <3>3 DEF InRing
      <4> QED BY <4>1 DEF Pending
    <3>4. ASSUME NEW x \in Apps, buf[x] = b, at[x] = "ctl.enq"
          PROVE  buf'[x] = b /\ at'[x] = "ctl.enq"
      BY <1>2, <2>3, <3>4
    <3> QED BY <3>1, <3>2, <3>3, <3>4 DEF Pending
  <2> QED BY <2>1, <2>2, <2>3 DEF AppCommands
<1>9. CommandsOwned'
  BY <1>4, <1>8 DEF CommandsOwned
<1>10. \A e \in Bufs : InRing(e) \/ svcCmd = e => cmd'[e] = cmd[e]
  <2> SUFFICES ASSUME NEW e \in Bufs, InRing(e) \/ svcCmd = e PROVE cmd'[e] = cmd[e]
    OBVIOUS
  <2>1. ~Held(e)
    BY Exclusive DEF CommandBufferConservation
  <2>2. InRing(e)' \/ svcCmd' = e
    BY <1>6, <1>7 DEF InRing
  <2>3. ~Held(e)'
    <3>1. PICK p \in Places : \A q \in Places : IsAt(e, q)' <=> q = p
      BY DEF CommandBufferConservation, SinglePlace
    <3>2. /\ IsAt(e, "ring")' <=> InRing(e)'
          /\ IsAt(e, "svc")' <=> svcCmd' = e
          /\ IsAt(e, "app")' <=> Held(e)'
      BY DEF IsAt
    <3> QED BY <2>2, <3>1, <3>2 DEF Places
  <2>4. e # buf[a] /\ e # buf'[a]
    BY <2>1, <2>3 DEF Held
  <2> QED BY <2>4 DEF AppFrame
<1>11. CloseIsLast'
  <2> SUFFICES ASSUME NEW c \in Conns
               PROVE  /\ \A i, j \in DOMAIN cmdRing' :
                           i < j /\ cmd'[cmdRing'[i]].op = "CLOSE" /\ cmd'[cmdRing'[i]].conn = c
                             => cmd'[cmdRing'[j]].conn # c
                      /\ svcCmd' # NULL /\ cmd'[svcCmd'].op = "CLOSE" /\ cmd'[svcCmd'].conn = c =>
                           \A b \in Bufs \ {svcCmd'} : cmd'[b].conn # c
    BY DEF CloseIsLast, CloseCmd, Names
  <2>1. \A i \in DOMAIN cmdRing : cmdRing[i] \in Bufs /\ cmd'[cmdRing[i]] = cmd[cmdRing[i]]
    BY <1>5, <1>10 DEF InRing
  <2>2. ASSUME NEW i \in DOMAIN cmdRing', NEW j \in DOMAIN cmdRing', i < j,
               cmd'[cmdRing'[i]].op = "CLOSE", cmd'[cmdRing'[i]].conn = c
        PROVE  cmd'[cmdRing'[j]].conn # c
    <3>1. i \in DOMAIN cmdRing
      <4>1. i # Len(cmdRing) + 1 \/ i \in DOMAIN cmdRing
        BY <1>6, <2>2
      <4> QED BY <1>6, <4>1
    <3>2. CloseCmd(cmdRing[i], c) /\ cmdRing[i] \in Bufs
      BY <1>6, <2>1, <2>2, <3>1 DEF CloseCmd
    <3>3. CASE j \in DOMAIN cmdRing
      <4>1. cmd[cmdRing[j]].conn # c
        BY <2>2, <3>1, <3>2, <3>3 DEF CloseIsLast, Names
      <4> QED BY <1>6, <2>1, <3>3, <4>1
    <3>4. CASE j \notin DOMAIN cmdRing
      BY <1>6, <3>2, <3>4 DEF NoClose
    <3> QED BY <3>3, <3>4
  <2>3. ASSUME svcCmd # NULL, cmd'[svcCmd].op = "CLOSE", cmd'[svcCmd].conn = c,
               NEW b \in Bufs \ {svcCmd}
        PROVE  cmd'[b].conn # c
    <3>1. svcCmd \in Bufs
      BY <2>3 DEF TypeInv, ServiceTypes
    <3>2. CloseCmd(svcCmd, c)
      BY <1>10, <2>3, <3>1 DEF CloseCmd
    <3>3. cmd[b].conn # c /\ ~NoClose(c)
      BY <2>3, <3>1, <3>2 DEF CloseIsLast, Names, NoClose
    <3> QED BY <3>3 DEF AppCommands, Names
  <2> QED BY <1>7, <2>2, <2>3
<1> QED BY <1>1, <1>9, <1>11

\* The second invariant is kept by the applications.
LEMMA AppStepOwners ==
  ASSUME TermSignals = FALSE, LifeInv, CommandBufferConservation', OwnerInv,
         NEW a \in Apps, AppStep(a)
  PROVE  OwnerInv'
<1> USE DEF LifeInv, OwnerInv
<1>1. AppFrame(a)
  BY AppStepFrame
<1>2. SUFFICES AppCommands(a) /\ \A c \in Conns : OwnersAt(c)'
  BY <1>1, AppOwnersRest DEF OwnersSound
<1>3. /\ CallTypes /\ PoolTypes /\ todo[a] = {} /\ at[a] \notin {"exit", "disc.enq"}
      /\ owned \in [Apps -> SUBSET Conns]
      /\ cmd \in [Bufs -> Cmds]
  BY DEF TypeInv, PoolTypes, DescriptorTypes, NoExit
<1>4. \A op, c, s : /\ Command(op, c, s).op = op
                    /\ Command(op, c, s).conn = c
                    /\ Command(op, c, s).sock = s
  BY DEF Command
<1>5. Blank \in Cmds /\ Blank.op = "NONE" /\ Blank.conn = NULL
  BY CommandFacts DEF Blank, Command
<1>6. \A x \in Apps \ {a}, c \in Conns :
        (Allocates(x, c)' <=> Allocates(x, c)) /\ (Closes(x, c)' <=> Closes(x, c))
  BY <1>1 DEF AppFrame, Allocates, Closes
<1>7. freeConns' = freeConns => \A c \in Conns : Free(c)' <=> Free(c)
  BY DEF Free
<1>8. cmd' = cmd => \A b \in Bufs, c \in Conns :
                      (Names(b, c)' <=> Names(b, c)) /\ (CloseCmd(b, c)' <=> CloseCmd(b, c))
  BY DEF Names, CloseCmd
\* A step that claims nothing and writes nothing.
<1>11. ASSUME UNCHANGED <<freeConns, cmdRing, cmd, todo>>, at[a] # "ctl.enq",
              \/ at'[a] \in {"idle", "accept.conn", "decline.enq", "dead"}
              \/ at'[a] = "open.enq" /\ at[a] = "open.cmd" /\ idx'[a] = idx[a],
              \A x \in Apps : owned'[x] \subseteq owned[x] /\ (x # a => owned'[x] = owned[x])
       PROVE  AppCommands(a) /\ \A d \in Conns : OwnersAt(d)'
  <2>2. AppCommands(a)
    BY <1>8, <1>11 DEF AppCommands
  <2>3. \A d \in Conns : (Allocates(a, d)' => Allocates(a, d)) /\ ~Closes(a, d)'
    BY <1>11 DEF Allocates, Closes
  <2>4. ASSUME NEW d \in Conns PROVE OwnersAt(d)'
    BY <1>6, <1>7, <1>8, <1>11, <2>3, OwnersShrink DEF OwnersSound
  <2> QED BY <2>2, <2>4
\* The application takes a free connection.
<1>12. ASSUME UNCHANGED <<cmdRing, cmd, owned, todo>>, freeConns # <<>>,
              freeConns' = Tail(freeConns), at[a] # "ctl.enq",
              NEW s \in {"open.cmd", "accept.enq"}, NEW b, Goto(a, s, b, Head(freeConns))
       PROVE  AppCommands(a) /\ \A d \in Conns : OwnersAt(d)'
  <2> DEFINE h == Head(freeConns)
  <2>1. /\ h \in Conns /\ Free(h)
        /\ \A c \in Conns : Free(c)' => Free(c) /\ c # h
    BY <1>3, <1>12, FreeTail DEF PoolTypes, LifeSound
  <2>2. at'[a] = s /\ idx'[a] = h
    BY <1>3, <1>12, GotoFacts
  <2> HIDE DEF h
  <2>3. AppCommands(a)
    BY <1>8, <1>12, <2>2 DEF AppCommands
  <2>4. \A d \in Conns : (Allocates(a, d)' => d = h) /\ ~Closes(a, d)'
    BY <1>12, <2>2 DEF Allocates, Closes
  <2>5. ASSUME NEW d \in Conns, d # h PROVE OwnersAt(d)'
    BY <1>6, <1>8, <1>12, <2>1, <2>4, <2>5, OwnersShrink DEF OwnersSound
  <2>6. ASSUME NEW d \in Conns, d = h PROVE OwnersAt(d)'
    <3>1. OwnersAt(d) /\ Free(d) /\ ~Free(d)'
      BY <2>1, <2>6 DEF OwnersSound
    <3>2. /\ \A e \in Bufs : ~Names(e, d)' /\ ~CloseCmd(e, d)'
          /\ \A x \in Apps : d \notin owned'[x] /\ ~Closes(x, d)'
      <4>1. /\ \A e \in Bufs : ~Names(e, d) /\ ~CloseCmd(e, d)
            /\ \A x \in Apps : d \notin owned[x] /\ ~Closes(x, d)
        BY <3>1 DEF OwnersAt, CloseCmd, Names
      <4> QED BY <1>6, <1>8, <1>12, <2>4, <4>1
    <3> QED BY <3>1, <3>2 DEF OwnersAt
  <2> QED BY <2>3, <2>5, <2>6
\* The buffer the application holds is emptied.
<1>13. ASSUME UNCHANGED <<freeConns, cmdRing, owned, todo>>, buf[a] \in Bufs,
              cmd' = [cmd EXCEPT ![buf[a]] = Blank], NEW s \in {"idle", "close.flush"},
              NEW c, Goto(a, s, NULL, c)
       PROVE  AppCommands(a) /\ \A d \in Conns : OwnersAt(d)'
  <2>1. cmd'[buf[a]] = Blank /\ \A e \in Bufs \ {buf[a]} : cmd'[e] = cmd[e]
    BY <1>3, <1>5, <1>13, WriteFacts
  <2>2. at'[a] = s
    BY <1>3, <1>13, GotoFacts
  <2>3. \A b \in Bufs, d \in Conns : (Names(b, d)' => Names(b, d)) /\ (CloseCmd(b, d)' => CloseCmd(b, d))
    BY <1>5, <2>1, NullFacts DEF Names, CloseCmd
  <2>4. \A d \in Conns : ~Allocates(a, d)' /\ ~Closes(a, d)'
    BY <2>2 DEF Allocates, Closes
  <2>5. \A b \in Bufs : cmd'[b].conn # NULL => b # buf[a] /\ cmd'[b] = cmd[b]
    BY <1>5, <2>1
  <2>6. AppCommands(a)
    BY <1>13, <2>2, <2>3, <2>5 DEF AppCommands
  <2>7. ASSUME NEW d \in Conns PROVE OwnersAt(d)'
    BY <1>6, <1>7, <1>13, <2>3, <2>4, OwnersShrink DEF OwnersSound
  <2> QED BY <2>6, <2>7
\* A command is sent.
<1>14. ASSUME NEW k \in Cmds, buf[a] \in Bufs, EnqueueCommandBuf(buf[a], k),
              UNCHANGED <<freeConns, todo>>, NEW s \in {"idle", "close.flush"}, NEW c,
              Goto(a, s, NULL, c),
              \A x \in Apps \ {a} : owned'[x] = owned[x],
              \A d \in Conns : k.conn = d => NoClose(d)
       PROVE  /\ AppCommands(a)
              /\ cmd'[buf[a]] = k /\ \A e \in Bufs \ {buf[a]} : cmd'[e] = cmd[e]
              /\ \A d \in Conns : ~Allocates(a, d)' /\ ~Closes(a, d)'
  <2>1. cmdRing' = Append(cmdRing, buf[a]) /\ cmd' = [cmd EXCEPT ![buf[a]] = k]
    BY <1>14 DEF EnqueueCommandBuf
  <2>2. cmd'[buf[a]] = k /\ \A e \in Bufs \ {buf[a]} : cmd'[e] = cmd[e]
    BY <1>3, <1>14, <2>1, WriteFacts
  <2>3. at'[a] = s
    BY <1>3, <1>14, GotoFacts
  <2>4. \A d \in Conns : ~Allocates(a, d)' /\ ~Closes(a, d)'
    BY <2>3 DEF Allocates, Closes
  <2>5. \A b \in Bufs : b = buf[a] => InRing(b)'
    <3>1. cmdRing \in Seq(Bufs)
      BY <1>3 DEF PoolTypes
    <3>2. /\ DOMAIN cmdRing' = 1 .. Len(cmdRing) + 1 /\ Len(cmdRing) \in Nat
          /\ cmdRing'[Len(cmdRing) + 1] = buf[a]
      BY <1>14, <2>1, <3>1, EnqueueFacts
    <3>3. Len(cmdRing) + 1 \in DOMAIN cmdRing'
      BY <3>2
    <3> QED BY <3>2, <3>3 DEF InRing
  <2>6. \A b \in Bufs, d \in Conns : Names(b, d)' => Names(b, d) \/ NoClose(d)
    BY <1>14, <2>2 DEF Names
  <2>7. \A b \in Bufs : InRing(b)' \/ (cmd'[b] = cmd[b] /\ b # buf[a])
    BY <2>2, <2>5
  <2>8. \A d \in Conns : cmd'[buf[a]].conn = d => NoClose(d)
    BY <1>14, <2>2
  <2>9. AppCommands(a)
    BY <1>14, <2>1, <2>3, <2>6, <2>7, <2>8 DEF AppCommands
  <2> QED BY <2>2, <2>4, <2>9
\* The application sends the command that attaches a socket and owns the connection.
<1>15. ASSUME at[a] \in {"open.enq", "accept.enq"}, NEW op \in {"OPEN", "SET_RING"},
              NEW sk, Command(op, idx[a], sk) \in Cmds,
              EnqueueCommandBuf(buf[a], Command(op, idx[a], sk)),
              owned' = [owned EXCEPT ![a] = @ \cup {idx[a]}],
              UNCHANGED <<freeConns, todo>>, Goto(a, "idle", NULL, NULL)
       PROVE  AppCommands(a) /\ \A d \in Conns : OwnersAt(d)'
  <2> DEFINE k == idx[a]
  <2>1. buf[a] \in Bufs /\ k \in Conns /\ Allocates(a, k)
    BY <1>15 DEF TypeInv, HoldsAt, CallTypes, Allocates
  <2>2. OwnersAt(k) /\ NoClose(k)
    BY <2>1 DEF OwnersSound, OwnersAt, NoClose, Names, CloseCmd
  <2>3. /\ owned'[a] = owned[a] \cup {k}
        /\ \A x \in Apps \ {a} : owned'[x] = owned[x]
    BY <1>3, <1>15
  <2>4. /\ AppCommands(a)
        /\ cmd'[buf[a]] = Command(op, k, sk) /\ \A e \in Bufs \ {buf[a]} : cmd'[e] = cmd[e]
        /\ \A d \in Conns : ~Allocates(a, d)' /\ ~Closes(a, d)'
    BY <1>4, <1>14, <1>15, <2>1, <2>2, <2>3
  <2> HIDE DEF k
  <2>5. \A b \in Bufs, d \in Conns : d # k => (Names(b, d)' => Names(b, d))
    BY <1>4, <2>4 DEF Names
  <2>6. \A b \in Bufs, d \in Conns : CloseCmd(b, d)' => CloseCmd(b, d)
    BY <1>4, <2>4 DEF CloseCmd
  <2>7. ASSUME NEW d \in Conns, d # k PROVE OwnersAt(d)'
    BY <1>6, <1>7, <1>15, <2>3, <2>4, <2>5, <2>6, <2>7, OwnersShrink DEF OwnersSound
  <2>8. ASSUME NEW d \in Conns, d = k PROVE OwnersAt(d)'
    <3>1. ~Free(d)' /\ \A x \in Apps : ~Allocates(x, d)'
      BY <1>6, <1>7, <1>15, <2>1, <2>4, <2>8 DEF LifeSound
    <3>2. \A x \in Apps : d \notin owned[x] /\ ~Closes(x, d)'
      BY <1>6, <2>1, <2>2, <2>4, <2>8 DEF OwnersAt
    <3>3. \A e \in Bufs : ~CloseCmd(e, d)'
      BY <2>1, <2>2, <2>6, <2>8 DEF NoClose
    <3> QED BY <2>3, <3>1, <3>2, <3>3 DEF OwnersAt
  <2> QED BY <2>4, <2>7, <2>8
\* The owner of connection k does something about it: k is neither free nor being
\* taken nor closed, so a command may name it.
<1>16. ASSUME NEW k \in Conns, k \in owned[a]
       PROVE  /\ ~Free(k) /\ NoClose(k)
              /\ \A x \in Apps : ~Allocates(x, k) /\ ~Closes(x, k)
              /\ \A x \in Apps \ {a} : k \notin owned[x]
  <2>1. OwnersAt(k)
    BY DEF OwnersSound
  <2> QED BY <1>16, <2>1 DEF OwnersAt, NoClose
<1>17. CASE OpenTakeConnection(a)
  BY <1>12, <1>17 DEF OpenTakeConnection
<1>18. CASE OpenTakeCommand(a)
  <2>1. PICK s, b, c :
          /\ Goto(a, s, b, c) /\ at[a] = "open.cmd"
          /\ s = "idle" \/ (s = "open.enq" /\ c = idx[a])
    BY <1>18 DEF OpenTakeCommand, Return
  <2>2. UNCHANGED <<freeConns, cmdRing, cmd, todo, owned>>
    BY <1>18 DEF OpenTakeCommand
  <2>3. at'[a] = "idle" \/ (at'[a] = "open.enq" /\ idx'[a] = idx[a])
    BY <1>3, <2>1, GotoFacts
  <2> QED BY <1>11, <2>1, <2>2, <2>3
<1>19. CASE OpenEnqueue(a)
  <2>1. at[a] = "open.enq" /\ UNCHANGED <<freeConns, todo>> /\ Goto(a, "idle", NULL, NULL)
    BY <1>19 DEF OpenEnqueue, Return
  <2>2. buf[a] \in Bufs /\ idx[a] \in Conns
    BY <2>1 DEF TypeInv, HoldsAt, CallTypes
  <2>3. CASE /\ EnqueueCommandBuf(buf[a], Command("OPEN", idx[a], NULL))
             /\ owned' = [owned EXCEPT ![a] = @ \cup {idx[a]}]
    <3>1. Command("OPEN", idx[a], NULL) \in Cmds
      BY <2>2, CommandFacts DEF Ops
    <3> QED BY <1>15, <2>1, <2>3, <3>1
  <2>4. CASE EnqueueFailsAndFree(buf[a]) /\ UNCHANGED owned
    BY <1>13, <2>1, <2>2, <2>4 DEF EnqueueFailsAndFree
  <2> QED BY <1>19, <2>3, <2>4 DEF OpenEnqueue
<1>20. CASE CtlTakeCommand(a)
  <2>1. PICK k \in owned[a], b \in Bufs, op \in CtlOps :
          /\ cmd' = [cmd EXCEPT ![b] = Command(op, k, NULL)] /\ Goto(a, "ctl.enq", b, k)
    BY <1>20 DEF CtlTakeCommand
  <2>2. at[a] = "idle" /\ UNCHANGED <<freeConns, cmdRing, owned, todo>>
    BY <1>20 DEF CtlTakeCommand
  <2>3. k \in Conns /\ op # "CLOSE"
    BY <1>3, ControlPlaneAssumption
  <2>4. /\ cmd'[b] = Command(op, k, NULL)
        /\ \A e \in Bufs \ {b} : cmd'[e] = cmd[e]
    BY <1>3, <2>1
  <2>5. at'[a] = "ctl.enq" /\ buf'[a] = b /\ idx'[a] = k
    BY <1>3, <2>1, GotoFacts
  <2>6. /\ ~Free(k) /\ NoClose(k)
        /\ \A x \in Apps : ~Allocates(x, k) /\ ~Closes(x, k)
        /\ \A x \in Apps \ {a} : k \notin owned[x]
    BY <1>16, <2>3
  <2>7. \A e \in Bufs, d \in Conns : Names(e, d)' => Names(e, d) \/ d = k
    BY <1>4, <2>4 DEF Names
  <2>8. \A e \in Bufs, d \in Conns : CloseCmd(e, d)' => CloseCmd(e, d)
    BY <1>4, <2>3, <2>4 DEF CloseCmd
  <2>9. \A d \in Conns : ~Allocates(a, d)' /\ ~Closes(a, d)'
    BY <2>5 DEF Allocates, Closes
  <2>10. AppCommands(a)
    <3>1. cmd'[buf'[a]].conn = idx'[a] /\ cmd'[buf'[a]].op # "CLOSE"
      BY <1>4, <2>3, <2>4, <2>5
    <3>2. \A e \in Bufs : cmd'[e] = cmd[e] \/ e = buf'[a]
      BY <2>4, <2>5
    <3> QED BY <2>1, <2>2, <2>5, <2>6, <2>7, <3>1, <3>2 DEF AppCommands
  <2>11. ASSUME NEW d \in Conns, d # k PROVE OwnersAt(d)'
    BY <1>6, <1>7, <2>2, <2>7, <2>8, <2>9, <2>11, OwnersShrink DEF OwnersSound
  <2>12. ASSUME NEW d \in Conns, d = k PROVE OwnersAt(d)'
    <3>1. ~Free(d)' /\ \A x \in Apps : ~Allocates(x, d)' /\ ~Closes(x, d)'
      BY <1>6, <1>7, <2>2, <2>6, <2>9, <2>12
    <3>2. \A e \in Bufs : ~CloseCmd(e, d)'
      BY <2>6, <2>8, <2>12 DEF NoClose
    <3>3. \A x \in Apps \ {a} : d \notin owned'[x]
      BY <2>2, <2>6, <2>12
    <3> QED BY <3>1, <3>2, <3>3 DEF OwnersAt
  <2> QED BY <2>10, <2>11, <2>12
<1>21. CASE CtlEnqueue(a)
  <2>1. at[a] = "ctl.enq" /\ UNCHANGED <<freeConns, owned, todo>> /\ Goto(a, "idle", NULL, NULL)
    BY <1>21 DEF CtlEnqueue, Return
  <2>2. buf[a] \in Bufs /\ cmd[buf[a]] \in Cmds
    BY <1>3, <2>1 DEF TypeInv, HoldsAt, CallTypes
  <2>3. CASE EnqueueCommandBuf(buf[a], cmd[buf[a]])
    <3>1. idx[a] \in owned[a] /\ cmd[buf[a]].conn = idx[a] /\ idx[a] \in Conns
      BY <1>3, <2>1 DEF CommandsOwned
    <3>2. \A d \in Conns : cmd[buf[a]].conn = d => NoClose(d)
      BY <1>16, <3>1
    <3>3. /\ AppCommands(a)
          /\ cmd'[buf[a]] = cmd[buf[a]] /\ \A e \in Bufs \ {buf[a]} : cmd'[e] = cmd[e]
          /\ \A d \in Conns : ~Allocates(a, d)' /\ ~Closes(a, d)'
      BY <1>14, <2>1, <2>2, <2>3, <3>2
    <3>4. \A e \in Bufs, d \in Conns : (Names(e, d)' => Names(e, d)) /\ (CloseCmd(e, d)' => CloseCmd(e, d))
      BY <3>3 DEF Names, CloseCmd
    <3>5. ASSUME NEW d \in Conns PROVE OwnersAt(d)'
      BY <1>6, <1>7, <2>1, <3>3, <3>4, OwnersShrink DEF OwnersSound
    <3> QED BY <3>3, <3>5
  <2>4. CASE EnqueueFailsAndFree(buf[a])
    BY <1>13, <2>1, <2>2, <2>4 DEF EnqueueFailsAndFree
  <2>5. CASE cmd' = [cmd EXCEPT ![buf[a]] = Blank] /\ UNCHANGED cmdRing
    BY <1>13, <2>1, <2>2, <2>5
  <2> QED BY <1>21, <2>3, <2>4, <2>5 DEF CtlEnqueue
<1>22. CASE AcceptDequeue(a)
  <2>1. PICK b : Goto(a, "accept.conn", b, NULL)
    BY <1>22 DEF AcceptDequeue
  <2>2. at[a] = "idle" /\ UNCHANGED <<freeConns, cmdRing, cmd, todo, owned>>
    BY <1>22 DEF AcceptDequeue
  <2>3. at'[a] = "accept.conn"
    BY <1>3, <2>1, GotoFacts
  <2> QED BY <1>11, <2>2, <2>3
<1>23. CASE AcceptTakeConnection(a)
  <2>1. at[a] = "accept.conn" /\ UNCHANGED <<cmdRing, cmd, todo, owned>>
    BY <1>23 DEF AcceptTakeConnection
  <2>2. CASE freeConns # <<>> /\ freeConns' = Tail(freeConns)
             /\ Goto(a, "accept.enq", buf[a], Head(freeConns))
    BY <1>12, <2>1, <2>2
  <2>3. CASE Goto(a, "decline.enq", buf[a], NULL) /\ UNCHANGED freeConns
    <3>1. at'[a] = "decline.enq"
      BY <1>3, <2>3, GotoFacts
    <3> QED BY <1>11, <2>1, <2>3, <3>1
  <2> QED BY <1>23, <2>2, <2>3 DEF AcceptTakeConnection
<1>24. CASE AcceptEnqueue(a)
  <2>1. at[a] = "accept.enq" /\ UNCHANGED <<freeConns, todo>> /\ Goto(a, "idle", NULL, NULL)
    BY <1>24 DEF AcceptEnqueue, Return
  <2>2. buf[a] \in Bufs /\ idx[a] \in Conns
    BY <2>1 DEF TypeInv, HoldsAt, CallTypes
  <2>3. CASE /\ EnqueueCommandBuf(buf[a], Command("SET_RING", idx[a], cmd[buf[a]].sock))
             /\ owned' = [owned EXCEPT ![a] = @ \cup {idx[a]}]
    <3>1. Command("SET_RING", idx[a], cmd[buf[a]].sock) \in Cmds
      BY <1>3, <2>2, CommandFacts DEF Ops
    <3> QED BY <1>15, <2>1, <2>3, <3>1
  <2>4. CASE EnqueueFailsAndFree(buf[a]) /\ UNCHANGED owned
    BY <1>13, <2>1, <2>2, <2>4 DEF EnqueueFailsAndFree
  <2> QED BY <1>24, <2>3, <2>4 DEF AcceptEnqueue
<1>25. CASE DeclineEnqueue(a)
  <2>1. at[a] = "decline.enq" /\ UNCHANGED <<freeConns, owned, todo>> /\ Goto(a, "idle", NULL, NULL)
    BY <1>25 DEF DeclineEnqueue, Return
  <2>2. buf[a] \in Bufs
    BY <2>1 DEF TypeInv, HoldsAt, CallTypes
  <2>3. CASE EnqueueCommandBuf(buf[a], Command("DECLINE", NULL, cmd[buf[a]].sock))
    <3> DEFINE k == Command("DECLINE", NULL, cmd[buf[a]].sock)
    <3>1. k \in Cmds /\ k.conn = NULL /\ k.op = "DECLINE"
      <4>1. cmd[buf[a]].sock \in Socks \cup {NULL}
        BY <1>3, <2>2, CommandFacts
      <4> QED BY <1>4, <4>1, CommandFacts DEF Ops
    <3>2. \A d \in Conns : k.conn = d => NoClose(d)
      BY <3>1, NullFacts
    <3> HIDE DEF k
    <3>3. /\ AppCommands(a)
          /\ cmd'[buf[a]] = k /\ \A e \in Bufs \ {buf[a]} : cmd'[e] = cmd[e]
          /\ \A d \in Conns : ~Allocates(a, d)' /\ ~Closes(a, d)'
      BY <1>14, <2>1, <2>2, <2>3, <3>1, <3>2 DEF k
    <3>4. \A e \in Bufs, d \in Conns : (Names(e, d)' => Names(e, d)) /\ (CloseCmd(e, d)' => CloseCmd(e, d))
      BY <3>1, <3>3, NullFacts DEF Names, CloseCmd
    <3>5. ASSUME NEW d \in Conns PROVE OwnersAt(d)'
      BY <1>6, <1>7, <2>1, <3>3, <3>4, OwnersShrink DEF OwnersSound
    <3> QED BY <3>3, <3>5
  <2>4. CASE EnqueueFailsAndFree(buf[a])
    BY <1>13, <2>1, <2>2, <2>4 DEF EnqueueFailsAndFree
  <2> QED BY <1>25, <2>3, <2>4 DEF DeclineEnqueue
<1>26. CASE Close(a)
  <2>1. PICK k \in owned[a] : CloseTakeCommand(a, k, "idle")
    BY <1>26 DEF Close
  <2>2. /\ at[a] = "idle" /\ UNCHANGED <<freeConns, cmdRing, cmd, todo>> /\ k \in Conns
        /\ owned'[a] = owned[a] \ {k} /\ \A x \in Apps \ {a} : owned'[x] = owned[x]
    BY <1>3, <1>26, <2>1 DEF Close, CloseTakeCommand
  <2>3. CASE Goto(a, "idle", NULL, NULL)
    <3>1. \A x \in Apps : owned'[x] \subseteq owned[x] /\ (x # a => owned'[x] = owned[x])
      BY <2>2
    <3>2. at'[a] = "idle"
      BY <1>3, <2>3, GotoFacts
    <3> QED BY <1>11, <2>2, <3>1, <3>2
  <2>4. ASSUME NEW b, Goto(a, "close.enq", b, k)
        PROVE  AppCommands(a) /\ \A d \in Conns : OwnersAt(d)'
    <3>1. at'[a] = "close.enq" /\ idx'[a] = k
      BY <1>3, <2>4, GotoFacts
    <3>2. AppCommands(a)
      BY <1>8, <2>2, <3>1 DEF AppCommands
    <3>3. \A d \in Conns : ~Allocates(a, d)' /\ (Closes(a, d)' => d = k)
      BY <3>1 DEF Allocates, Closes
    <3>4. ASSUME NEW d \in Conns, d # k PROVE OwnersAt(d)'
      BY <1>6, <1>7, <1>8, <2>2, <3>3, <3>4, OwnersShrink DEF OwnersSound
    <3>5. ASSUME NEW d \in Conns, d = k PROVE OwnersAt(d)'
      <4>1. /\ ~Free(k) /\ NoClose(k)
            /\ \A x \in Apps : ~Allocates(x, k) /\ ~Closes(x, k)
            /\ \A x \in Apps \ {a} : k \notin owned[x]
        BY <1>16, <2>2
      <4>2. /\ ~Free(d)' /\ \A x \in Apps : ~Allocates(x, d)' /\ d \notin owned'[x]
            /\ \A x \in Apps : Closes(x, d)' => x = a
            /\ \A e \in Bufs : ~CloseCmd(e, d)'
        BY <1>6, <1>7, <1>8, <2>2, <3>3, <3>5, <4>1 DEF NoClose
      <4> QED BY <4>2 DEF OwnersAt
    <3> QED BY <3>2, <3>4, <3>5
  <2> QED BY <2>1, <2>3, <2>4 DEF CloseTakeCommand, Return
<1>27. CASE CloseEnqueue(a)
  <2>1. /\ at[a] = "close.enq" /\ UNCHANGED <<freeConns, owned, todo>>
        /\ Goto(a, "close.flush", NULL, idx[a])
    BY <1>27 DEF CloseEnqueue
  <2>2. buf[a] \in Bufs /\ idx[a] \in Conns /\ Closes(a, idx[a])
    BY <2>1 DEF TypeInv, HoldsAt, CallTypes, Closes
  <2>3. CASE EnqueueCommandBuf(buf[a], Command("CLOSE", idx[a], NULL))
    <3> DEFINE n == idx[a]
               k == Command("CLOSE", n, NULL)
    <3>1. k \in Cmds /\ k.conn = n /\ k.op = "CLOSE"
      BY <1>4, <2>2, CommandFacts DEF Ops
    <3>2. /\ NoClose(n) /\ ~Free(n)
          /\ \A x \in Apps : ~Allocates(x, n) /\ n \notin owned[x] /\ (Closes(x, n) => x = a)
      BY <2>2 DEF OwnersSound, OwnersAt, NoClose
    <3> HIDE DEF n, k
    <3>3. /\ AppCommands(a)
          /\ cmd'[buf[a]] = k /\ \A e \in Bufs \ {buf[a]} : cmd'[e] = cmd[e]
          /\ \A d \in Conns : ~Allocates(a, d)' /\ ~Closes(a, d)'
      BY <1>14, <2>1, <2>2, <2>3, <3>1, <3>2 DEF n, k
    <3>4. \A e \in Bufs, d \in Conns : d # n =>
            (Names(e, d)' => Names(e, d)) /\ (CloseCmd(e, d)' => CloseCmd(e, d))
      BY <3>1, <3>3 DEF Names, CloseCmd
    <3>5. ASSUME NEW d \in Conns, d # n PROVE OwnersAt(d)'
      BY <1>6, <1>7, <2>1, <3>3, <3>4, <3>5, OwnersShrink DEF OwnersSound
    <3>6. ASSUME NEW d \in Conns, d = n PROVE OwnersAt(d)'
      <4>1. /\ ~Free(d)' /\ \A x \in Apps : ~Allocates(x, d)' /\ d \notin owned'[x] /\ ~Closes(x, d)'
        BY <1>6, <1>7, <2>1, <3>2, <3>3, <3>6
      <4>2. \A e \in Bufs : CloseCmd(e, d)' => e = buf[a]
        <5>1. \A e \in Bufs \ {buf[a]} : ~CloseCmd(e, d)
          BY <3>2, <3>6 DEF NoClose
        <5> QED BY <3>3, <5>1 DEF CloseCmd
      <4> QED BY <4>1, <4>2 DEF OwnersAt
    <3> QED BY <3>3, <3>5, <3>6
  <2>4. CASE EnqueueFailsAndFree(buf[a])
    BY <1>13, <2>1, <2>2, <2>4 DEF EnqueueFailsAndFree
  <2> QED BY <1>27, <2>3, <2>4 DEF CloseEnqueue
<1>28. CASE CloseFlush(a)
  <2>1. /\ at[a] = "close.flush" /\ UNCHANGED <<freeConns, cmdRing, cmd, owned>>
        /\ Goto(a, "idle", NULL, NULL) \/ Goto(a, "dead", NULL, NULL)
    BY <1>3, <1>28 DEF CloseFlush, Return
  <2>2. todo' = todo
    <3>1. todo \in [Apps -> SUBSET Conns]
      BY DEF TypeInv, DescriptorTypes
    <3>2. PICK S : todo' = [todo EXCEPT ![a] = S] /\ S = {}
      BY <1>3, <1>28, <3>1 DEF CloseFlush
    <3> QED BY <1>3, <3>1, <3>2
  <2>3. at'[a] \in {"idle", "dead"}
    BY <1>3, <2>1, GotoFacts
  <2> QED BY <1>11, <2>1, <2>2, <2>3
<1>29. ~Signal(a) /\ ~ExitClose(a) /\ ~ExitDisconnect(a) /\ ~DisconnectEnqueue(a)
  BY <1>3 DEF Signal, ExitClose, ExitDisconnect, DisconnectEnqueue
<1> QED
  BY <1>17, <1>18, <1>19, <1>20, <1>21, <1>22, <1>23, <1>24, <1>25, <1>26, <1>27, <1>28,
     <1>29 DEF AppStep

\* The service, or user_on_accept, writes commands that name no connection.
LEMMA ServiceCommands ==
  ASSUME LifeInv, OwnerInv, UNCHANGED appVars, cmdRing' = cmdRing,
         svcCmd' = svcCmd \/ svcCmd' = NULL,
         \A b \in Bufs : /\ cmd'[b].conn # NULL => cmd'[b] = cmd[b] /\ (svcCmd = b => svcCmd' = b)
                         /\ Held(b) => cmd'[b] = cmd[b]
  PROVE  /\ NoExit' /\ CommandsOwned' /\ CloseIsLast'
         /\ \A x \in Apps, c \in Conns : /\ Allocates(x, c)' <=> Allocates(x, c)
                                         /\ Closes(x, c)' <=> Closes(x, c)
                                         /\ c \in owned'[x] <=> c \in owned[x]
         /\ \A b \in Bufs, c \in Conns : /\ Names(b, c)' => Names(b, c)
                                         /\ CloseCmd(b, c)' => CloseCmd(b, c)
<1> USE DEF LifeInv, OwnerInv
<1>1. UNCHANGED <<at, buf, idx, owned, todo>>
  BY DEF appVars
<1>2. NoExit'
  BY <1>1 DEF NoExit
<1>3. CommandsOwned'
  <2>1. ASSUME NEW a \in Apps, at[a] = "ctl.enq" PROVE cmd'[buf[a]] = cmd[buf[a]]
    <3>1. buf[a] \in Bufs /\ Held(buf[a])
      BY <2>1 DEF TypeInv, HoldsAt, CallTypes, Held
    <3> QED BY <3>1
  <2>2. ASSUME NEW b \in Bufs, cmd'[b].conn # NULL, Pending(b) PROVE Pending(b)'
    BY <2>2 DEF Pending, InRing
  <2>3. \A b \in Bufs : cmd'[b].conn # NULL =>
          Pending(b)' \/ \E a \in Apps : buf[a] = b /\ at[a] = "ctl.enq"
    BY <2>2 DEF CommandsOwned
  <2>4. \A a \in Apps : at[a] = "ctl.enq" =>
          idx[a] \in owned[a] /\ cmd'[buf[a]].conn = idx[a] /\ cmd'[buf[a]].op # "CLOSE"
    BY <2>1 DEF CommandsOwned
  <2> QED BY <1>1, <2>3, <2>4 DEF CommandsOwned
<1>4. \A b \in Bufs, c \in Conns : /\ Names(b, c)' => Names(b, c)
                                   /\ CloseCmd(b, c)' => CloseCmd(b, c)
  BY NullFacts DEF Names, CloseCmd
<1>5. CloseIsLast'
  <2>1. cmdRing \in Seq(Bufs) /\ \A i \in DOMAIN cmdRing : cmdRing[i] \in Bufs
    BY DEF TypeInv, PoolTypes
  <2> SUFFICES ASSUME NEW c \in Conns
               PROVE  /\ \A i, j \in DOMAIN cmdRing : i < j /\ CloseCmd(cmdRing[i], c)' =>
                           ~Names(cmdRing[j], c)'
                      /\ svcCmd' # NULL /\ CloseCmd(svcCmd, c)' =>
                           \A b \in Bufs \ {svcCmd'} : ~Names(b, c)'
    BY DEF CloseIsLast
  <2>2. \A b \in Bufs : /\ (cmd'[b].conn = c => cmd[b].conn = c)
                        /\ (cmd'[b].op = "CLOSE" /\ cmd'[b].conn = c => CloseCmd(b, c))
    BY <1>4 DEF Names, CloseCmd
  <2>3. \A i, j \in DOMAIN cmdRing : i < j /\ cmd'[cmdRing[i]].op = "CLOSE" /\ cmd'[cmdRing[i]].conn = c
          => cmd'[cmdRing[j]].conn # c
    BY <2>1, <2>2 DEF CloseIsLast, Names
  <2>4. ASSUME svcCmd' # NULL, cmd'[svcCmd'].op = "CLOSE", cmd'[svcCmd'].conn = c
        PROVE  \A b \in Bufs \ {svcCmd'} : cmd'[b].conn # c
    <3>1. svcCmd' = svcCmd /\ svcCmd \in Bufs
      BY <2>4 DEF TypeInv, ServiceTypes
    <3> QED BY <2>2, <2>4, <3>1 DEF CloseIsLast, Names
  <2> QED BY <2>3, <2>4 DEF CloseCmd, Names
<1>6. \A x \in Apps, c \in Conns : /\ Allocates(x, c)' <=> Allocates(x, c)
                                   /\ Closes(x, c)' <=> Closes(x, c)
                                   /\ c \in owned'[x] <=> c \in owned[x]
  BY <1>1 DEF Allocates, Closes
<1> QED BY <1>2, <1>3, <1>4, <1>5, <1>6

\* The next command leaves command_ring.  When it is a CLOSE, nothing else names
\* its connection: commands behind it do not, and the application that sent it
\* does not own the connection any more.
LEMMA DequeueOwners ==
  ASSUME LifeInv, OwnerInv, DequeueCommandBuf
  PROVE  OwnerInv'
<1> USE DEF LifeInv, OwnerInv
<1>1. UNCHANGED <<at, buf, idx, owned, todo, freeConns, cmd>>
  BY DEF DequeueCommandBuf, appVars
<1>2. NoExit' /\ OwnersSound'
  BY <1>1 DEF NoExit, OwnersSound, OwnersAt, Free, Allocates, Closes, Names, CloseCmd
<1> DEFINE q == cmdRing
           n == Len(q)
<1>3. q \in Seq(Bufs) /\ q # <<>> /\ svcCmd = NULL /\ cmdRing' = Tail(q) /\ svcCmd' = q[1]
  BY DEF DequeueCommandBuf, TypeInv, PoolTypes
<1>4. /\ n \in Nat \ {0} /\ DOMAIN q = 1 .. n /\ DOMAIN cmdRing' = 1 .. n - 1
      /\ \A i \in 1 .. n - 1 : cmdRing'[i] = q[i + 1]
      /\ \A i \in 1 .. n : q[i] \in Bufs
  BY <1>3
<1> HIDE DEF n
<1>5. /\ \A i \in DOMAIN cmdRing' : i + 1 \in DOMAIN q /\ cmdRing'[i] = q[i + 1] /\ i \in Nat
      /\ \A i \in DOMAIN q : i = 1 \/ (i - 1 \in DOMAIN cmdRing' /\ cmdRing'[i - 1] = q[i])
      /\ 1 \in DOMAIN q /\ \A i \in DOMAIN q : i \in Nat /\ (i = 1 \/ 1 < i)
      /\ q[1] \in Bufs
  BY <1>4
<1>6. \A b \in Bufs : Pending(b) => Pending(b)'
  BY <1>3, <1>5, NullFacts DEF Pending, InRing
<1>7. CommandsOwned'
  <2>1. \A b \in Bufs : cmd[b].conn # NULL =>
          Pending(b)' \/ \E a \in Apps : buf[a] = b /\ at[a] = "ctl.enq"
    BY <1>6 DEF CommandsOwned
  <2>2. \A a \in Apps : at[a] = "ctl.enq" =>
          idx[a] \in owned[a] /\ cmd[buf[a]].conn = idx[a] /\ cmd[buf[a]].op # "CLOSE"
    BY DEF CommandsOwned
  <2> QED BY <1>1, <2>1, <2>2 DEF CommandsOwned
<1>8. ASSUME NEW c \in Conns, CloseCmd(q[1], c), NEW b \in Bufs \ {q[1]}
      PROVE  cmd[b].conn # c
  <2> SUFFICES ASSUME cmd[b].conn = c PROVE FALSE
    OBVIOUS
  <2>1. c # NULL
    BY NullFacts
  <2>2. Pending(b) \/ \E a \in Apps : buf[a] = b /\ at[a] = "ctl.enq"
    BY <2>1 DEF CommandsOwned
  <2>3. CASE Pending(b)
    <3>1. PICK i \in DOMAIN q : q[i] = b
      BY <1>3, <2>3, NullFacts DEF Pending, InRing
    <3>2. 1 < i
      BY <1>5, <1>8, <3>1
    <3> QED BY <1>5, <1>8, <3>1, <3>2 DEF CloseIsLast, Names
  <2>4. ASSUME NEW a \in Apps, buf[a] = b, at[a] = "ctl.enq" PROVE FALSE
    <3>1. c \in owned[a]
      BY <2>4 DEF CommandsOwned
    <3> QED BY <1>5, <1>8, <3>1 DEF OwnersSound, OwnersAt
  <2> QED BY <2>2, <2>3, <2>4
<1>9. CloseIsLast'
  <2>1. ASSUME NEW c \in Conns, NEW i \in DOMAIN cmdRing', NEW j \in DOMAIN cmdRing', i < j,
               CloseCmd(cmdRing'[i], c)
        PROVE  ~Names(cmdRing'[j], c)
    <3>1. /\ i + 1 \in DOMAIN q /\ j + 1 \in DOMAIN q /\ i + 1 < j + 1
          /\ cmdRing'[i] = q[i + 1] /\ cmdRing'[j] = q[j + 1]
      BY <1>5, <2>1
    <3> QED BY <2>1, <3>1 DEF CloseIsLast
  <2>2. \A c \in Conns, i, j \in DOMAIN cmdRing' :
          i < j /\ cmd[cmdRing'[i]].op = "CLOSE" /\ cmd[cmdRing'[i]].conn = c => cmd[cmdRing'[j]].conn # c
    BY <2>1 DEF CloseCmd, Names
  <2>3. \A c \in Conns : cmd[q[1]].op = "CLOSE" /\ cmd[q[1]].conn = c =>
          \A b \in Bufs \ {q[1]} : cmd[b].conn # c
    BY <1>8 DEF CloseCmd
  <2> HIDE DEF q
  <2> QED BY <1>1, <1>3, <2>2, <2>3 DEF CloseIsLast, CloseCmd, Names
<1> QED BY <1>2, <1>7, <1>9

\* The second invariant is kept by process_commands: a connection is put back by
\* the last command about it.
LEMMA ServiceStepOwners ==
  ASSUME LifeInv, OwnerInv, ProcessCommands
  PROVE  OwnerInv'
<1> USE DEF LifeInv, OwnerInv
<1>1. CASE DequeueCommandBuf
  BY <1>1, DequeueOwners
<1>2. CASE ~DequeueCommandBuf
  <2>1. /\ svcCmd \in Bufs /\ UNCHANGED appVars /\ cmdRing' = cmdRing
        /\ FreeCommandBuf \/ ServiceDown
    BY <1>2 DEF ProcessCommands, ExecOpen, ExecListen, ExecCallback, ExecOther, ExecClose,
                ExecSetRing, ExecDecline, Executing, TypeInv, ServiceTypes
  <2>2. Blank.conn = NULL
    BY DEF Blank, Command
  <2>3. ~Held(svcCmd)
    BY <2>1, Exclusive DEF CommandBufferConservation
  <2>4. /\ \A b \in Bufs \ {svcCmd} : cmd'[b] = cmd[b]
        /\ FreeCommandBuf => cmd'[svcCmd] = Blank
        /\ ServiceDown => cmd' = cmd
    <3>1. CASE FreeCommandBuf
      BY <2>1, <3>1, WriteFacts, CommandFacts DEF FreeCommandBuf, ServiceDown, TypeInv
    <3>2. CASE ServiceDown
      BY <2>1, <3>2, WriteFacts, CommandFacts DEF FreeCommandBuf, ServiceDown, TypeInv
    <3> QED BY <2>1, <3>1, <3>2
  <2>5. svcCmd' = svcCmd \/ svcCmd' = NULL
    BY <2>1 DEF FreeCommandBuf, ServiceDown
  <2>6. \A b \in Bufs : /\ cmd'[b].conn # NULL => cmd'[b] = cmd[b] /\ (svcCmd = b => svcCmd' = b)
                        /\ Held(b) => cmd'[b] = cmd[b]
    BY <2>1, <2>2, <2>3, <2>4 DEF ServiceDown
  <2>7. /\ NoExit' /\ CommandsOwned' /\ CloseIsLast'
        /\ \A x \in Apps, c \in Conns : /\ Allocates(x, c)' <=> Allocates(x, c)
                                        /\ Closes(x, c)' <=> Closes(x, c)
                                        /\ c \in owned'[x] <=> c \in owned[x]
        /\ \A b \in Bufs, c \in Conns : /\ Names(b, c)' => Names(b, c)
                                        /\ CloseCmd(b, c)' => CloseCmd(b, c)
    BY <2>1, <2>5, <2>6, ServiceCommands
  <2>8. ASSUME NEW d \in Conns, Free(d)' => Free(d) PROVE OwnersAt(d)'
    BY <2>7, <2>8, OwnersShrink DEF OwnersSound
  <2>9. CASE freeConns' = freeConns
    <3>1. \A d \in Conns : Free(d)' => Free(d)
      BY <2>9 DEF Free
    <3> QED BY <2>7, <2>8, <3>1 DEF OwnersSound
  <2>10. CASE freeConns' # freeConns
    <3> DEFINE k == cmd[svcCmd].conn
    <3>1. /\ FreeCommandBuf /\ CloseCmd(svcCmd, k) /\ satSock[k] # NULL
          /\ freeConns' = Append(freeConns, k)
      BY <1>2, <2>10 DEF ProcessCommands, ExecOpen, ExecListen, ExecCallback, ExecOther, ExecClose,
                         ExecSetRing, ExecDecline, Executing, CloseCmd
    <3>2. k \in Conns /\ freeConns \in Seq(Conns)
      BY <2>1, <3>1 DEF CloseCmd, TypeInv, CloseIsNamed, PoolTypes
    <3> HIDE DEF k
    <3>3. \A d \in Conns : Free(d)' => Free(d) \/ d = k
      <4>1. /\ DOMAIN freeConns' = 1 .. Len(freeConns) + 1 /\ Len(freeConns) \in Nat
            /\ DOMAIN freeConns = 1 .. Len(freeConns)
            /\ freeConns'[Len(freeConns) + 1] = k
            /\ \A i \in DOMAIN freeConns : freeConns'[i] = freeConns[i]
        BY <3>1, <3>2, EnqueueFacts
      <4> QED BY <4>1 DEF Free
    <3>4. \A b \in Bufs \ {svcCmd} : ~Names(b, k)
      BY <2>1, <3>1, <3>2, NullFacts DEF CloseIsLast
    <3>5. \A x \in Apps : ~Allocates(x, k) /\ k \notin owned[x] /\ ~Closes(x, k)
      BY <2>1, <3>1, <3>2 DEF LifeSound, OwnersSound, OwnersAt
    <3>6. ASSUME NEW d \in Conns, d = k PROVE OwnersAt(d)'
      <4>1. \A b \in Bufs : ~Names(b, d)'
        <5>1. \A b \in Bufs : b = svcCmd => ~Names(b, d)'
          BY <2>2, <2>4, <3>1, NullFacts DEF Names
        <5>2. \A b \in Bufs \ {svcCmd} : ~Names(b, d)'
          BY <2>7, <3>4, <3>6
        <5> QED BY <5>1, <5>2
      <4>2. \A b \in Bufs : ~CloseCmd(b, d)'
        BY <4>1 DEF CloseCmd, Names
      <4>3. \A x \in Apps : ~Allocates(x, d)' /\ d \notin owned'[x] /\ ~Closes(x, d)'
        BY <2>7, <3>5, <3>6
      <4> QED BY <4>1, <4>2, <4>3 DEF OwnersAt
    <3>7. \A d \in Conns : OwnersAt(d)'
      BY <2>8, <3>3, <3>6
    <3> QED BY <2>7, <3>7 DEF OwnersSound
  <2> QED BY <2>9, <2>10
<1> QED BY <1>1, <1>2

\* The second invariant is kept by user_on_accept, whose buffer names no connection.
LEMMA AcceptOwners ==
  ASSUME LifeInv, OwnerInv, Accept
  PROVE  OwnerInv'
<1> USE DEF LifeInv, OwnerInv
<1>1. PICK s \in Socks :
        \/ \E b \in Bufs : /\ GetFreeCommandBuf(b)
                           /\ cmd' = [cmd EXCEPT ![b] = Command("ACCEPTED", NULL, s)]
        \/ cmd' = cmd
  BY DEF Accept
<1>2. UNCHANGED appVars /\ UNCHANGED <<freeConns, cmdRing, svcCmd>> /\ svcCmd = NULL
  BY DEF Accept
<1>3. Command("ACCEPTED", NULL, s).conn = NULL /\ Command("ACCEPTED", NULL, s) \in Cmds
  BY CommandFacts DEF Command, Ops
<1>4. \A b \in Bufs : /\ cmd'[b].conn # NULL => cmd'[b] = cmd[b] /\ (svcCmd = b => svcCmd' = b)
                      /\ Held(b) => cmd'[b] = cmd[b]
  <2>1. CASE cmd' = cmd
    BY <1>2, <2>1
  <2>2. ASSUME NEW f \in Bufs, GetFreeCommandBuf(f),
               cmd' = [cmd EXCEPT ![f] = Command("ACCEPTED", NULL, s)]
        PROVE  \A b \in Bufs : /\ cmd'[b].conn # NULL => cmd'[b] = cmd[b]
                               /\ Held(b) => cmd'[b] = cmd[b]
    <3>1. cmd'[f].conn = NULL /\ \A b \in Bufs \ {f} : cmd'[b] = cmd[b]
      BY <1>3, <2>2, WriteFacts DEF TypeInv
    <3>2. ~Held(f)
      BY <2>2, Exclusive DEF GetFreeCommandBuf, CommandBufferConservation
    <3> QED BY <3>1, <3>2
  <2> QED BY <1>1, <1>2, <2>1, <2>2
<1>5. /\ NoExit' /\ CommandsOwned' /\ CloseIsLast'
      /\ \A x \in Apps, c \in Conns : /\ Allocates(x, c)' <=> Allocates(x, c)
                                      /\ Closes(x, c)' <=> Closes(x, c)
                                      /\ c \in owned'[x] <=> c \in owned[x]
      /\ \A b \in Bufs, c \in Conns : /\ Names(b, c)' => Names(b, c)
                                      /\ CloseCmd(b, c)' => CloseCmd(b, c)
  BY <1>2, <1>4, ServiceCommands
<1>6. \A d \in Conns : Free(d)' => Free(d)
  BY <1>2 DEF Free
<1>7. ASSUME NEW d \in Conns PROVE OwnersAt(d)'
  BY <1>5, <1>6, OwnersShrink DEF OwnersSound
<1> QED BY <1>5, <1>7 DEF OwnersSound

LEMMA OwnerInit ==
  ASSUME Init
  PROVE  OwnerInv
<1>1. \A b \in Bufs : cmd[b].op = "NONE" /\ cmd[b].conn = NULL
  BY DEF Init, Blank, Command
<1>2. /\ \A a \in Apps : at[a] = "idle" /\ owned[a] = {} /\ todo[a] = {}
      /\ cmdRing = <<>> /\ svcCmd = NULL
  BY DEF Init
<1>3. NoExit /\ CommandsOwned
  BY <1>1, <1>2 DEF NoExit, CommandsOwned
<1>4. OwnersSound
  BY <1>1, <1>2, NullFacts DEF OwnersSound, OwnersAt, Allocates, Closes, Names, CloseCmd
<1>5. CloseIsLast
  BY <1>2 DEF CloseIsLast
<1> QED BY <1>3, <1>4, <1>5 DEF OwnerInv

\* Every step keeps the second invariant, when no signal arrives.
LEMMA OwnerStep ==
  ASSUME TermSignals = FALSE, LifeInv, OwnerInv, [Next]_vars
  PROVE  OwnerInv'
<1>1. CommandBufferConservation'
  BY ConservationStep DEF LifeInv
<1>2. CASE UNCHANGED vars
  <2>1. UNCHANGED <<at, buf, idx, owned, todo, freeConns, cmd, cmdRing, svcCmd>>
    BY <1>2 DEF vars
  <2>2. NoExit' /\ CommandsOwned'
    BY <2>1 DEF OwnerInv, NoExit, CommandsOwned, Pending, InRing
  <2>3. OwnersSound'
    BY <2>1 DEF OwnerInv, OwnersSound, OwnersAt, Free, Allocates, Closes, Names, CloseCmd
  <2>4. CloseIsLast'
    BY <2>1 DEF OwnerInv, CloseIsLast, CloseCmd, Names
  <2> QED BY <2>2, <2>3, <2>4 DEF OwnerInv
<1>3. ASSUME NEW a \in Apps, AppStep(a) PROVE OwnerInv'
  BY <1>1, <1>3, AppStepOwners
<1>4. CASE ProcessCommands
  BY <1>4, ServiceStepOwners
<1>5. CASE Accept
  BY <1>5, AcceptOwners
<1>6. CASE ClosedList
  <2>1. UNCHANGED <<at, buf, idx, owned, todo, freeConns, cmd, cmdRing, svcCmd>>
    BY <1>6 DEF ClosedList, appVars
  <2>2. NoExit' /\ CommandsOwned'
    BY <2>1 DEF OwnerInv, NoExit, CommandsOwned, Pending, InRing
  <2>3. OwnersSound'
    BY <2>1 DEF OwnerInv, OwnersSound, OwnersAt, Free, Allocates, Closes, Names, CloseCmd
  <2>4. CloseIsLast'
    BY <2>1 DEF OwnerInv, CloseIsLast, CloseCmd, Names
  <2> QED BY <2>2, <2>3, <2>4 DEF OwnerInv
<1> QED BY <1>2, <1>3, <1>4, <1>5, <1>6 DEF Next

\* The second inductive invariant.  Without termination signals every connection
\* has one user, and the CLOSE that gives it back is the last command about it.
THEOREM OwnerInvariant ==
  ASSUME TermSignals = FALSE
  PROVE  Spec => [](LifeInv /\ OwnerInv)
<1>1. Init => OwnerInv
  BY OwnerInit
<1>2. LifeInv /\ OwnerInv /\ [Next]_vars => OwnerInv'
  BY OwnerStep
<1> QED BY <1>1, <1>2, LifeInvariant, PTL DEF Spec

\* What the second invariant says about the four stages of OneOwner.
LEMMA StagesExclude ==
  ASSUME LifeInv, OwnerInv, NEW c \in Conns
  PROVE  /\ Free(c) => ~Allocating(c) /\ ~Owned(c) /\ ~Closing(c)
         /\ Allocating(c) => ~Owned(c) /\ ~Closing(c)
         /\ Owned(c) => ~Closing(c)
<1>1. OwnersAt(c)
  BY DEF OwnerInv, OwnersSound
<1>2. Allocating(c) <=> \E a \in Apps : Allocates(a, c)
  BY DEF Allocating, Allocates
<1>3. Closing(c) => (\E a \in Apps : Closes(a, c)) \/ \E b \in Bufs : CloseCmd(b, c)
  BY DEF Closing, Closes, CloseCmd
<1>4. \A b \in Bufs : CloseCmd(b, c) => Names(b, c)
  BY DEF CloseCmd, Names
<1>5. Free(c) => ~Allocating(c)
  BY <1>2 DEF LifeInv, LifeSound
<1>6. Free(c) => ~Owned(c) /\ ~Closing(c)
  BY <1>1, <1>3, <1>4 DEF OwnersAt, Owned
<1>7. Allocating(c) => ~Owned(c) /\ ~Closing(c)
  BY <1>1, <1>2, <1>3, <1>4 DEF OwnersAt, Owned
<1>8. Owned(c) => ~Closing(c)
  BY <1>1, <1>3 DEF OwnersAt, Owned
<1> QED BY <1>5, <1>6, <1>7, <1>8

\* OneOwner holds in every reachable state, for any numbers of applications,
\* connections and buffers, as long as no termination signal arrives: a
\* connection index is free, being handed out, owned by one application or being
\* closed, and never two of these at once.
THEOREM ConnectionsHaveOneOwner ==
  ASSUME TermSignals = FALSE
  PROVE  Spec => []OneOwner
<1>1. ASSUME LifeInv, OwnerInv PROVE OneOwner
  <2>1. ASSUME NEW c \in Conns
        PROVE  Cardinality({p \in {"free", "allocating", "owned", "closing"} :
                      CASE p = "free" -> Free(c)
                        [] p = "allocating" -> Allocating(c)
                        [] p = "owned" -> Owned(c)
                        [] p = "closing" -> Closing(c)}) <= 1
    <3> DEFINE S == {p \in {"free", "allocating", "owned", "closing"} :
                      CASE p = "free" -> Free(c)
                        [] p = "allocating" -> Allocating(c)
                        [] p = "owned" -> Owned(c)
                        [] p = "closing" -> Closing(c)}
    <3>1. \A p, r \in S : p = r
      BY <1>1, StagesExclude
    <3> HIDE DEF S
    <3>2. S = {} \/ \E p : S = {p}
      BY <3>1
    <3>3. Cardinality(S) <= 1
      <4>1. CASE S = {}
        <5>1. Cardinality(S) = 0
          BY <4>1, FS_EmptySet
        <5> QED BY <5>1
      <4>2. ASSUME NEW p, S = {p} PROVE Cardinality(S) <= 1
        <5>1. Cardinality(S) = 1
          BY <4>2, FS_Singleton
        <5> QED BY <5>1
      <4> QED BY <3>2, <4>1, <4>2
    <3> QED BY <3>3 DEF S
  <2>2. \A i, j \in DOMAIN freeConns : freeConns[i] = freeConns[j] => i = j
    BY <1>1 DEF LifeInv, LifeSound
  <2>3. \A x, y \in Apps : owned[x] \cap owned[y] # {} => x = y
    <3>1. \A x \in Apps : owned[x] \subseteq Conns
      BY <1>1 DEF LifeInv, TypeInv, DescriptorTypes
    <3> QED BY <1>1, <3>1 DEF OwnerInv, OwnersSound, OwnersAt
  <2> QED BY <2>1, <2>2, <2>3 DEF OneOwner
<1> QED BY <1>1, OwnerInvariant, PTL

\* FreeConnectionIsQuiet holds in every reachable state, for any numbers of
\* applications, connections and buffers, as long as no termination signal
\* arrives: no command reaches the service after the connection it names was given
\* back, so the next owner's command is the first the service sees.
THEOREM FreeConnectionsStayQuiet ==
  ASSUME TermSignals = FALSE
  PROVE  Spec => []FreeConnectionIsQuiet
<1>1. LifeInv /\ OwnerInv => FreeConnectionIsQuiet
  BY DEF LifeInv, LifeSound, OwnerInv, OwnersSound, OwnersAt, Names, FreeConnectionIsQuiet
<1> QED BY <1>1, OwnerInvariant, PTL

\* ClosesOwnSocketsOnly holds as long as no termination signal arrives: it is
\* sig_handler alone that closes a connection another application owns.
THEOREM ClosesOwnSocketsWithoutSignals ==
  ASSUME TermSignals = FALSE
  PROVE  Spec => []ClosesOwnSocketsOnly
<1>1. ASSUME LifeInv, OwnerInv PROVE ClosesOwnSocketsOnly
  <2> SUFFICES ASSUME NEW a \in Apps, at[a] = "close.enq", NEW d \in Apps \ {a}
               PROVE  idx[a] \notin owned[d]
    BY DEF ClosesOwnSocketsOnly
  <2>1. idx[a] \in Conns /\ Closes(a, idx[a])
    BY <1>1 DEF LifeInv, TypeInv, HoldsAt, CallTypes, Closes
  <2> QED BY <1>1, <2>1 DEF OwnerInv, OwnersSound, OwnersAt
<1> QED BY <1>1, OwnerInvariant, PTL
===========================================================================
