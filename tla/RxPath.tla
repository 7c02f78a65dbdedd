------------------------------ MODULE RxPath ------------------------------
(***************************************************************************)
(* The receive path between the service and one application: buffers go    *)
(* from a socket's receive queue through the connection's rx_ring and the  *)
(* application's local_cache to ipaugenblick_receive, in chains: what one  *)
(* kernel_recvmsg returned stays together.  read_ready_to_app,             *)
(* the selector's ready_connections ring and SIGUSR1 tell the application  *)
(* that there is something to read; the RX_KICK command tells the service  *)
(* that there is room again.                                               *)
(*                                                                         *)
(* Service and application run on different cores without locks: a step    *)
(* contains at most one operation on the memory they share.                *)
(*                                                                         *)
(* Operators whose comment starts with "Mutant" are plausible wrong        *)
(* versions of the definition that follows them; the specification does    *)
(* not use them.                                                           *)
(***************************************************************************)
EXTENDS Naturals, SequencesExt, FiniteSets

CONSTANTS
  Conns,          \* connection indices the application uses
  Mixes,          \* which connections may be of datagram sockets
  MaxData,        \* bound: buffers that arrive during one life of an index,
  MaxDatagrams,   \* and how many of them on a datagram socket
  MaxLives,       \* bound: times an index is opened
  RxRingSize,     \* size argument of a connection's rx_ring
  CacheSize,      \* size argument of a connection's local_cache
  Burst,          \* MAX_PKT_BURST
  ReadyRingSize,  \* size argument of the selector's ready_connections
  CommandBound,   \* bound: commands of this application in command_ring
  Blocking,       \* TRUE: ipaugenblick_select is called with a NULL timeout
  KicksMayFail,   \* TRUE: other processes may leave no command buffer
  PeerFins        \* TRUE: peers may close their direction of a stream

ASSUME RxPathAssumption ==
  /\ Mixes \subseteq SUBSET Conns
  /\ MaxData \in Nat /\ MaxDatagrams \in Nat /\ MaxLives \in Nat \ {0}
  /\ RxRingSize \in Nat \ {0, 1} /\ CacheSize \in Nat \ {0, 1}
  /\ ReadyRingSize \in Nat \ {0, 1}
  /\ Burst \in Nat \ {0} /\ CommandBound \in Nat \ {0}
  /\ Blocking \in BOOLEAN /\ KicksMayFail \in BOOLEAN /\ PeerFins \in BOOLEAN

NONE == "none"

VARIABLES
  datagram,  \* connections of datagram sockets
  backlog,   \* receive queue of each connection's socket
  fin,       \* how the peer's FIN came: "none" did, "bare", or with "data"
  sent,      \* how many buffers have arrived
  queued,    \* read_queue_present: the socket is in the read_ready list
  rxRing,    \* rx_ring of each connection: a sequence of chains
  readReady, \* read_ready_to_app of each connection
  parent,    \* socket_satelite_data[c].parent_idx # -1
  attached,  \* socket_satelite_data[c].socket # NULL
  svc,       \* where user_data_available_cbk is
  commands,  \* this application's commands in command_ring
  readyRing, \* ready_connections of the selector
  level,     \* selectors[].level_mode
  open,      \* connections the application has open
  lives,     \* how often each index was opened
  cache,     \* local_cache of each connection
  got,       \* buffers returned by ipaugenblick_receive, in order
  mask,      \* connections whose local_mask has the readable bit
  ready,     \* connections select returned and the application has not drained
  at, cur, held  \* the application's step, connection and chain in hand

shared == <<rxRing, readReady, commands, readyRing>>
svcVars == <<datagram, fin, backlog, sent, queued, parent, attached, svc>>
appVars == <<level, open, lives, cache, got, mask, ready, at, cur, held>>
vars == <<shared, svcVars, appVars>>

\* rte_ring: a ring of size n holds n - 1 entries.
RingFull(ring, size) == Len(ring) >= size - 1

\* Mutant: the ring's size taken for its capacity.
RoomOfWholeRing(ring, size) == size - Len(ring)

\* rte_ring_free_count
Room(ring, size) == size - 1 - Len(ring)

Lowest(S) == CHOOSE n \in S : \A m \in S : n <= m

\* Buffers are numbered from 1 in each life of an index.
Buffers(life, n) == [i \in 1 .. n |-> <<life, i>>]

Idle == [step |-> "idle", conn |-> NONE, free |-> 0, marks |-> 0, final |-> 0]

\* All connections are open, empty and associated with the selector.
Init ==
  /\ datagram \in Mixes
  /\ fin = [c \in Conns |-> "none"]
  /\ backlog = [c \in Conns |-> <<>>]
  /\ sent = [c \in Conns |-> 0]
  /\ queued = [c \in Conns |-> FALSE]
  /\ rxRing = [c \in Conns |-> <<>>]
  /\ readReady = [c \in Conns |-> FALSE]
  /\ parent = [c \in Conns |-> TRUE]
  /\ attached = [c \in Conns |-> TRUE]
  /\ svc = Idle
  /\ commands = <<>>
  /\ readyRing = <<>>
  /\ level \in BOOLEAN
  /\ open = Conns
  /\ lives = [c \in Conns |-> 1]
  /\ cache = [c \in Conns |-> <<>>]
  /\ got = [c \in Conns |-> <<>>]
  /\ mask = {}
  /\ ready = {}
  /\ at = "select"
  /\ cur = NONE
  /\ held = <<>>

---------------------------------------------------------------------------
(* The service.                                                            *)

\* A buffer arrives, the last one of a stream perhaps with the peer's FIN:
\* tcp_data_queue then runs tcp_fin, which leaves TCP_ESTABLISHED, before it
\* calls sk_data_ready.  app_glue_sock_readable puts the socket into the list
\* of readable sockets once, and never a stream that is not established.
SockReadable(c) ==
  /\ svc = Idle
  /\ attached[c]
  /\ fin[c] = "none"
  /\ sent[c] < MaxData /\ (c \in datagram => sent[c] < MaxDatagrams)
  /\ sent' = [sent EXCEPT ![c] = @ + 1]
  /\ backlog' = [backlog EXCEPT ![c] = Append(@, <<lives[c], sent[c] + 1>>)]
  /\ \/ /\ queued' = [queued EXCEPT ![c] = TRUE]
        /\ UNCHANGED fin
     \/ /\ PeerFins /\ c \notin datagram
        /\ fin' = [fin EXCEPT ![c] = "data"]
        /\ UNCHANGED queued
  /\ UNCHANGED <<shared, datagram, parent, attached, svc, appVars>>

\* Mutant: a stream that leaves TCP_ESTABLISHED is taken out of the list.
PeerFinUnlists(c) ==
  /\ PeerFins /\ svc = Idle
  /\ attached[c]
  /\ c \notin datagram /\ fin[c] = "none"
  /\ fin' = [fin EXCEPT ![c] = "bare"]
  /\ queued' = [queued EXCEPT ![c] = FALSE]
  /\ UNCHANGED <<shared, datagram, backlog, sent, parent, attached, svc, appVars>>

\* tcp_fin on a segment without data: nothing is listed.
PeerFin(c) ==
  /\ PeerFins /\ svc = Idle
  /\ attached[c]
  /\ c \notin datagram /\ fin[c] = "none"
  /\ fin' = [fin EXCEPT ![c] = "bare"]
  /\ UNCHANGED <<shared, datagram, backlog, sent, queued, parent, attached, svc, appVars>>

\* user_data_available_cbk begins: it reads the ring's free count once.
\* final = 1 when the command that called it ends with mark_readable.
DataAvailable(c, final) ==
  svc' = [step |-> "read", conn |-> c, free |-> Room(rxRing[c], RxRingSize),
          marks |-> 0, final |-> final]

\* process_rx_ready_sockets
ProcessRxReady(c) ==
  /\ svc = Idle
  /\ queued[c]
  /\ queued' = [queued EXCEPT ![c] = FALSE]
  /\ DataAvailable(c, 0)
  /\ UNCHANGED <<shared, datagram, fin, backlog, sent, parent, attached, appVars>>

\* process_commands, for the commands this path uses.  OPEN attaches a socket
\* and the selector given to open_socket.  SET_RING attaches an accepted socket,
\* whose receive queue may already hold buffers and whose peer may have sent its
\* FIN, to an index without selector;
\* SELECT associates the selector later.  mark_writable, which SET_RING and
\* SELECT call as well, belongs to the transmit path.
ExecCommand ==
  /\ svc = Idle
  /\ commands # <<>>
  /\ commands' = Tail(commands)
  /\ LET c == Head(commands).conn IN
     CASE Head(commands).op = "OPEN" ->
            /\ attached' = [attached EXCEPT ![c] = TRUE]
            /\ parent' = [parent EXCEPT ![c] = Head(commands).sel]
            /\ UNCHANGED <<backlog, fin, sent, queued, rxRing, svc>>
       [] Head(commands).op = "SET_RING" ->
            /\ \E n \in 0 .. MaxData :
                 /\ sent' = [sent EXCEPT ![c] = n]
                 /\ backlog' = [backlog EXCEPT ![c] = Buffers(lives[c], n)]
            /\ \E f \in {"none"} \cup (IF PeerFins THEN {"bare"} ELSE {}) :
                 fin' = [fin EXCEPT ![c] = f]
            /\ attached' = [attached EXCEPT ![c] = TRUE]
            /\ DataAvailable(c, 1)
            /\ UNCHANGED <<queued, rxRing, parent>>
       [] Head(commands).op = "SELECT" ->
            /\ parent' = [parent EXCEPT ![c] = TRUE]
            /\ DataAvailable(c, 1)
            /\ UNCHANGED <<backlog, fin, sent, queued, rxRing, attached>>
       [] Head(commands).op = "RXKICK" ->
            /\ IF attached[c] THEN DataAvailable(c, 0) ELSE UNCHANGED svc
            /\ UNCHANGED <<backlog, fin, sent, queued, rxRing, parent, attached>>
       [] Head(commands).op = "CLOSE" ->
            /\ backlog' = [backlog EXCEPT ![c] = <<>>]
            /\ queued' = [queued EXCEPT ![c] = FALSE]
            /\ rxRing' = [rxRing EXCEPT ![c] = <<>>]
            /\ parent' = [parent EXCEPT ![c] = FALSE]
            /\ attached' = [attached EXCEPT ![c] = FALSE]
            /\ UNCHANGED <<fin, sent, svc>>
  /\ UNCHANGED <<readReady, readyRing, datagram, appVars>>

\* kernel_recvmsg with a size of -1: the next message of a datagram socket, all
\* that is pending on a stream socket, as one chain.
Recvmsg(c) == IF c \in datagram THEN <<Head(backlog[c])>> ELSE backlog[c]

\* The loop of user_data_available_cbk: a chain goes to rx_ring, and since the
\* ring's watermark is 1 every enqueue reports "quota exceeded", upon which
\* submit_rx_buf marks the connection readable.  Reading from the receive queue
\* calls sk_data_ready, which may put the socket back into the list it came
\* from; data that the stack had already copied for the reader does not, and
\* neither does a stream that is not established any more.
SubmitRxBuf ==
  /\ svc.step = "read"
  /\ svc.free > 0
  /\ backlog[svc.conn] # <<>>
  /\ LET chain == Recvmsg(svc.conn) IN
       /\ backlog' = [backlog EXCEPT ![svc.conn] = SubSeq(@, Len(chain) + 1, Len(@))]
       /\ rxRing' = [rxRing EXCEPT ![svc.conn] = Append(@, chain)]
  /\ \E again \in BOOLEAN :
       /\ again => fin[svc.conn] = "none"
       /\ queued' = [queued EXCEPT ![svc.conn] = @ \/ again]
  /\ svc' = [svc EXCEPT !.step = "mark", !.free = @ - 1]
  /\ UNCHANGED <<readReady, commands, readyRing, datagram, fin, sent, parent, attached, appVars>>

\* The loop ends: the socket is exhausted, or the ring is full and the
\* connection is marked readable once more.
LoopEnds ==
  /\ svc.step = "read"
  /\ svc.free = 0 \/ backlog[svc.conn] = <<>>
  /\ LET marks == svc.final + (IF svc.free = 0 THEN 1 ELSE 0) IN
     svc' = IF marks = 0 THEN Idle
            ELSE [svc EXCEPT !.step = "mark", !.marks = marks]
  /\ UNCHANGED <<shared, datagram, fin, backlog, sent, queued, parent, attached, appVars>>

\* What follows a mark_readable.
AfterMark ==
  CASE svc.marks = 0 -> [svc EXCEPT !.step = "read"]
    [] svc.marks = 1 -> Idle
    [] OTHER -> [svc EXCEPT !.step = "mark", !.marks = @ - 1]

\* kill(apppid, SIGUSR1): it interrupts pselect, and nothing else.
WakeUp ==
  /\ at' = IF at = "sleep" THEN "select" ELSE at
  /\ UNCHANGED <<level, open, lives, cache, got, mask, ready, cur, held>>

\* ipaugenblick_mark_readable up to its test-and-set.
MarkReadable ==
  /\ svc.step = "mark"
  /\ \/ /\ ~parent[svc.conn]
        /\ svc' = AfterMark
        /\ UNCHANGED <<readReady, appVars>>
     \/ /\ parent[svc.conn]
        /\ readReady[svc.conn]
        /\ svc' = AfterMark
        /\ WakeUp
        /\ UNCHANGED readReady
     \/ /\ parent[svc.conn]
        /\ ~readReady[svc.conn]
        /\ readReady' = [readReady EXCEPT ![svc.conn] = TRUE]
        /\ svc' = [svc EXCEPT !.step = "post"]
        /\ UNCHANGED appVars
  /\ UNCHANGED <<rxRing, commands, readyRing, datagram, fin, backlog, sent, queued, parent,
                 attached>>

\* The event goes to ready_connections; nobody looks at the result.
PostReadable ==
  /\ svc.step = "post"
  /\ readyRing' = IF RingFull(readyRing, ReadyRingSize) THEN readyRing
                  ELSE Append(readyRing, svc.conn)
  /\ svc' = AfterMark
  /\ WakeUp
  /\ UNCHANGED <<rxRing, readReady, commands, datagram, fin, backlog, sent, queued, parent,
                 attached>>

Service ==
  \/ \E c \in Conns : ProcessRxReady(c)
  \/ ExecCommand \/ SubmitRxBuf \/ LoopEnds \/ MarkReadable \/ PostReadable

---------------------------------------------------------------------------
(* The application: it selects, and receives on what select returned.      *)

Send(op, c, sel) ==
  /\ Len(commands) < CommandBound
  /\ commands' = Append(commands, [op |-> op, conn |-> c, sel |-> sel])

\* The walk over local_ready_cache at the start of ipaugenblick_select, which
\* holds the connections of mask in level mode only.
SelectCached ==
  /\ at = "select"
  /\ level /\ mask # {}
  /\ ready' = mask
  /\ at' = "run"
  /\ UNCHANGED <<shared, svcVars, level, open, lives, cache, got, mask, cur, held>>

\* All events are taken from ready_connections; those of a connection without
\* a selector (closed meanwhile) are skipped.
SelectDequeue ==
  /\ at = "select"
  /\ ~(level /\ mask # {})
  /\ readyRing # <<>>
  /\ LET seen == {readyRing[i] : i \in DOMAIN readyRing} \cap open IN
       /\ ready' = seen
       /\ mask' = mask \cup seen
       /\ at' = IF seen = {} THEN "select" ELSE "run"
  /\ readyRing' = <<>>
  /\ UNCHANGED <<rxRing, readReady, commands, svcVars, level, open, lives, cache,
                 got, cur, held>>

\* ready_connections was found empty; pselect is about to be called.
SelectEmpty ==
  /\ at = "select"
  /\ ~(level /\ mask # {})
  /\ readyRing = <<>>
  /\ at' = "presleep"
  /\ UNCHANGED <<shared, svcVars, level, open, lives, cache, got, mask, ready, cur,
                 held>>

SelectSleep ==
  /\ at = "presleep"
  /\ at' = "sleep"
  /\ UNCHANGED <<shared, svcVars, level, open, lives, cache, got, mask, ready, cur,
                 held>>

\* The timeout expires: select looks once more and returns -1; the application
\* calls it again.
SelectTimeout ==
  /\ at = "sleep"
  /\ ~Blocking
  /\ at' = "select"
  /\ UNCHANGED <<shared, svcVars, level, open, lives, cache, got, mask, ready, cur,
                 held>>

\* Mutant: the flag is cleared at the end of ipaugenblick_dequeue_rx_buf.
DequeueLocalKeepsFlag(c) ==
  /\ at = "run"
  /\ c \in ready
  /\ cur' = c
  /\ held' = IF cache[c] = <<>> THEN <<>> ELSE Head(cache[c])
  /\ cache' = IF cache[c] = <<>> THEN cache ELSE [cache EXCEPT ![c] = Tail(@)]
  /\ at' = "fill"
  /\ UNCHANGED <<shared, svcVars, level, open, lives, got, mask, ready>>

\* ipaugenblick_dequeue_rx_buf: a chain of the private local_cache first, and
\* the flag is cleared before rx_ring is looked at.
DequeueLocal(c) ==
  /\ at = "run"
  /\ c \in ready
  /\ cur' = c
  /\ held' = IF cache[c] = <<>> THEN <<>> ELSE Head(cache[c])
  /\ cache' = IF cache[c] = <<>> THEN cache ELSE [cache EXCEPT ![c] = Tail(@)]
  /\ readReady' = [readReady EXCEPT ![c] = FALSE]
  /\ at' = "fill"
  /\ UNCHANGED <<rxRing, commands, readyRing, svcVars, level, open, lives, got, mask,
                 ready>>

\* Mutant: what does not fit into local_cache is dropped.
DequeueBurstDrops ==
  /\ at = "fill"
  /\ LET room == Lowest({Burst, Room(cache[cur], CacheSize)})
         all == cache[cur] \o SubSeq(rxRing[cur], 1, Lowest({room, Len(rxRing[cur])})) IN
       /\ held' = IF held = <<>> /\ all # <<>> THEN Head(all) ELSE held
       /\ cache' = [cache EXCEPT ![cur] =
                      IF held = <<>> /\ all # <<>> THEN Tail(all) ELSE all]
       /\ rxRing' = [rxRing EXCEPT ![cur] = <<>>]
  /\ at' = "kick"
  /\ UNCHANGED <<readReady, commands, readyRing, svcVars, level, open, lives, got,
                 mask, ready, cur>>

\* ... then up to Burst chains move from rx_ring to local_cache, and the call
\* takes one from there if it has none yet.
DequeueBurst ==
  /\ at = "fill"
  /\ LET n == Lowest({Burst, Room(cache[cur], CacheSize), Len(rxRing[cur])})
         all == cache[cur] \o SubSeq(rxRing[cur], 1, n) IN
       /\ held' = IF held = <<>> /\ all # <<>> THEN Head(all) ELSE held
       /\ cache' = [cache EXCEPT ![cur] =
                      IF held = <<>> /\ all # <<>> THEN Tail(all) ELSE all]
       /\ rxRing' = [rxRing EXCEPT ![cur] = SubSeq(@, n + 1, Len(@))]
  /\ at' = "kick"
  /\ UNCHANGED <<readReady, commands, readyRing, svcVars, level, open, lives, got,
                 mask, ready, cur>>

\* Mutant: the service is not told that rx_ring has room.
RxKickForgotten ==
  /\ at = "kick"
  /\ UNCHANGED commands
  /\ \E more \in BOOLEAN :
       /\ held = <<>> => ~more
       /\ ~more => held = <<>> \/ level
       /\ ready' = IF more THEN ready ELSE ready \ {cur}
       /\ at' = IF ready' = {} THEN "select" ELSE "run"
  /\ got' = [got EXCEPT ![cur] = @ \o held]
  /\ mask' = IF held # <<>> THEN mask ELSE mask \ {cur}
  /\ held' = <<>>
  /\ cur' = NONE
  /\ UNCHANGED <<rxRing, readReady, readyRing, svcVars, level, open, lives, cache>>

\* ... and RX_KICK is sent if there is a command buffer.  The call returns the
\* chain, or -1 after taking the connection out of local_ready_cache.  The
\* application goes on until it gets -1; in level mode it may stop before.
RxKick ==
  /\ at = "kick"
  /\ \/ Send("RXKICK", cur, FALSE)
     \/ KicksMayFail /\ UNCHANGED commands
  /\ \E more \in BOOLEAN :
       /\ held = <<>> => ~more
       /\ ~more => held = <<>> \/ level
       /\ ready' = IF more THEN ready ELSE ready \ {cur}
       /\ at' = IF ready' = {} THEN "select" ELSE "run"
  /\ got' = [got EXCEPT ![cur] = @ \o held]
  /\ mask' = IF held # <<>> THEN mask ELSE mask \ {cur}
  /\ held' = <<>>
  /\ cur' = NONE
  /\ UNCHANGED <<rxRing, readReady, readyRing, svcVars, level, open, lives, cache>>

\* ipaugenblick_close of a connection that will be used again: CLOSE is queued
Close(c) ==
  /\ at \in {"run", "select"}
  /\ c \in open
  /\ lives[c] < MaxLives
  /\ Send("CLOSE", c, FALSE)
  /\ open' = open \ {c}
  /\ cur' = c
  /\ at' = "flush"
  /\ UNCHANGED <<rxRing, readReady, readyRing, svcVars, level, lives, cache, got, mask,
                 ready, held>>

\* Mutant: local_cache is not flushed.
CloseFlushRingOnly ==
  /\ at = "flush"
  /\ rxRing' = [rxRing EXCEPT ![cur] = <<>>]
  /\ mask' = mask \ {cur}
  /\ ready' = ready \ {cur}
  /\ at' = IF ready' = {} THEN "select" ELSE "run"
  /\ cur' = NONE
  /\ UNCHANGED <<readReady, commands, readyRing, svcVars, level, open, lives, cache, got,
                 held>>

\* ... and only then local_cache and rx_ring are flushed and the selector is
\* forgotten.
CloseFlush ==
  /\ at = "flush"
  /\ cache' = [cache EXCEPT ![cur] = <<>>]
  /\ rxRing' = [rxRing EXCEPT ![cur] = <<>>]
  /\ mask' = mask \ {cur}
  /\ ready' = ready \ {cur}
  /\ at' = IF ready' = {} THEN "select" ELSE "run"
  /\ cur' = NONE
  /\ UNCHANGED <<readReady, commands, readyRing, svcVars, level, open, lives, got, held>>

\* ipaugenblick_open_socket or ipaugenblick_accept gets the same index again,
\* after the service executed the CLOSE: open_socket with a selector, or either
\* without one and set_socket_select next.
Open(c) ==
  /\ at \in {"run", "select"}
  /\ c \notin open
  /\ ~attached[c]
  /\ \A i \in DOMAIN commands : commands[i].conn # c
  /\ \/ Send("OPEN", c, TRUE)
     \/ /\ Len(commands) + 1 < CommandBound
        /\ \E op \in {"OPEN"} \cup (IF c \in datagram THEN {} ELSE {"SET_RING"}) :
             commands' = commands \o <<[op |-> op, conn |-> c, sel |-> FALSE],
                                       [op |-> "SELECT", conn |-> c, sel |-> FALSE]>>
  /\ open' = open \cup {c}
  /\ lives' = [lives EXCEPT ![c] = @ + 1]
  /\ got' = [got EXCEPT ![c] = <<>>]
  /\ fin' = [fin EXCEPT ![c] = "none"]
  /\ sent' = [sent EXCEPT ![c] = 0]
  /\ UNCHANGED <<rxRing, readReady, readyRing, datagram, backlog, queued, parent,
                 attached, svc, level, cache, mask, ready, at, cur, held>>

App ==
  \/ SelectCached \/ SelectDequeue \/ SelectEmpty \/ SelectSleep \/ SelectTimeout
  \/ \E c \in Conns : DequeueLocal(c)
  \/ DequeueBurst \/ RxKick \/ CloseFlush

Next ==
  \/ Service \/ App
  \/ \E c \in Conns : SockReadable(c) \/ PeerFin(c) \/ Close(c) \/ Open(c)

Spec == Init /\ [][Next]_vars

\* The service's loop never stops, and the application keeps selecting and
\* receiving.
FairSpec == Spec /\ WF_vars(Service) /\ WF_vars(App)

---------------------------------------------------------------------------
(* Properties.                                                             *)

Numbered == (1 .. MaxLives) \X (1 .. MaxData)

\* Type invariant.
TypeOK ==
  /\ datagram \in SUBSET Conns
  /\ backlog \in [Conns -> Seq(Numbered)]
  /\ fin \in [Conns -> {"none", "bare", "data"}]
  /\ sent \in [Conns -> 0 .. MaxData]
  /\ queued \in [Conns -> BOOLEAN]
  /\ rxRing \in [Conns -> Seq(Seq(Numbered))]
  /\ readReady \in [Conns -> BOOLEAN]
  /\ parent \in [Conns -> BOOLEAN] /\ attached \in [Conns -> BOOLEAN]
  /\ svc \in [step : {"idle", "read", "mark", "post"}, conn : Conns \cup {NONE},
              free : 0 .. RxRingSize - 1, marks : 0 .. 2, final : 0 .. 1]
  /\ commands \in Seq([op : {"OPEN", "SET_RING", "SELECT", "RXKICK", "CLOSE"}, conn : Conns,
                       sel : BOOLEAN])
  /\ readyRing \in Seq(Conns)
  /\ level \in BOOLEAN
  /\ open \in SUBSET Conns
  /\ lives \in [Conns -> 1 .. MaxLives]
  /\ cache \in [Conns -> Seq(Seq(Numbered))]
  /\ got \in [Conns -> Seq(Numbered)]
  /\ mask \in SUBSET Conns /\ ready \in SUBSET Conns
  /\ at \in {"select", "presleep", "sleep", "run", "fill", "kick", "flush"}
  /\ cur \in Conns \cup {NONE}
  /\ held \in Seq(Numbered)

\* While a connection is attached nothing that arrived is lost, duplicated or
\* reordered, wherever it is on its way to the application; a message of a
\* datagram socket is never joined with another one; and the rings do not
\* overflow ("shoud not happen!!!" in user_data_available_cbk).
InHand(c) == IF cur = c THEN held ELSE <<>>
OnTheWay(c) == InHand(c) \o FlattenSeq(cache[c]) \o FlattenSeq(rxRing[c]) \o backlog[c]
StreamIntact ==
  \A c \in open :
    /\ attached[c] => got[c] \o OnTheWay(c) = Buffers(lives[c], sent[c])
    /\ c \in datagram => \A i \in DOMAIN rxRing[c] : Len(rxRing[c][i]) = 1
    /\ Len(rxRing[c]) < RxRingSize /\ Len(cache[c]) < CacheSize

\* The receive path implements a stream: what ipaugenblick_receive returns was
\* sent to this connection, in this life of its index and in this order, and
\* is never returned twice.
ST == INSTANCE Stream WITH lossy <- {}, life <- lives, given <- sent, delivered <- got
ImplementsStream == ST!SSpec

\* A connection whose rx_ring has something to read is known to the
\* application or about to be announced to it: its event is in
\* ready_connections, select returned it, level mode remembers it, or the
\* service is at this moment marking it.
Announced(c) ==
  \/ \E i \in DOMAIN readyRing : readyRing[i] = c
  \/ c \in ready
  \/ level /\ c \in mask
  \/ svc.conn = c
  \/ ~parent[c]
ReadableIsAnnounced == \A c \in open : rxRing[c] # <<>> => Announced(c)

\* Everything that arrives is eventually returned by ipaugenblick_receive, as
\* long as the application neither closes the connection nor stops selecting.
\* A buffer that came with the peer's FIN is the exception: nobody lists its
\* socket, and it waits for a command that happens to read the socket.
Due(c) == sent[c] - (IF fin[c] = "data" THEN 1 ELSE 0)
DataIsReceived ==
  \A c \in Conns : (Due(c) > Len(got[c])) ~> (Due(c) <= Len(got[c]) \/ c \notin open)
===========================================================================
