------------------------------ MODULE TxPath ------------------------------
(***************************************************************************)
(* The transmit path between one application and the service: buffers go   *)
(* from ipaugenblick_send through the connection's tx_ring into the send   *)
(* queue of its socket.  write_done_from_app and the TX_KICK command tell  *)
(* the service that there is something to send; write_ready_to_app and the *)
(* selector's ready_connections ring tell the application that it may      *)
(* write; tx_space, which both sides update, says how much; the list of    *)
(* sockets waiting for buffers is served by the service's main loop.       *)
(*                                                                         *)
(* Service and application run on different cores without locks: a step    *)
(* contains at most one write to the memory they share.  The application   *)
(* is the loop of the test clients: on each writable event it asks for     *)
(* tx_space, sends, and kicks until the kick succeeds.                     *)
(*                                                                         *)
(* Operators whose comment starts with "Mutant" are plausible wrong        *)
(* versions of the definition that follows them; the specification does    *)
(* not use them.                                                           *)
(***************************************************************************)
EXTENDS Integers, Sequences, FiniteSets

CONSTANTS
  Conns,          \* connection indices the application uses
  Kinds,          \* of sockets: "connected" and "accepted" streams, "datagram"
  Short,          \* those on which it sends short buffers
  MaxData,        \* bound: buffers the application has to send on each
  MaxDrains,      \* bound: times the other users empty the buffer pool
  SndBuf,         \* sk_sndbuf in buffers: the initial tx_space
  ShortRoom,      \* short buffers that fill the send queue (skb overhead)
  SizeGoals,      \* buffers one kernel_sendpage takes at most; 0 if the MSS is below 1448
  GiveBacks,      \* times the stack returns a buffer's space (see Ack)
  LowMark,        \* below this tx_space the application asks to be notified
  TxRingSize,     \* size argument of a connection's tx_ring
  ReadyRingSize,  \* size argument of the selector's ready_connections
  CommandBound,   \* bound: commands of this application in command_ring
  KicksMayFail,   \* TRUE: other processes may leave no command buffer
  PeerFins,       \* TRUE: peers may close their direction of a stream
  SendsMayFail,   \* TRUE: udp_sendmsg may fail although the send buffer has room
  MayClose        \* TRUE: the application may close connections

NONE == "none"

ASSUME TxPathAssumption ==
  /\ IsFiniteSet(Conns)
  /\ Kinds \subseteq {"connected", "accepted", "datagram"} /\ Short \subseteq Conns
  /\ MaxData \in Nat /\ MaxDrains \in Nat
  /\ SndBuf \in Nat \ {0} /\ ShortRoom \in 1 .. SndBuf
  /\ SizeGoals \subseteq Nat /\ SizeGoals # {} /\ GiveBacks \subseteq Nat /\ 1 \in GiveBacks
  /\ LowMark \in Nat
  /\ TxRingSize \in Nat \ {0, 1} /\ ReadyRingSize \in Nat \ {0, 1}
  /\ CommandBound \in Nat \ {0}
  /\ {KicksMayFail, PeerFins, SendsMayFail, MayClose} \subseteq BOOLEAN

VARIABLES
  kind,       \* of each connection's socket
  txRing,     \* tx_ring of each connection
  txSpace,    \* tx_space of each connection
  writeReady, \* write_ready_to_app of each connection
  writeDone,  \* write_done_from_app of each connection
  commands,   \* this application's commands in command_ring
  readyRing,  \* ready_connections of the selector
  dry,        \* mbufs_mempool is empty
  drains,     \* how often it ran empty
  sendQueue,  \* send queue of each connection's socket
  acked,      \* buffers the peer acknowledged
  drift,      \* history: space the stack returned too often, less what it never returned
  finned,     \* streams whose peer sent its FIN: TCP_CLOSE_WAIT, not TCP_ESTABLISHED
  noSpace,    \* SOCK_NOSPACE of each socket
  writeQueue, \* sockets in the write_ready list
  parent,     \* socket_satelite_data[c].parent_idx # -1
  attached,   \* socket_satelite_data[c].socket # NULL
  starved,    \* buffers_available_notification_socket_list
  svc,        \* where the service is
  up,         \* the service process is running
  open,       \* connections the application has open
  sent,       \* buffers handed to ipaugenblick_send with success
  ready,      \* connections select returned and the application has to serve
  at, cur, want  \* the application's step, connection, buffers it will send

shared == <<txRing, txSpace, writeReady, writeDone, commands, readyRing>>
env == <<kind, dry, drains>>
tcp == <<drift, finned>>
svcVars == <<sendQueue, acked, tcp, noSpace, writeQueue, parent, attached, starved, svc, up>>
appVars == <<open, sent, ready, at, cur, want>>
vars == <<shared, env, svcVars, appVars>>

Accepted == {c \in Conns : kind[c] = "accepted"}
Datagrams == {c \in Conns : kind[c] = "datagram"}

Least(S) == CHOOSE n \in S : \A m \in S : n <= m

Remove(s, c) == SelectSeq(s, LAMBDA d : d # c)

\* sk_stream_wspace (sock.h:853) in buffers of this connection; for a datagram
\* socket what sk_wmem_alloc leaves of the send buffer.
WSpace(c) == (IF c \in Short THEN ShortRoom ELSE SndBuf) - Len(sendQueue[c])

\* sk_stream_is_writeable (sock.h:1220): a third of the send buffer is free.
IsWriteable(c, queue) ==
  LET free == WSpace(c) + Len(sendQueue[c]) - Len(queue)
  IN  free > 0 /\ 2 * free >= Len(queue)

\* app_glue_sock_write_space relists the socket if its send queue is queue: not one
\* that was closed (no sk_socket), and a stream only while it is established.
\* sk_wmem_queued of a datagram socket is 0: it is always writeable.
WriteSpace(c, queue) ==
  attached[c] /\ (c \in Datagrams \/ (c \notin finned /\ IsWriteable(c, queue)))

Idle == [step |-> "idle", conn |-> NONE, goal |-> 0, took |-> 0, caller |-> NONE]
Notify == [Idle EXCEPT !.step = "notify"]

\* Connected sockets are established and their state change put them into the
\* write_ready list, as app_glue_create_socket did with datagram sockets;
\* accepted ones have their SET_RING and SELECT queued.
Init ==
  /\ kind \in [Conns -> Kinds]
  /\ txRing = [c \in Conns |-> <<>>]
  /\ txSpace = [c \in Conns |-> IF c \in Accepted THEN 0 ELSE SndBuf]
  /\ writeReady = [c \in Conns |-> FALSE]
  /\ writeDone = [c \in Conns |-> FALSE]
  /\ \E order \in [1 .. Cardinality(Accepted) -> Accepted] :
       /\ {order[i] : i \in DOMAIN order} = Accepted
       /\ commands = [i \in 1 .. 2 * Len(order) |->
                        [op |-> IF i % 2 = 1 THEN "SET_RING" ELSE "SELECT",
                         conn |-> order[(i + 1) \div 2]]]
  /\ readyRing = <<>>
  /\ dry = FALSE /\ drains = 0
  /\ sendQueue = [c \in Conns |-> <<>>]
  /\ acked = [c \in Conns |-> <<>>]
  /\ drift = [c \in Conns |-> 0]
  /\ finned = {}
  /\ noSpace = [c \in Conns |-> FALSE]
  /\ writeQueue = Conns \ Accepted
  /\ parent = [c \in Conns |-> c \notin Accepted]
  /\ attached = [c \in Conns |-> c \notin Accepted]
  /\ starved = <<>>
  /\ svc = Idle
  /\ up = TRUE
  /\ open = Conns
  /\ sent = [c \in Conns |-> 0]
  /\ ready = {}
  /\ at = "select" /\ cur = NONE /\ want = 0

---------------------------------------------------------------------------
(* The service.                                                            *)

\* user_on_transmission_opportunity begins, called for a command or from
\* process_tx_ready_sockets.
Opportunity(c, caller) ==
  [step |-> "clear", conn |-> c, goal |-> 0, took |-> 0, caller |-> caller]

MarkFor(c, caller) == [Opportunity(c, caller) EXCEPT !.step = "mark"]

\* process_commands, for the commands of this path; user_data_available_cbk and
\* mark_readable of SET_RING and SELECT belong to the receive path.  CLOSE takes
\* the socket out of the ready lists but not out of the starved list; tcp_close
\* goes on sending what is queued, or resets the connection if data was unread.
ExecCommand ==
  /\ up /\ svc = Idle
  /\ commands # <<>>
  /\ commands' = Tail(commands)
  /\ LET c == Head(commands).conn IN
     CASE Head(commands).op = "SET_RING" ->
            /\ attached' = [attached EXCEPT ![c] = TRUE]
            /\ txSpace' = [txSpace EXCEPT ![c] = SndBuf]
            /\ svc' = MarkFor(c, "command")
            /\ UNCHANGED <<parent, starved, txRing, sendQueue, writeQueue>>
       [] Head(commands).op = "SELECT" ->
            /\ parent' = [parent EXCEPT ![c] = TRUE]
            /\ svc' = MarkFor(c, "command")
            /\ UNCHANGED <<attached, starved, txRing, txSpace, sendQueue, writeQueue>>
       [] Head(commands).op = "TX_KICK" ->
            /\ svc' = IF attached[c] THEN Opportunity(c, "command") ELSE Notify
            /\ UNCHANGED <<attached, parent, starved, txRing, txSpace, sendQueue,
                           writeQueue>>
       [] Head(commands).op = "POOL_EMPTY" ->
            /\ starved' = IF attached[c] /\ ~\E i \in DOMAIN starved : starved[i] = c
                          THEN Append(starved, c) ELSE starved
            /\ txSpace' = IF c \in Datagrams /\ starved' # starved
                          THEN [txSpace EXCEPT ![c] = SndBuf] ELSE txSpace
            /\ svc' = Notify
            /\ UNCHANGED <<attached, parent, txRing, sendQueue, writeQueue>>
       [] Head(commands).op = "CLOSE" ->
            /\ txRing' = [txRing EXCEPT ![c] = <<>>]
            /\ \E rest \in {sendQueue[c]} \cup (IF c \in Datagrams THEN {} ELSE {<<>>}) :
                 sendQueue' = [sendQueue EXCEPT ![c] = rest]
            /\ writeQueue' = writeQueue \ {c}
            /\ attached' = [attached EXCEPT ![c] = FALSE]
            /\ parent' = [parent EXCEPT ![c] = FALSE]
            /\ svc' = Notify
            /\ UNCHANGED <<starved, txSpace>>
  /\ UNCHANGED <<writeReady, writeDone, readyRing, env, acked, tcp, noSpace, up, appVars>>

\* process_tx_ready_sockets takes a socket; it sets SOCK_NOSPACE at the end.
ProcessTxReady(c) ==
  /\ up /\ svc = Idle
  /\ c \in writeQueue
  /\ writeQueue' = writeQueue \ {c}
  /\ svc' = Opportunity(c, "txready")
  /\ UNCHANGED <<shared, env, sendQueue, acked, tcp, noSpace, parent, attached, starved, up,
                 appVars>>

\* user_transmitted_callback is called back times for a buffer: only an open
\* stream has a socket with tx_space.
GiveBack(c, back) ==
  IF attached[c] /\ c \notin Datagrams
  THEN /\ txSpace' = [txSpace EXCEPT ![c] = @ + back]
       /\ drift' = [drift EXCEPT ![c] = @ + back - 1]
  ELSE UNCHANGED <<txSpace, drift>>

\* Mutant: only the last buffer of the send queue gives its space back.
AckOfLastOnly(c) ==
  /\ up /\ svc = Idle
  /\ sendQueue[c] # <<>>
  /\ acked' = [acked EXCEPT ![c] = Append(@, Head(sendQueue[c]))]
  /\ sendQueue' = [sendQueue EXCEPT ![c] = Tail(@)]
  /\ IF Tail(sendQueue[c]) = <<>> THEN GiveBack(c, 1) ELSE UNCHANGED <<txSpace, drift>>
  /\ UNCHANGED <<txRing, writeReady, writeDone, commands, readyRing, env, finned, noSpace,
                 writeQueue, parent, attached, starved, svc, up, appVars>>

\* The stack handles an acknowledgement: user_transmitted_callback gives the
\* space back, and tcp_check_space calls app_glue_sock_write_space if
\* SOCK_NOSPACE is set.  The space comes back once for each skb the buffer is in
\* when that skb is freed: more than once if skb_split divided the buffer, not at
\* all if tcp_trim_head dropped it from an skb acknowledged in part.  A datagram
\* that left the driver gives no tx_space back, but sock_wfree calls
\* app_glue_sock_write_space at once.
Ack(c) ==
  /\ up /\ svc = Idle
  /\ sendQueue[c] # <<>>
  /\ acked' = [acked EXCEPT ![c] = Append(@, Head(sendQueue[c]))]
  /\ sendQueue' = [sendQueue EXCEPT ![c] = Tail(@)]
  /\ \E back \in GiveBacks : GiveBack(c, back)
  /\ IF (c \in Datagrams \/ noSpace[c]) /\ WriteSpace(c, Tail(sendQueue[c]))
     THEN /\ noSpace' = [noSpace EXCEPT ![c] = FALSE]
          /\ writeQueue' = writeQueue \cup {c}
     ELSE UNCHANGED <<noSpace, writeQueue>>
  /\ UNCHANGED <<txRing, writeReady, writeDone, commands, readyRing, env, finned, parent,
                 attached, starved, svc, up, appVars>>

\* tcp_fin: the peer has nothing more to send and the stream leaves
\* TCP_ESTABLISHED; what this side sends goes on.
PeerFin(c) ==
  /\ PeerFins /\ up /\ svc = Idle
  /\ c \in open \ (Datagrams \cup finned)
  /\ finned' = finned \cup {c}
  /\ UNCHANGED <<shared, env, sendQueue, acked, drift, noSpace, writeQueue, parent,
                 attached, starved, svc, up, appVars>>

\* Mutant: the count comes first and the flag is cleared after the socket was
\* written.
ClearAfterSending ==
  /\ up /\ svc.step \in {"clear", "clear2"}
  /\ writeDone' = IF svc.step = "clear" THEN writeDone
                  ELSE [writeDone EXCEPT ![svc.conn] = FALSE]
  /\ svc' = [svc EXCEPT !.step = IF @ = "clear" THEN "count" ELSE "mark"]
  /\ UNCHANGED <<txRing, txSpace, writeReady, commands, readyRing, env, sendQueue, acked, tcp,
                 noSpace, writeQueue, parent, attached, starved, up, appVars>>

\* ipaugenblick_tx_buf_count clears write_done_from_app before it counts; the
\* result of the second call, after the socket was written, is not used.
ClearWriteDone ==
  /\ up /\ svc.step \in {"clear", "clear2"}
  /\ writeDone' = [writeDone EXCEPT ![svc.conn] = FALSE]
  /\ svc' = [svc EXCEPT !.step = IF @ = "clear" THEN "count" ELSE "mark"]
  /\ UNCHANGED <<txRing, txSpace, writeReady, commands, readyRing, env, sendQueue, acked, tcp,
                 noSpace, writeQueue, parent, attached, starved, up, appVars>>

CountTxBufs ==
  /\ up /\ svc.step = "count"
  /\ LET entries == Len(txRing[svc.conn]) IN
       svc' = IF entries = 0 THEN [svc EXCEPT !.step = "mark"]
              ELSE IF svc.conn \in Datagrams THEN [svc EXCEPT !.step = "burst", !.goal = entries]
              ELSE [svc EXCEPT !.step = "send"]
  /\ UNCHANGED <<shared, env, sendQueue, acked, tcp, noSpace, writeQueue, parent, attached,
                 starved, up, appVars>>

\* The loop around kernel_sendpage: it goes on while the socket has room.
SendPage ==
  /\ up /\ svc.step = "send"
  /\ \E goal \in SizeGoals :
       svc' = IF WSpace(svc.conn) > 0
              THEN [svc EXCEPT !.step = "page", !.goal = goal, !.took = 0]
              ELSE [svc EXCEPT !.step = "clear2"]
  /\ UNCHANGED <<shared, env, sendQueue, acked, tcp, noSpace, writeQueue, parent, attached,
                 starved, up, appVars>>

\* user_get_buffer takes a buffer from tx_ring for the page being sent.
DequeueTxBuf ==
  /\ up /\ svc.step = "page"
  /\ svc.goal > 0
  /\ txRing[svc.conn] # <<>>
  /\ txRing' = [txRing EXCEPT ![svc.conn] = Tail(@)]
  /\ sendQueue' = [sendQueue EXCEPT ![svc.conn] = Append(@, Head(txRing[svc.conn]))]
  /\ svc' = [svc EXCEPT !.goal = @ - 1, !.took = @ + 1]
  /\ UNCHANGED <<txSpace, writeReady, writeDone, commands, readyRing, env, acked, tcp, noSpace,
                 writeQueue, parent, attached, starved, up, appVars>>

\* Mutant: the buffers of a page overwrite each other, and its last one is left.
PageDoneKeepsLast ==
  /\ up /\ svc.step = "page"
  /\ svc.goal = 0 \/ txRing[svc.conn] = <<>>
  /\ sendQueue' = [sendQueue EXCEPT ![svc.conn] =
                     IF svc.took = 0 THEN @
                     ELSE Append(SubSeq(@, 1, Len(@) - svc.took), @[Len(@)])]
  /\ svc' = [svc EXCEPT !.step = IF svc.took = 0 THEN "clear2" ELSE "send"]
  /\ UNCHANGED <<shared, env, acked, tcp, noSpace, writeQueue, parent, attached, starved, up,
                 appVars>>

\* kernel_sendpage returns; the loop ends when it sent nothing.
PageDone ==
  /\ up /\ svc.step = "page"
  /\ svc.goal = 0 \/ txRing[svc.conn] = <<>>
  /\ svc' = [svc EXCEPT !.step = IF svc.took = 0 THEN "clear2" ELSE "send"]
  /\ UNCHANGED <<shared, env, sendQueue, acked, tcp, noSpace, writeQueue, parent, attached,
                 starved, up, appVars>>

\* ipaugenblick_mark_writable returned keep (TRUE: non-zero) to its caller: a
\* command or process_tx_ready_sockets ignore it, the main loop takes the
\* socket from the starved list or gives up for this round.
Return(keep) ==
  CASE svc.caller = "command" ->
         svc' = Notify /\ UNCHANGED <<noSpace, starved>>
    [] svc.caller = "txready" ->
         /\ svc' = Notify
         /\ noSpace' = [noSpace EXCEPT ![svc.conn] = TRUE]
         /\ UNCHANGED starved
    [] svc.caller = "starved" ->
         /\ svc' = IF keep THEN Idle ELSE Notify
         /\ starved' = IF keep THEN starved ELSE Tail(starved)
         /\ UNCHANGED noSpace

\* Mutant: the datagrams after the one that could not be sent are put back
\* behind what the application has added meanwhile.
SendBurstPutsBack ==
  /\ up /\ svc.step = "burst"
  /\ LET c == svc.conn
         fits == Least({svc.goal, WSpace(c)})
     IN \E done \in IF SendsMayFail THEN 0 .. fits ELSE {fits} :
          /\ txRing' = [txRing EXCEPT ![c] =
                          SubSeq(@, svc.goal + 1, Len(@)) \o SubSeq(@, done + 1, svc.goal)]
          /\ sendQueue' = [sendQueue EXCEPT ![c] = @ \o SubSeq(txRing[c], 1, done)]
          /\ IF done = svc.goal
             THEN svc' = Opportunity(c, svc.caller) /\ UNCHANGED <<noSpace, starved>>
             ELSE Return(FALSE)
  /\ UNCHANGED <<txSpace, writeReady, writeDone, commands, readyRing, env, acked, tcp,
                 writeQueue, parent, attached, up, appVars>>

\* The datagram branch: what was counted is taken from tx_ring and sent one by
\* one.  If udp_sendmsg fails, the rest of the burst is freed and the
\* application not told; otherwise the loop counts again.
SendBurst ==
  /\ up /\ svc.step = "burst"
  /\ LET c == svc.conn
         fits == Least({svc.goal, WSpace(c)})
     IN \E done \in IF SendsMayFail THEN 0 .. fits ELSE {fits} :
          /\ txRing' = [txRing EXCEPT ![c] = SubSeq(@, svc.goal + 1, Len(@))]
          /\ sendQueue' = [sendQueue EXCEPT ![c] = @ \o SubSeq(txRing[c], 1, done)]
          /\ IF done = svc.goal
             THEN svc' = Opportunity(c, svc.caller) /\ UNCHANGED <<noSpace, starved>>
             ELSE Return(FALSE)
  /\ UNCHANGED <<txSpace, writeReady, writeDone, commands, readyRing, env, acked, tcp,
                 writeQueue, parent, attached, up, appVars>>

\* ipaugenblick_mark_writable up to its test-and-set.  Without a selector it
\* returns 1; with the flag already set it returns no value at all, so the
\* caller may see anything.
MarkWritable ==
  /\ up /\ svc.step = "mark"
  /\ \/ /\ ~parent[svc.conn]
        /\ Return(TRUE)
        /\ UNCHANGED writeReady
     \/ /\ parent[svc.conn] /\ writeReady[svc.conn]
        /\ \E undefined \in BOOLEAN : Return(undefined)
        /\ UNCHANGED writeReady
     \/ /\ parent[svc.conn] /\ ~writeReady[svc.conn]
        /\ writeReady' = [writeReady EXCEPT ![svc.conn] = TRUE]
        /\ svc' = [svc EXCEPT !.step = "post"]
        /\ UNCHANGED <<noSpace, starved>>
  /\ UNCHANGED <<txRing, txSpace, writeDone, commands, readyRing, env, sendQueue, acked, tcp,
                 writeQueue, parent, attached, up, appVars>>

PostWritable ==
  /\ up /\ svc.step = "post"
  /\ LET full == Len(readyRing) >= ReadyRingSize - 1 IN
       /\ readyRing' = IF full THEN readyRing ELSE Append(readyRing, svc.conn)
       /\ Return(full)
  /\ UNCHANGED <<txRing, txSpace, writeReady, writeDone, commands, env, sendQueue, acked, tcp,
                 writeQueue, parent, attached, up, appVars>>

\* The end of an iteration of ipaugenblick_main_loop: sockets waiting for
\* buffers are marked writable while there are buffers.  A socket that was closed
\* meanwhile has no sk, or an sk without user data: either ends the process, as
\* long as no other socket was created in its memory.
ServeStarved ==
  /\ up /\ svc.step = "notify"
  /\ \/ /\ starved = <<>> \/ dry
        /\ svc' = Idle
        /\ UNCHANGED up
     \/ /\ starved # <<>> /\ ~dry
        /\ up' = attached[Head(starved)]
        /\ svc' = MarkFor(Head(starved), "starved")
  /\ txSpace' = IF svc'.step = "mark" /\ up' /\ Head(starved) \in Datagrams
                THEN [txSpace EXCEPT ![Head(starved)] = SndBuf] ELSE txSpace
  /\ UNCHANGED <<txRing, writeReady, writeDone, commands, readyRing, env, sendQueue, acked, tcp,
                 noSpace, writeQueue, parent, attached, starved, appVars>>

\* An iteration without a command.
MainLoop ==
  /\ up /\ svc = Idle
  /\ commands = <<>> /\ starved # <<>> /\ ~dry
  /\ svc' = Notify
  /\ UNCHANGED <<shared, env, sendQueue, acked, tcp, noSpace, writeQueue, parent, attached,
                 starved, up, appVars>>

InCallback ==
  \/ ClearWriteDone \/ CountTxBufs \/ SendPage \/ DequeueTxBuf \/ PageDone
  \/ SendBurst \/ MarkWritable \/ PostWritable \/ ServeStarved

---------------------------------------------------------------------------
(* The buffer env, which all applications and the receive path share.     *)

PoolRunsDry ==
  /\ ~dry /\ drains < MaxDrains
  /\ dry' = TRUE /\ drains' = drains + 1
  /\ UNCHANGED <<kind, shared, svcVars, appVars>>

PoolRefilled ==
  /\ dry
  /\ dry' = FALSE
  /\ UNCHANGED <<kind, drains, shared, svcVars, appVars>>

---------------------------------------------------------------------------
(* The application.                                                        *)

Queue(op, c) ==
  /\ Len(commands) < CommandBound
  /\ commands' = Append(commands, [op |-> op, conn |-> c])

\* ipaugenblick_select returns the writable connections, on a selector in edge
\* mode, the mode it is opened in: events are returned once.
Select ==
  /\ at = "select"
  /\ readyRing # <<>>
  /\ ready' = {readyRing[i] : i \in DOMAIN readyRing} \cap open
  /\ at' = IF ready' = {} THEN "select" ELSE "run"
  /\ readyRing' = <<>>
  /\ UNCHANGED <<txRing, txSpace, writeReady, writeDone, commands, env, svcVars, open,
                 sent, cur, want>>

\* Mutant: only ring and pool are looked at, not the socket's tx_space.
GetTxSpaceOfRing(c) ==
  /\ at = "run"
  /\ c \in ready
  /\ LET space == Least({TxRingSize - 1 - Len(txRing[c]), IF dry THEN 0 ELSE SndBuf}) IN
       /\ want' = Least({space, MaxData - sent[c]})
       /\ at' = IF space < LowMark THEN "low" ELSE "send"
  /\ cur' = c
  /\ UNCHANGED <<shared, env, svcVars, open, sent, ready>>

\* ipaugenblick_get_socket_tx_space: the service only adds to what is read here.
GetTxSpace(c) ==
  /\ at = "run"
  /\ c \in ready
  /\ LET space == Least({TxRingSize - 1 - Len(txRing[c]), txSpace[c],
                         IF dry THEN 0 ELSE SndBuf}) IN
       /\ want' = Least({space, MaxData - sent[c]})
       /\ at' = IF space < LowMark THEN "low" ELSE "send"
  /\ cur' = c
  /\ UNCHANGED <<shared, env, svcVars, open, sent, ready>>

\* Mutant: the flag stays set.
ClearWriteReadyForgotten ==
  /\ at = "low"
  /\ at' = "notify"
  /\ UNCHANGED <<shared, env, svcVars, open, sent, ready, cur, want>>

\* ... little or no space: the flag is cleared
ClearWriteReady ==
  /\ at = "low"
  /\ writeReady' = [writeReady EXCEPT ![cur] = FALSE]
  /\ at' = "notify"
  /\ UNCHANGED <<txRing, txSpace, writeDone, commands, readyRing, env, svcVars, open,
                 sent, ready, cur, want>>

\* ... and ipaugenblick_notify_empty_tx_buffers asks for an event, if there is
\* a command buffer.
NotifyEmpty ==
  /\ at = "notify"
  /\ \/ Queue("POOL_EMPTY", cur)
     \/ KicksMayFail /\ UNCHANGED commands
  /\ at' = "send"
  /\ UNCHANGED <<txRing, txSpace, writeReady, writeDone, readyRing, env, svcVars, open,
                 sent, ready, cur, want>>

\* ipaugenblick_get_buffer fails: the application stops sending.
GetBufferFails ==
  /\ at = "send" /\ want > 0
  /\ dry
  /\ want' = 0
  /\ at' = "notify"
  /\ UNCHANGED <<shared, env, svcVars, open, sent, ready, cur>>

\* ipaugenblick_get_buffer, and ipaugenblick_send up to the clear of the flag.
SendBegins ==
  /\ at = "send" /\ want > 0
  /\ ~dry
  /\ writeReady' = [writeReady EXCEPT ![cur] = FALSE]
  /\ at' = "enqueue"
  /\ UNCHANGED <<txRing, txSpace, writeDone, commands, readyRing, env, svcVars, open,
                 sent, ready, cur, want>>

\* ipaugenblick_send: the buffer goes to tx_ring.
SendEnqueue ==
  /\ at = "enqueue"
  /\ IF Len(txRing[cur]) < TxRingSize - 1
     THEN /\ txRing' = [txRing EXCEPT ![cur] = Append(@, sent[cur] + 1)]
          /\ sent' = [sent EXCEPT ![cur] = @ + 1]
          /\ at' = "sub"
          /\ UNCHANGED want
     ELSE /\ at' = "send" /\ want' = 0
          /\ UNCHANGED <<txRing, sent>>
  /\ UNCHANGED <<txSpace, writeReady, writeDone, commands, readyRing, env, svcVars, open,
                 ready, cur>>

\* ... and tx_space is reduced.
SendSub ==
  /\ at = "sub"
  /\ txSpace' = [txSpace EXCEPT ![cur] = @ - 1]
  /\ want' = want - 1
  /\ at' = "send"
  /\ UNCHANGED <<txRing, writeReady, writeDone, commands, readyRing, env, svcVars, open,
                 sent, ready, cur>>

Served == /\ ready' = ready \ {cur}
          /\ at' = IF ready' = {} THEN "select" ELSE "run"
          /\ cur' = NONE

\* ipaugenblick_socket_kick: nothing to do if write_done_from_app is set.
Kick ==
  /\ at \in {"send", "kick"} /\ want = 0
  /\ IF writeDone[cur]
     THEN Served /\ UNCHANGED writeDone
     ELSE /\ writeDone' = [writeDone EXCEPT ![cur] = TRUE]
          /\ at' = "kickcmd"
          /\ UNCHANGED <<ready, cur>>
  /\ UNCHANGED <<txRing, txSpace, writeReady, commands, readyRing, env, svcVars, open,
                 sent, want>>

\* ... the TX_KICK is queued; without a command buffer the call returns -1 and
\* the application repeats it; with command_ring full it returns 0.
KickCommand ==
  /\ at = "kickcmd"
  /\ \/ Queue("TX_KICK", cur) /\ Served
     \/ KicksMayFail /\ at' = "kick" /\ UNCHANGED <<commands, ready, cur>>
     \/ KicksMayFail /\ Served /\ UNCHANGED commands
  /\ UNCHANGED <<txRing, txSpace, writeReady, writeDone, readyRing, env, svcVars, open,
                 sent, want>>

\* ipaugenblick_close.
Close(c) ==
  /\ MayClose
  /\ at \in {"select", "run"}
  /\ c \in open
  /\ open' = open \ {c}
  /\ ready' = ready \ {c}
  /\ at' = IF ready' = {} THEN "select" ELSE "run"
  /\ Queue("CLOSE", c)
  /\ UNCHANGED <<txRing, txSpace, writeReady, writeDone, readyRing, env, svcVars, sent,
                 cur, want>>

App ==
  \/ Select \/ \E c \in Conns : GetTxSpace(c)
  \/ ClearWriteReady \/ NotifyEmpty \/ GetBufferFails
  \/ SendBegins \/ SendEnqueue \/ SendSub \/ Kick \/ KickCommand

Next ==
  \/ ExecCommand \/ InCallback \/ MainLoop \/ App
  \/ PoolRunsDry \/ PoolRefilled
  \/ \E c \in Conns : ProcessTxReady(c) \/ Ack(c) \/ PeerFin(c) \/ Close(c)

Spec == Init /\ [][Next]_vars

\* The main loop polls commands, the write_ready list, the driver and the
\* starved list again and again, the peer acknowledges, the application keeps
\* serving its events and the other users of the pool give buffers back.
FairSpec ==
  /\ Spec
  /\ WF_vars(InCallback) /\ WF_vars(App) /\ WF_vars(PoolRefilled)
  /\ SF_vars(ExecCommand) /\ SF_vars(MainLoop)
  /\ \A c \in Conns : SF_vars(ProcessTxReady(c)) /\ SF_vars(Ack(c))

---------------------------------------------------------------------------
(* Properties.                                                             *)

Numbers == 1 .. MaxData

\* Type invariant.
TypeOK ==
  /\ txRing \in [Conns -> Seq(Numbers)] /\ sendQueue \in [Conns -> Seq(Numbers)]
  /\ acked \in [Conns -> Seq(Numbers)]
  /\ txSpace \in [Conns -> Nat] /\ drift \in [Conns -> Int] /\ finned \in SUBSET Conns
  /\ writeReady \in [Conns -> BOOLEAN] /\ writeDone \in [Conns -> BOOLEAN]
  /\ commands \in Seq([op : {"SET_RING", "SELECT", "TX_KICK", "POOL_EMPTY", "CLOSE"},
                       conn : Conns])
  /\ kind \in [Conns -> Kinds]
  /\ readyRing \in Seq(Conns) /\ starved \in Seq(Conns)
  /\ dry \in BOOLEAN /\ drains \in 0 .. MaxDrains
  /\ noSpace \in [Conns -> BOOLEAN] /\ writeQueue \in SUBSET Conns
  /\ parent \in [Conns -> BOOLEAN] /\ attached \in [Conns -> BOOLEAN]
  /\ svc \in [step : {"idle", "notify", "clear", "count", "send", "page", "clear2",
                      "burst", "mark", "post"},
              conn : Conns \cup {NONE}, goal : Nat, took : Nat,
              caller : {"command", "txready", "starved", NONE}]
  /\ up \in BOOLEAN
  /\ open \in SUBSET Conns /\ ready \in SUBSET Conns
  /\ sent \in [Conns -> 0 .. MaxData]
  /\ at \in {"select", "run", "low", "notify", "send", "enqueue", "sub", "kick", "kickcmd"}
  /\ cur \in Conns \cup {NONE}
  /\ want \in 0 .. MaxData

\* What the application sent leaves in order, without loss or duplicates;
\* datagrams may be lost on the way out of tx_ring, but neither overtake each
\* other nor come twice.
TxStreamIntact ==
  \A c \in Conns : attached[c] =>
    LET out == acked[c] \o sendQueue[c]
        all == out \o txRing[c]
    IN /\ txRing[c] = [i \in 1 .. Len(txRing[c]) |-> sent[c] - Len(txRing[c]) + i]
       /\ IF c \in Datagrams THEN \A i, j \in DOMAIN all : i < j => all[i] < all[j]
                              ELSE out = [i \in DOMAIN out |-> i] /\ Len(all) = sent[c]

\* The transmit path implements a stream: what the peer acknowledges was handed
\* to ipaugenblick_send, in this order, and is never transmitted twice, a close
\* at any moment included.
OneLife == [c \in Conns |-> 1]
Delivered == [c \in Conns |-> [i \in DOMAIN acked[c] |-> <<1, acked[c][i]>>]]
ST == INSTANCE Stream WITH
        lossy <- Datagrams, life <- OneLife, given <- sent, delivered <- Delivered
ImplementsStream == ST!SSpec

\* tx_space, which the application reduces after its enqueue and the service
\* increases for each buffer the stack frees, is what the send buffer has left,
\* except between ipaugenblick_send's two steps: only the stack, by returning the
\* space of a split or trimmed buffer more or less than once, makes it drift.
TxSpaceAccurate ==
  \A c \in Conns \ Datagrams : attached[c] =>
    txSpace[c] + Len(txRing[c]) + Len(sendQueue[c])
      = SndBuf + drift[c] + (IF cur = c /\ at = "sub" THEN 1 ELSE 0)

\* A buffer in tx_ring never waits unnoticed: a kick is queued or being made,
\* the service is at the socket or will be because it is in the write_ready
\* list or waits for an acknowledgement, or the application has an event to
\* serve, upon which it kicks.  A stream whose peer sent its FIN is excepted:
\* app_glue_sock_write_space does not relist it when it is acknowledged.
Noticed(c) ==
  \/ cur = c \/ c \in ready \/ \E i \in DOMAIN readyRing : readyRing[i] = c
  \/ \E i \in DOMAIN commands : commands[i].conn = c
  \/ svc.conn = c
  \/ c \in writeQueue
  \/ (noSpace[c] \/ c \in Datagrams) /\ sendQueue[c] # <<>>
BacklogIsNoticed == up => \A c \in open \ finned : txRing[c] # <<>> => Noticed(c)

\* On every connection it leaves open the application gets rid of everything it
\* has to send: a stream is acknowledged, datagrams have left tx_ring and driver.
\* It may fail on a stream whose peer sent its FIN or whose space the stack did not
\* return.
Gone(c) ==
  IF c \in Datagrams THEN sent[c] = MaxData /\ txRing[c] = <<>> /\ sendQueue[c] = <<>>
                     ELSE Len(acked[c]) = MaxData
EverythingIsSent ==
  \A c \in Conns : <>(Gone(c) \/ c \notin open \ finned \/ drift[c] < 0 \/ ~up)
===========================================================================
