--------------------------- MODULE ControlPlane ---------------------------
(***************************************************************************)
(* The control plane between the application processes and the             *)
(* IPAugenblick service: command buffers travel from free_command_pool     *)
(* through an application to command_ring, are executed by the service and *)
(* go back to the pool; connection indices travel from                     *)
(* free_connections_ring to an application and back when the service       *)
(* executes the CLOSE command.                                             *)
(*                                                                         *)
(* Every call of the API library is cut into the steps between which the   *)
(* service and the other processes can run: one shared ring or mempool     *)
(* operation per step.  An accepted TCP connection reaches the listener's  *)
(* owner as a command buffer placed in the listener's rx_ring.             *)
(*                                                                         *)
(* A connection the network resets is closed by the service under its      *)
(* owner, while the satelite table or a command buffer still names the     *)
(* slot of its socket: the slot may serve a second connection.  The ghost  *)
(* variable reset says of which slots that is true.  What happens then to  *)
(* the memory behind the slot is the subject of AppGlue.                   *)
(*                                                                         *)
(* Operators whose comment starts with "Mutant" are plausible wrong        *)
(* versions of the definition that follows them; the specification does    *)
(* not use them (PROJECT.json says which property each must violate).      *)
(***************************************************************************)
EXTENDS Naturals, Sequences, FiniteSets

CONSTANTS
  Apps,             \* application processes (DPDK secondary processes)
  Bufs,             \* the command buffers of free_command_pool
  Socks,            \* the slots of socket_cache, where struct sockets live
  PoolSize,         \* IPAUGENBLICK_CONNECTION_POOL_SIZE
  CommandRingSize,  \* size argument of command_ring (COMMAND_POOL_SIZE)
  RxRingSize,       \* size argument of a connection's rx_ring
  CtlOps,           \* the one-command calls the applications make
  TermSignals,      \* TRUE: a termination signal may reach an application
  SelectOnListener, \* TRUE: set_socket_select may follow listen_socket
  Resets,           \* TRUE: the network may reset a connection
  NULL

ASSUME ControlPlaneAssumption ==
  /\ PoolSize \in Nat \ {0}
  /\ CommandRingSize \in Nat \ {0}
  /\ RxRingSize \in Nat \ {0}
  /\ CtlOps \subseteq {"LISTEN", "SELECT", "KICK", "RXKICK", "CTL"}
  /\ TermSignals \in BOOLEAN
  /\ SelectOnListener \in BOOLEAN
  /\ Resets \in BOOLEAN
  /\ NULL \notin Apps \cup Bufs \cup Socks \cup Nat

Conns == 0 .. PoolSize - 1

\* The commands whose execution differs in this component.  CTL stands for
\* CONNECT_BIND, TX_POOL_EMPTY, SETSOCKOPT, SHUTDOWN and the route commands,
\* which touch neither the pools nor the satelite table; DISC is
\* DISCONNECT_CLIENT.
Ops == {"NONE", "OPEN", "LISTEN", "SELECT", "KICK", "RXKICK", "CTL", "CLOSE",
        "ACCEPTED", "SET_RING", "DECLINE", "DISC"}

Cmds == [op : Ops, conn : Conns \cup {NULL}, sock : Socks \cup {NULL}]

Command(op, c, s) == [op |-> op, conn |-> c, sock |-> s]

\* What a buffer holds while nobody may read it (its stale contents).
Blank == Command("NONE", NULL, NULL)

\* What an application is in the middle of.
Steps == {"idle", "open.cmd", "open.enq", "accept.conn", "accept.enq",
          "decline.enq", "ctl.enq", "close.enq", "close.flush",
          "exit", "disc.enq", "dead"}

VARIABLES
  freeConns,  \* free_connections_ring
  freeCmds,   \* free_command_pool
  cmdRing,    \* command_ring
  cmd,        \* contents of each command buffer
  rxRing,     \* accepted-connection buffers in each connection's rx_ring
  satSock,    \* socket_satelite_data[c].socket
  sockState,  \* what each slot of socket_cache holds
  reset,      \* slots freed by a reset while something named them
  svcCmd,     \* the command process_commands is executing
  up,         \* the service process is running
  at, buf, idx, \* per application: step, buffer and connection it holds
  local,      \* per application: entries with local_socket_descriptors[].socket
  owned,      \* per application: descriptors returned to it and not closed
  listens,    \* per application: descriptors it put into listening state
  todo,       \* per application: indices sig_handler has still to close
  lost        \* how a command buffer left circulation, "no" if it did not

appVars == <<at, buf, idx, local, owned, listens, todo>>
vars == <<freeConns, freeCmds, cmdRing, cmd, rxRing, satSock, sockState,
          reset, svcCmd, up, at, buf, idx, local, owned, listens, todo, lost>>

SockStates == {"free", "open", "listen", "accepted"}

\* Mutant: a ring that wastes two entries instead of one.
RingFullTwoEarly(ring, size) == Len(ring) >= size - 2

\* rte_ring: a ring created with size n holds n - 1 entries, and a failed
\* enqueue leaves it as it is.
RingFull(ring, size) == Len(ring) >= size - 1

\* Mutant: connection indices counted from one.
InitFromOne ==
  /\ freeConns = [i \in 1 .. PoolSize - 1 |-> i + 1]
  /\ freeCmds = Bufs
  /\ cmdRing = <<>>
  /\ cmd = [b \in Bufs |-> Blank]
  /\ rxRing = [c \in Conns |-> <<>>]
  /\ satSock = [c \in Conns |-> NULL]
  /\ sockState = [s \in Socks |-> "free"]
  /\ reset = {}
  /\ svcCmd = NULL
  /\ up = TRUE
  /\ at = [a \in Apps |-> "idle"]
  /\ buf = [a \in Apps |-> NULL]
  /\ idx = [a \in Apps |-> NULL]
  /\ local = [a \in Apps |-> {}]
  /\ owned = [a \in Apps |-> {}]
  /\ listens = [a \in Apps |-> {}]
  /\ todo = [a \in Apps |-> {}]
  /\ lost = [b \in Bufs |-> "no"]

\* ipaugenblick_service_api_init: the loop enqueues every index, the last
\* enqueue fails because the ring holds one entry less than its size.
Init ==
  /\ freeConns = [i \in 1 .. PoolSize - 1 |-> i - 1]
  /\ freeCmds = Bufs
  /\ cmdRing = <<>>
  /\ cmd = [b \in Bufs |-> Blank]
  /\ rxRing = [c \in Conns |-> <<>>]
  /\ satSock = [c \in Conns |-> NULL]
  /\ sockState = [s \in Socks |-> "free"]
  /\ reset = {}
  /\ svcCmd = NULL
  /\ up = TRUE
  /\ at = [a \in Apps |-> "idle"]
  /\ buf = [a \in Apps |-> NULL]
  /\ idx = [a \in Apps |-> NULL]
  /\ local = [a \in Apps |-> {}]
  /\ owned = [a \in Apps |-> {}]
  /\ listens = [a \in Apps |-> {}]
  /\ todo = [a \in Apps |-> {}]
  /\ lost = [b \in Bufs |-> "no"]

---------------------------------------------------------------------------
(* Steps shared by the calls of the API library.                           *)

\* The application moves to step s holding buffer b and connection c.
Goto(a, s, b, c) ==
  /\ at' = [at EXCEPT ![a] = s]
  /\ buf' = [buf EXCEPT ![a] = b]
  /\ idx' = [idx EXCEPT ![a] = c]

\* A call ends; inside sig_handler control goes back to its loop.
Return(a, s) == Goto(a, s, NULL, NULL)

\* ipaugenblick_get_free_command_buf
GetFreeCommandBuf(b) == b \in freeCmds /\ freeCmds' = freeCmds \ {b}

\* ipaugenblick_enqueue_command_buf succeeds, the buffer holding command k.
EnqueueCommandBuf(b, k) ==
  /\ ~RingFull(cmdRing, CommandRingSize)
  /\ cmdRing' = Append(cmdRing, b)
  /\ cmd' = [cmd EXCEPT ![b] = k]
  /\ UNCHANGED <<freeCmds, lost>>

\* Mutant: the error path forgets to free the buffer.
EnqueueFailsAndForget(b) ==
  /\ RingFull(cmdRing, CommandRingSize)
  /\ cmd' = [cmd EXCEPT ![b] = Blank]
  /\ UNCHANGED <<freeCmds, cmdRing, lost>>

\* ipaugenblick_enqueue_command_buf fails and the caller frees the buffer.
EnqueueFailsAndFree(b) ==
  /\ RingFull(cmdRing, CommandRingSize)
  /\ freeCmds' = freeCmds \cup {b}
  /\ cmd' = [cmd EXCEPT ![b] = Blank]
  /\ UNCHANGED <<cmdRing, lost>>

---------------------------------------------------------------------------
(* ipaugenblick_open_socket                                                *)

\* Mutant: two dequeues of the free ring race (a single-consumer ring).
OpenTakeConnectionRacy(a) ==
  /\ at[a] = "idle"
  /\ freeConns # <<>>
  /\ freeConns' \in {freeConns, Tail(freeConns)}
  /\ Goto(a, "open.cmd", NULL, Head(freeConns))
  /\ UNCHANGED <<freeCmds, cmdRing, cmd, rxRing, satSock, sockState, reset,
                 svcCmd, up, local, owned, listens, todo, lost>>

\* A connection is taken from free_connections_ring (an empty ring makes the
\* call return -1 with no effect).
OpenTakeConnection(a) ==
  /\ at[a] = "idle"
  /\ freeConns # <<>>
  /\ freeConns' = Tail(freeConns)
  /\ Goto(a, "open.cmd", NULL, Head(freeConns))
  /\ UNCHANGED <<freeCmds, cmdRing, cmd, rxRing, satSock, sockState, reset,
                 svcCmd, up, local, owned, listens, todo, lost>>

\* A command buffer is taken; with none left the call returns -2 and the
\* connection it took is not put back.
OpenTakeCommand(a) ==
  /\ at[a] = "open.cmd"
  /\ \/ \E b \in Bufs : GetFreeCommandBuf(b) /\ Goto(a, "open.enq", b, idx[a])
     \/ freeCmds = {} /\ Return(a, "idle") /\ UNCHANGED freeCmds
  /\ UNCHANGED <<freeConns, cmdRing, cmd, rxRing, satSock, sockState, reset,
                 svcCmd, up, local, owned, listens, todo, lost>>

\* The OPEN command is queued and the local descriptor set up; with the ring
\* full the buffer is freed, the connection is not put back, and -3 returned.
OpenEnqueue(a) ==
  /\ at[a] = "open.enq"
  /\ \/ /\ EnqueueCommandBuf(buf[a], Command("OPEN", idx[a], NULL))
        /\ local' = [local EXCEPT ![a] = @ \cup {idx[a]}]
        /\ owned' = [owned EXCEPT ![a] = @ \cup {idx[a]}]
     \/ EnqueueFailsAndFree(buf[a]) /\ UNCHANGED <<local, owned>>
  /\ Return(a, "idle")
  /\ UNCHANGED <<freeConns, rxRing, satSock, sockState, reset, svcCmd, up,
                 listens, todo>>

---------------------------------------------------------------------------
(* Calls that send one command about a socket the application owns:        *)
(* listen_socket, set_socket_select, socket_kick (and sends that kick),    *)
(* receive (which sends RX_KICK), connect, bind, setsockopt, shutdown...   *)

\* Applications kick and receive on connected sockets only, never on their
\* listeners; SelectOnListener says whether they call set_socket_select there.
CallAllowed(a, c, op) ==
  CASE op \in {"KICK", "RXKICK", "LISTEN"} -> c \notin listens[a]
    [] op = "SELECT" -> c \notin listens[a] \/ SelectOnListener
    [] OTHER -> TRUE

\* With no buffer left the call returns a negative value with no effect.
CtlTakeCommand(a) ==
  /\ at[a] = "idle"
  /\ \E c \in owned[a], b \in Bufs, op \in CtlOps :
       /\ CallAllowed(a, c, op)
       /\ GetFreeCommandBuf(b)
       /\ cmd' = [cmd EXCEPT ![b] = Command(op, c, NULL)]
       /\ Goto(a, "ctl.enq", b, c)
  /\ UNCHANGED <<freeConns, cmdRing, rxRing, satSock, sockState, reset,
                 svcCmd, up, local, owned, listens, todo, lost>>

\* ipaugenblick_dequeue_rx_buf ignores the result of the enqueue, so a full
\* ring loses its buffer; the other calls free it.
CtlEnqueue(a) ==
  /\ at[a] = "ctl.enq"
  /\ \/ /\ EnqueueCommandBuf(buf[a], cmd[buf[a]])
        /\ listens' = IF cmd[buf[a]].op = "LISTEN"
                      THEN [listens EXCEPT ![a] = @ \cup {idx[a]}] ELSE listens
     \/ /\ cmd[buf[a]].op # "RXKICK"
        /\ EnqueueFailsAndFree(buf[a])
        /\ UNCHANGED listens
     \/ /\ cmd[buf[a]].op = "RXKICK"
        /\ RingFull(cmdRing, CommandRingSize)
        /\ lost' = [lost EXCEPT ![buf[a]] = "rxkick"]
        /\ cmd' = [cmd EXCEPT ![buf[a]] = Blank]
        /\ UNCHANGED <<freeCmds, cmdRing, listens>>
  /\ Return(a, "idle")
  /\ UNCHANGED <<freeConns, rxRing, satSock, sockState, reset, svcCmd, up,
                 local, owned, todo>>

---------------------------------------------------------------------------
(* ipaugenblick_accept                                                     *)

AcceptDequeue(a) ==
  /\ at[a] = "idle"
  /\ \E c \in listens[a] :
       /\ rxRing[c] # <<>>
       /\ rxRing' = [rxRing EXCEPT ![c] = Tail(@)]
       /\ Goto(a, "accept.conn", Head(rxRing[c]), NULL)
  /\ UNCHANGED <<freeConns, freeCmds, cmdRing, cmd, satSock, sockState, reset,
                 svcCmd, up, local, owned, listens, todo, lost>>

\* A connection for the accepted socket; none left: the buffer becomes the
\* DECLINE command.  The local descriptor is set up before the enqueue.
AcceptTakeConnection(a) ==
  /\ at[a] = "accept.conn"
  /\ \/ /\ freeConns # <<>>
        /\ freeConns' = Tail(freeConns)
        /\ Goto(a, "accept.enq", buf[a], Head(freeConns))
        /\ local' = [local EXCEPT ![a] = @ \cup {Head(freeConns)}]
     \/ /\ freeConns = <<>>
        /\ Goto(a, "decline.enq", buf[a], NULL)
        /\ UNCHANGED <<freeConns, local>>
  /\ UNCHANGED <<freeCmds, cmdRing, cmd, rxRing, satSock, sockState, reset,
                 svcCmd, up, owned, listens, todo, lost>>

\* Mutant: the SET_SOCKET_RING command names the listener, not the new index.
AcceptEnqueueNamesListener(a) ==
  /\ at[a] = "accept.enq"
  /\ \E c \in listens[a] :
       EnqueueCommandBuf(buf[a], Command("SET_RING", c, cmd[buf[a]].sock))
  /\ owned' = [owned EXCEPT ![a] = @ \cup {idx[a]}]
  /\ Return(a, "idle")
  /\ UNCHANGED <<freeConns, rxRing, satSock, sockState, reset, svcCmd, up,
                 local, listens, todo>>

AcceptEnqueue(a) ==
  /\ at[a] = "accept.enq"
  /\ \/ /\ EnqueueCommandBuf(buf[a],
                Command("SET_RING", idx[a], cmd[buf[a]].sock))
        /\ owned' = [owned EXCEPT ![a] = @ \cup {idx[a]}]
     \/ EnqueueFailsAndFree(buf[a]) /\ UNCHANGED owned
  /\ Return(a, "idle")
  /\ UNCHANGED <<freeConns, rxRing, satSock, sockState, reset, svcCmd, up,
                 local, listens, todo>>

DeclineEnqueue(a) ==
  /\ at[a] = "decline.enq"
  /\ \/ EnqueueCommandBuf(buf[a], Command("DECLINE", NULL, cmd[buf[a]].sock))
     \/ EnqueueFailsAndFree(buf[a])
  /\ Return(a, "idle")
  /\ UNCHANGED <<freeConns, rxRing, satSock, sockState, reset, svcCmd, up,
                 local, owned, listens, todo>>

---------------------------------------------------------------------------
(* ipaugenblick_close                                                      *)

\* CloseTakeCommand(a, c, next) is the call up to the first shared operation: with no
\* command buffer it returns at once, to step next, having closed nothing.
CloseTakeCommand(a, c, next) ==
  /\ owned' = [owned EXCEPT ![a] = @ \ {c}]
  /\ listens' = [listens EXCEPT ![a] = @ \ {c}]
  /\ \/ \E b \in Bufs : GetFreeCommandBuf(b) /\ Goto(a, "close.enq", b, c)
     \/ freeCmds = {} /\ Return(a, next) /\ UNCHANGED freeCmds
  /\ UNCHANGED <<freeConns, cmdRing, cmd, rxRing, satSock, sockState, reset,
                 svcCmd, up, local, lost>>

Close(a) ==
  /\ at[a] = "idle"
  /\ \E c \in owned[a] : CloseTakeCommand(a, c, "idle")
  /\ UNCHANGED todo

\* Mutant: the application gives the connection back itself, before the
\* service has executed the CLOSE.
CloseEnqueueFreesEarly(a) ==
  /\ at[a] = "close.enq"
  /\ EnqueueCommandBuf(buf[a], Command("CLOSE", idx[a], NULL))
  /\ freeConns' = Append(freeConns, idx[a])
  /\ Goto(a, "close.flush", NULL, idx[a])
  /\ UNCHANGED <<rxRing, satSock, sockState, reset, svcCmd, up, local, owned,
                 listens, todo>>

\* The application goes on to flush the rings whatever the enqueue returned.
CloseEnqueue(a) ==
  /\ at[a] = "close.enq"
  /\ \/ EnqueueCommandBuf(buf[a], Command("CLOSE", idx[a], NULL))
     \/ EnqueueFailsAndFree(buf[a])
  /\ Goto(a, "close.flush", NULL, idx[a])
  /\ UNCHANGED <<freeConns, rxRing, satSock, sockState, reset, svcCmd, up,
                 local, owned, listens, todo>>

\* Command buffers still in a listener's rx_ring are freed as if they were
\* mbufs: they never return to free_command_pool.
FlushRx(c) ==
  /\ lost' = [b \in Bufs |-> IF \E i \in DOMAIN rxRing[c] : rxRing[c][i] = b
                             THEN "flushed" ELSE lost[b]]
  /\ rxRing' = [rxRing EXCEPT ![c] = <<>>]

\* ipaugenblick_flush_rx, and the local descriptor leaves its selector.
\* Freeing a command buffer as an mbuf may also crash the process.
CloseFlush(a) ==
  /\ at[a] = "close.flush"
  /\ FlushRx(idx[a])
  /\ \/ /\ Return(a, IF todo[a] # {} THEN "exit" ELSE "idle")
        /\ todo' = [todo EXCEPT ![a] = @ \ {idx[a]}]
     \/ /\ rxRing[idx[a]] # <<>>
        /\ Return(a, "dead")
        /\ todo' = [todo EXCEPT ![a] = {}]
  /\ UNCHANGED <<freeConns, freeCmds, cmdRing, cmd, satSock, sockState, reset,
                 svcCmd, up, local, owned, listens>>

---------------------------------------------------------------------------
(* sig_handler: a termination signal interrupts whatever the application   *)
(* is doing.  Every index whose local descriptor was ever set is closed    *)
(* (close does not reset it), then the client is disconnected and the      *)
(* process kills itself.                                                   *)

Signal(a) ==
  /\ TermSignals
  /\ at[a] \notin {"exit", "disc.enq", "dead"}
  /\ todo[a] = {}
  /\ todo' = [todo EXCEPT ![a] = local[a]]
  /\ \/ buf[a] = NULL /\ UNCHANGED <<lost, cmd>>
     \/ /\ buf[a] # NULL
        /\ lost' = [lost EXCEPT ![buf[a]] = "died"]
        /\ cmd' = [cmd EXCEPT ![buf[a]] = Blank]
  /\ Return(a, "exit")
  /\ UNCHANGED <<freeConns, freeCmds, cmdRing, rxRing, satSock, sockState,
                 reset, svcCmd, up, local, owned, listens>>

ExitClose(a) ==
  /\ at[a] = "exit"
  /\ \E c \in todo[a] :
       /\ \A d \in todo[a] : c <= d
       /\ CloseTakeCommand(a, c, "exit")
       /\ todo' = IF freeCmds = {} THEN [todo EXCEPT ![a] = @ \ {c}] ELSE todo

ExitDisconnect(a) ==
  /\ at[a] = "exit"
  /\ todo[a] = {}
  /\ \/ \E b \in Bufs : GetFreeCommandBuf(b) /\ Goto(a, "disc.enq", b, NULL)
     \/ freeCmds = {} /\ Return(a, "dead") /\ UNCHANGED freeCmds
  /\ UNCHANGED <<freeConns, cmdRing, cmd, rxRing, satSock, sockState, reset,
                 svcCmd, up, local, owned, listens, todo, lost>>

DisconnectEnqueue(a) ==
  /\ at[a] = "disc.enq"
  /\ \/ EnqueueCommandBuf(buf[a], Command("DISC", NULL, NULL))
     \/ EnqueueFailsAndFree(buf[a])
  /\ Return(a, "dead")
  /\ UNCHANGED <<freeConns, rxRing, satSock, sockState, reset, svcCmd, up,
                 local, owned, listens, todo>>

---------------------------------------------------------------------------
(* The service: ipaugenblick_main_loop.                                    *)

\* ipaugenblick_dequeue_command_buf
DequeueCommandBuf ==
  /\ up
  /\ svcCmd = NULL
  /\ cmdRing # <<>>
  /\ svcCmd' = Head(cmdRing)
  /\ cmdRing' = Tail(cmdRing)
  /\ UNCHANGED <<freeConns, freeCmds, cmd, rxRing, satSock, sockState, reset,
                 up, appVars, lost>>

\* process_commands is executing command op.
Executing(op) == up /\ svcCmd # NULL /\ cmd[svcCmd].op = op

\* Mutant: the last line of process_commands is missing.
FreeCommandBufMissing ==
  /\ svcCmd' = NULL
  /\ cmd' = [cmd EXCEPT ![svcCmd] = Blank]
  /\ UNCHANGED <<freeCmds, up>>

\* ipaugenblick_free_command_buf at the end of process_commands.
FreeCommandBuf ==
  /\ freeCmds' = freeCmds \cup {svcCmd}
  /\ cmd' = [cmd EXCEPT ![svcCmd] = Blank]
  /\ svcCmd' = NULL
  /\ UNCHANGED up

\* The service exits or crashes in the middle of a command.
ServiceDown ==
  /\ up' = FALSE
  /\ UNCHANGED <<freeCmds, cmd, svcCmd>>

\* A satelite entry, or a buffer on its way between service and application,
\* names the slot.
Named(s) ==
  \/ \E c \in Conns : satSock[c] = s
  \/ \E b \in Bufs : /\ cmd[b].op \in {"ACCEPTED", "SET_RING", "DECLINE"}
                     /\ lost[b] = "no"
                     /\ cmd[b].sock = s

\* sock_alloc takes slot s; one that is still named stays in reset.
SockAlloc(s, kind) ==
  /\ sockState[s] = "free"
  /\ sockState' = [sockState EXCEPT ![s] = kind]
  /\ reset' = IF Named(s) THEN reset ELSE reset \ {s}

\* OPEN: the stack may fail to create the socket; the application, which
\* already has its descriptor, is not told.
ExecOpen ==
  /\ Executing("OPEN")
  /\ LET c == cmd[svcCmd].conn IN
     \/ \E s \in Socks :
          /\ SockAlloc(s, "open")
          /\ satSock' = [satSock EXCEPT ![c] = s]
     \/ UNCHANGED <<sockState, reset, satSock>>
  /\ FreeCommandBuf
  /\ UNCHANGED <<freeConns, cmdRing, rxRing, appVars, lost>>

\* LISTEN: app_glue_v4_listen follows the socket pointer without a test, so a
\* connection whose socket was not created crashes the service.  It fails on a
\* socket that was connected and reset.
ExecListen ==
  /\ Executing("LISTEN")
  /\ LET s == satSock[cmd[svcCmd].conn] IN
     \/ s = NULL /\ ServiceDown /\ UNCHANGED sockState
     \/ /\ s # NULL
        /\ \/ /\ sockState[s] # "free"
              /\ sockState' = [sockState EXCEPT ![s] = "listen"]
           \/ UNCHANGED sockState
        /\ FreeCommandBuf
  /\ UNCHANGED <<freeConns, cmdRing, rxRing, satSock, reset, appVars, lost>>

\* SELECT, KICK and RXKICK run the data callbacks, which exit(0) when the
\* socket is a listener; they do nothing when there is no socket.
ExecCallback ==
  /\ \E op \in {"SELECT", "KICK", "RXKICK"} : Executing(op)
  /\ LET s == satSock[cmd[svcCmd].conn] IN
     IF s # NULL /\ sockState[s] = "listen" THEN ServiceDown ELSE FreeCommandBuf
  /\ UNCHANGED <<freeConns, cmdRing, rxRing, satSock, sockState, reset,
                 appVars, lost>>

ExecOther ==
  /\ \E op \in {"CTL", "DISC"} : Executing(op)
  /\ FreeCommandBuf
  /\ UNCHANGED <<freeConns, cmdRing, rxRing, satSock, sockState, reset,
                 appVars, lost>>

\* Mutant: socket_satelite_data[].socket is not reset.
ExecCloseWithoutReset ==
  /\ Executing("CLOSE")
  /\ LET c == cmd[svcCmd].conn IN
     IF satSock[c] = NULL
     THEN UNCHANGED <<freeConns, rxRing, sockState, lost>>
     ELSE /\ FlushRx(c)
          /\ sockState' = [sockState EXCEPT ![satSock[c]] = "free"]
          /\ freeConns' = Append(freeConns, c)
  /\ FreeCommandBuf
  /\ UNCHANGED <<satSock, reset, cmdRing, appVars>>

\* Mutant: the connection is put back whether or not it has a socket.
ExecCloseAlwaysFrees ==
  /\ Executing("CLOSE")
  /\ LET c == cmd[svcCmd].conn IN
       /\ FlushRx(c)
       /\ sockState' = [s \in Socks |-> IF s = satSock[c] THEN "free"
                                        ELSE sockState[s]]
       /\ satSock' = [satSock EXCEPT ![c] = NULL]
       /\ freeConns' = IF RingFull(freeConns, PoolSize) THEN freeConns
                       ELSE Append(freeConns, c)
  /\ FreeCommandBuf
  /\ UNCHANGED <<reset, cmdRing, appVars>>

\* CLOSE: flush the rings, close the socket, reset the satelite entry and put
\* the connection back; a connection without a socket is left as it is.  The
\* slot is closed whoever uses it by now.
ExecClose ==
  /\ Executing("CLOSE")
  /\ LET c == cmd[svcCmd].conn IN
     \/ /\ satSock[c] = NULL
        /\ FreeCommandBuf
        /\ UNCHANGED <<freeConns, rxRing, satSock, sockState, lost>>
     \/ /\ satSock[c] # NULL
        /\ FlushRx(c)
        /\ \/ /\ sockState' = [sockState EXCEPT ![satSock[c]] = "free"]
              /\ satSock' = [satSock EXCEPT ![c] = NULL]
              /\ freeConns' = IF RingFull(freeConns, PoolSize) THEN freeConns
                              ELSE Append(freeConns, c)
              /\ FreeCommandBuf
           \/ /\ rxRing[c] # <<>>
              /\ ServiceDown
              /\ UNCHANGED <<freeConns, satSock, sockState>>
  /\ UNCHANGED <<reset, cmdRing, appVars>>

\* SET_SOCKET_RING: the accepted socket is attached to its connection.
ExecSetRing ==
  /\ Executing("SET_RING")
  /\ satSock' = [satSock EXCEPT ![cmd[svcCmd].conn] = cmd[svcCmd].sock]
  /\ FreeCommandBuf
  /\ UNCHANGED <<freeConns, cmdRing, rxRing, sockState, reset, appVars, lost>>

\* DECLINE: the accepted socket nobody has room for is closed.
ExecDecline ==
  /\ Executing("DECLINE")
  /\ sockState' = [sockState EXCEPT ![cmd[svcCmd].sock] = "free"]
  /\ FreeCommandBuf
  /\ UNCHANGED <<freeConns, cmdRing, rxRing, satSock, reset, appVars, lost>>

\* One iteration of user_on_accept on a listener, called from the main loop
\* between two commands: kernel_accept returns a new socket; without a command
\* buffer it is dropped, else post_accepted puts it in the listener's rx_ring,
\* or frees the buffer again when that ring is full.  The get and the enqueue
\* are one step: nothing the other processes do between them changes which
\* outcomes are possible, except that they could find one more buffer or none
\* in the pool, which they can in the states before and after it as well.
\* (Of two connections that name one slot after a reset the code serves the one
\* attached last, the model either.)
Accept ==
  /\ up
  /\ svcCmd = NULL
  /\ \E c \in Conns, s \in Socks :
       /\ satSock[c] # NULL
       /\ sockState[satSock[c]] = "listen"
       /\ SockAlloc(s, "accepted")
       /\ \/ \E b \in Bufs :
               /\ GetFreeCommandBuf(b)
               /\ ~RingFull(rxRing[c], RxRingSize)
               /\ cmd' = [cmd EXCEPT ![b] = Command("ACCEPTED", NULL, s)]
               /\ rxRing' = [rxRing EXCEPT ![c] = Append(@, b)]
          \/ /\ freeCmds = {} \/ RingFull(rxRing[c], RxRingSize)
             /\ UNCHANGED <<freeCmds, cmd, rxRing>>
  /\ UNCHANGED <<freeConns, cmdRing, satSock, svcCmd, up, appVars, lost>>

\* process_rx_ready_sockets finds a reset connection in the closed list and
\* closes its socket: the slot is free, whoever names it.  (The rings that are
\* flushed first hold no command buffers: the socket is no listener.)
ClosedList ==
  /\ Resets
  /\ up
  /\ svcCmd = NULL
  /\ \E s \in Socks :
       /\ sockState[s] \in {"open", "accepted"}
       /\ sockState' = [sockState EXCEPT ![s] = "free"]
       /\ reset' = IF Named(s) THEN reset \cup {s} ELSE reset
  /\ UNCHANGED <<freeConns, freeCmds, cmdRing, cmd, rxRing, satSock, svcCmd,
                 up, appVars, lost>>

---------------------------------------------------------------------------
AppStep(a) ==
  \/ OpenTakeConnection(a) \/ OpenTakeCommand(a) \/ OpenEnqueue(a)
  \/ CtlTakeCommand(a) \/ CtlEnqueue(a)
  \/ AcceptDequeue(a) \/ AcceptTakeConnection(a) \/ AcceptEnqueue(a)
  \/ DeclineEnqueue(a)
  \/ Close(a) \/ CloseEnqueue(a) \/ CloseFlush(a)
  \/ Signal(a) \/ ExitClose(a) \/ ExitDisconnect(a) \/ DisconnectEnqueue(a)

ProcessCommands ==
  \/ DequeueCommandBuf
  \/ ExecOpen \/ ExecListen \/ ExecCallback \/ ExecOther \/ ExecClose
  \/ ExecSetRing \/ ExecDecline

Next == (\E a \in Apps : AppStep(a)) \/ ProcessCommands \/ Accept \/ ClosedList

Spec == Init /\ [][Next]_vars

\* The service polls its command ring for ever; applications promise nothing.
FairSpec == Spec /\ WF_vars(ProcessCommands)

---------------------------------------------------------------------------
(* Properties.                                                             *)

\* Type invariant, by the part of the system that keeps the state.
PoolTypes ==
  /\ freeConns \in Seq(Conns)
  /\ freeCmds \in SUBSET Bufs
  /\ cmdRing \in Seq(Bufs)
  /\ cmd \in [Bufs -> Cmds]
  /\ rxRing \in [Conns -> Seq(Bufs)]
  /\ lost \in [Bufs -> {"no", "rxkick", "flushed", "died"}]

ServiceTypes ==
  /\ satSock \in [Conns -> Socks \cup {NULL}]
  /\ sockState \in [Socks -> SockStates]
  /\ reset \in SUBSET Socks
  /\ svcCmd \in Bufs \cup {NULL}
  /\ up \in BOOLEAN

CallTypes ==
  /\ at \in [Apps -> Steps]
  /\ buf \in [Apps -> Bufs \cup {NULL}]
  /\ idx \in [Apps -> Conns \cup {NULL}]

DescriptorTypes ==
  /\ local \in [Apps -> SUBSET Conns]
  /\ owned \in [Apps -> SUBSET Conns]
  /\ listens \in [Apps -> SUBSET Conns]
  /\ todo \in [Apps -> SUBSET Conns]

TypeOK == PoolTypes /\ ServiceTypes /\ CallTypes /\ DescriptorTypes

InRing(b) == \E i \in DOMAIN cmdRing : cmdRing[i] = b
InRxRing(b) == \E c \in Conns : \E i \in DOMAIN rxRing[c] : rxRing[c][i] = b
Held(b) == \E a \in Apps : buf[a] = b

\* The places a command buffer can be in.
Places == {"pool", "ring", "rx", "app", "svc", "lost"}
IsAt(b, p) ==
  CASE p = "pool" -> b \in freeCmds
    [] p = "ring" -> InRing(b)
    [] p = "rx"   -> InRxRing(b)
    [] p = "app"  -> Held(b)
    [] p = "svc"  -> svcCmd = b
    [] p = "lost" -> lost[b] # "no"

SinglePlace ==
  \A b \in Bufs : \E p \in Places : \A q \in Places : IsAt(b, q) <=> q = p

\* ... and once in it.
OnceInRing == \A i, j \in DOMAIN cmdRing : cmdRing[i] = cmdRing[j] => i = j
OnceInRxRings ==
  \A c, d \in Conns : \A i \in DOMAIN rxRing[c], j \in DOMAIN rxRing[d] :
    rxRing[c][i] = rxRing[d][j] => c = d /\ i = j
OneHolder == \A x, y \in Apps : buf[x] = buf[y] /\ buf[x] # NULL => x = y

\* Whatever the processes do, also when they die between two steps, every
\* command buffer is in exactly one place and once in it: the pool, the
\* command ring, one listener's rx_ring, one application's hands, the
\* service's hands, or out of circulation.  No error path frees a buffer that
\* somebody else still uses.
CommandBufferConservation ==
  SinglePlace /\ OnceInRing /\ OnceInRxRings /\ OneHolder

\* ipaugenblick_dequeue_rx_buf forgets its buffer when the ring is full, but
\* the ring is one entry smaller than the pool: at most one buffer of the
\* whole system can ever be forgotten that way.
RxKickLeakBounded ==
  Cardinality({b \in Bufs : lost[b] = "rxkick"}) <= 1

\* Command buffer b is on its way to, or in, the service.
Pending(b) == InRing(b) \/ svcCmd = b

Free(c) == \E i \in DOMAIN freeConns : freeConns[i] = c
Allocating(c) ==
  \E a \in Apps : idx[a] = c /\ at[a] \in {"open.cmd", "open.enq", "accept.enq"}
Owned(c) == \E a \in Apps : c \in owned[a]
Closing(c) ==
  \/ \E a \in Apps : idx[a] = c /\ at[a] = "close.enq"
  \/ \E b \in Bufs : Pending(b) /\ cmd[b].op = "CLOSE" /\ cmd[b].conn = c

\* A connection index has one user at a time: it is free, being handed out,
\* owned by one application or being closed, never two of these, and never
\* twice in the free ring.
OneOwner ==
  /\ \A c \in Conns :
       Cardinality({p \in {"free", "allocating", "owned", "closing"} :
                      CASE p = "free" -> Free(c)
                        [] p = "allocating" -> Allocating(c)
                        [] p = "owned" -> Owned(c)
                        [] p = "closing" -> Closing(c)}) <= 1
  /\ \A i, j \in DOMAIN freeConns : freeConns[i] = freeConns[j] => i = j
  /\ \A x, y \in Apps : owned[x] \cap owned[y] # {} => x = y

\* No command reaches the service after the connection it names was given
\* back: a free connection has no socket, and no command about it is queued,
\* executing or about to be sent, so the next owner's OPEN is the first
\* command the service sees.
FreeConnectionIsQuiet ==
  \A c \in Conns : Free(c) =>
    /\ satSock[c] = NULL
    /\ \A b \in Bufs : (Pending(b) \/ (\E a \in Apps : buf[a] = b /\ at[a] = "ctl.enq"))
                         => cmd[b].conn # c

\* Even after stale closes from sig_handler, a connection is never put into
\* the free ring twice nor while a socket is attached to it.
FreeRingSound ==
  /\ \A i, j \in DOMAIN freeConns : freeConns[i] = freeConns[j] => i = j
  /\ \A c \in Conns : Free(c) => satSock[c] = NULL

\* The commands that attach a socket never overwrite one that is attached
\* (the old socket could never be closed again).
AttachesToEmptyEntry ==
  \A op \in {"OPEN", "SET_RING"} :
    Executing(op) => satSock[cmd[svcCmd].conn] = NULL

\* Buffer b carries an accepted socket to or from an application.
CarriesSocket(b) ==
  /\ cmd[b].op \in {"ACCEPTED", "SET_RING", "DECLINE"}
  /\ Pending(b) \/ InRxRing(b) \/ Held(b)

\* Unless a reset freed its slot under its user, a socket is attached to at
\* most one connection, is alive while it is, and the sockets named by accept,
\* SET_RING and DECLINE buffers are not attached anywhere yet and named by one
\* buffer only.
SocketsNotShared ==
  /\ \A c \in Conns : satSock[c] # NULL /\ satSock[c] \notin reset =>
       sockState[satSock[c]] # "free"
  /\ \A c, d \in Conns :
       satSock[c] = satSock[d] /\ satSock[c] \notin reset \cup {NULL} => c = d
  /\ \A b \in Bufs : CarriesSocket(b) /\ cmd[b].sock \notin reset =>
       /\ sockState[cmd[b].sock] = "accepted"
       /\ \A c \in Conns : satSock[c] # cmd[b].sock
       /\ \A e \in Bufs : CarriesSocket(e) /\ cmd[e].sock = cmd[b].sock => e = b

\* A queued command is executed and its buffer comes back to the pool, unless
\* the service goes down.
QueuedCommandReturns ==
  \A b \in Bufs : Pending(b) ~> (b \in freeCmds \/ ~up)

\* An application closes no connection that another application owns.  This is
\* true only as long as no termination signal arrives: sig_handler closes every
\* index its process ever used, so TLC refutes it with TermSignals = TRUE.
ClosesOwnSocketsOnly ==
  \A a \in Apps : at[a] = "close.enq" =>
    \A d \in Apps \ {a} : idx[a] \notin owned[d]
===========================================================================
