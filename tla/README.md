# IPAugenblick: a TLA+ model of the service and its application library

IPAugenblick runs a user-space port of the Linux TCP/IP stack in one process
(the *service*, a DPDK primary process). Applications are DPDK secondary
processes: they link a library (`ipaugenblick_app_api`) and talk to the service
only through shared memory, that is rings, mempools and a few atomic flags,
plus the signal SIGUSR1. There are no locks and no acknowledgements: a call
returns as soon as its command is queued. What must be right is therefore not in
any single function but in the order of operations of several processes, and
that is what this project models.

Paths below are relative to `src/stack_and_service/`; `api.c`, `api.h`,
`ring_ops.h`, `service_loop.c`, `server_side.h` and `common.h` are the files
`ipaugenblick_*` of those names under `service/`.

## 1. Inventory

| Component | State | Operations | Interaction |
|---|---|---|---|
| Control plane (`api.c`, `ring_ops.h`, `service_loop.c`, `server_side.h`, `user_callbacks.h`) | `free_command_pool`, `command_ring`, `free_connections_ring`, `socket_satelite_data[]`, `local_socket_descriptors[]`, listeners' `rx_ring` | `open_socket`, `bind`, `connect`, `listen_socket`, `set_socket_select`, `accept`, `close`, `socket_kick`, `setsockopt`, `shutdown`, route calls, `sig_handler`; `process_commands`, `user_on_accept` | many applications produce into `command_ring`, the service consumes; connections and buffers travel in both directions |
| Receive path (`user_callbacks.h`, `server_side.h`, `ring_ops.h`, `api.c`) | socket receive queue, `rx_ring`, `local_cache`, `read_ready_to_app`, `ready_connections`, `local_ready_cache` | `app_glue_sock_readable`, `user_data_available_cbk`, `mark_readable`, `select`, `receive`, RX_KICK | flag and ring shared by service and application, SIGUSR1 wakes `pselect` |
| Transmit path (`user_callbacks.h`, `user_get_buffer_callback.h`, `api.c`) | `tx_ring`, `write_done_from_app`, `write_ready_to_app`, `tx_space`, buffers-available list | `send*`, `socket_kick`, `get_socket_tx_space`, `user_on_transmission_opportunity`, `mark_writable`, `user_transmitted_callback` | as above, in the other direction |
| Socket event lists (`porting/app_glue.c`) | readable, writable, accept and closed lists, presence flags, reference counts, SOCK_NOSPACE | callbacks of the stack, `process_rx_ready_sockets`, `process_tx_ready_sockets`, `app_glue_close_socket` | called by the stack and by the main loop |
| Partial reads (`api.c:709-851`) | `shadow`, `shadow_next`, lengths | `get_from_shadow`, `try_read_exact_amount` | private to one application |
| DPDK ring (`rte_ring.h` of dpdk-16.07) | `prod.head`, `prod.tail`, `cons.head`, `cons.tail`, the table | enqueue and dequeue, single or multi, bulk or burst | every ring above is one; processes meet only here |
| Clients, selectors, updates | `free_clients_ring`, `selectors_ring`, `client_ring` | `create_client`, `open_select`, `read_updates`, CONNECT/DISCONNECT_CLIENT | pools never refilled |
| Driver, timers, memory, ported stack, DPDK | - | - | vendored or adapters; used through their results |

What is hard here: (a) every call is several shared-memory operations and any
other process runs between two of them; (b) connection indices are reused, so
flags, queued commands and local descriptors of the last user can meet the next
one; (c) all pools are finite and every error path must put back what it took;
(d) a process can be killed at any point; (e) notification is edge triggered,
one lost event means silence for ever; (f) the service is a single process, so
one wrong `exit(0)` takes down everybody. `PROJECT.json` lists the hazards with
their lines and the property that covers each.

What makes each component correct:

* control plane: a command buffer is never in two places; a connection has one
  user; no command of an old user reaches a new one; an accepted socket is
  attached or closed once; queued commands are executed;
* receive path: the stream is complete and in order; a readable connection is
  announced; what arrives is eventually received;
* transmit path: what is sent leaves in order; a kick is never swallowed; a
  socket that can be written is announced;
* event lists: presence flag and list membership agree; every hold has a put; a
  closed socket is in no list;
* partial reads: the bytes returned are exactly the bytes of the stream, every
  buffer is freed once, and the rest of a read is announced;
* ring: a bounded FIFO queue for any interleaving of its users.

## 2. Modules

| Module | Content |
|---|---|
| `ControlPlane` | the control plane; properties and their mutants |
| `MCControlPlane` | symmetry for TLC |
| `RingQueue` | abstract specification: the bounded FIFO queue a ring promises to be |
| `RteRing` | the index protocol of `rte_ring.h`; implements `RingQueue` |
| `Stream` | abstract specification: what a connection promises in one direction |
| `RxPath` | the receive path and readiness protocol; implements `Stream` |
| `TxPath` | the transmit path: tx_ring, kicks, tx_space, writable events, waiting for buffers; implements `Stream` |
| `AppGlue` | the socket lists between the stack and the service, socket slots and references |
| `ShadowRead` | reads of a requested length over chains of buffers |
| `MCRteRing`, `MCRxPath`, `MCTxPath`, `MCAppGlue`, `MCShadowRead` | the TLC instance modules |
| `ControlPlaneProofs`, `RteRingProofs`, `RxPathProofs`, `TxPathProofs`, `AppGlueProofs`, `ShadowReadProofs` | TLAPS proofs about the module of that name (section 4) |
| `ShadowChainProofs` | TLAPS lemmas about the operators of `ShadowRead` that walk a chain; `ShadowReadProofs` extends it |
| `ConnectionOwnerProofs` | TLAPS proofs about `ControlPlane`: who may use a connection and a socket |

The models share no state. They are layers: `RteRing` shows that a ring is the
queue which the other modules use as one atomic step; the control plane hands out
the connections and carries the commands whose effect on data `RxPath` and
`TxPath` model; `AppGlue` is the part below them, from the stack's callbacks to
the calls of the two data callbacks; `ShadowRead` is the last stage above
`RxPath`. Each says below what it takes from the others for granted. The service
is the same loop in all of them, cut at the operations the module is about.

Three refinements connect detailed and abstract specifications, each a PROPERTY of a
run and a theorem: `RteRing!ImplementsQueue` (the cells between the indices, with
the processes that reserved them, are the abstract queue), `RxPath!ImplementsStream`
(what `receive` returned is what arrived, life by life of the index) and
`TxPath!ImplementsStream` (what the peer acknowledged is what `send` accepted;
datagram sockets are `lossy`: units may be left out, never reordered or repeated).

Operators whose comment begins with "Mutant" are deliberately wrong versions of
the definition after them. No specification uses them; each exists to show that
a property really depends on the code it talks about (`PROJECT.json`,
"mutants").

### ControlPlane

Applications `Apps`, command buffers `Bufs`, the slots `Socks` of `socket_cache`, in
which a `struct socket` lives, and the pool sizes are constants. `at[a]` is the step
inside an API call, `buf[a]` and `idx[a]` the command buffer and connection the
process holds at that moment. A step is one operation on a shared ring or mempool
together with the private code around it, so the model contains every interleaving
of the real calls.

| Code | Model |
|---|---|
| `open_socket` | `OpenTakeConnection`, `OpenTakeCommand`, `OpenEnqueue` |
| one-command calls (`bind`, `connect`, `listen_socket`, `set_socket_select`, `socket_kick`, `receive`'s RX_KICK, ...) | `CtlTakeCommand`, `CtlEnqueue` |
| `accept` | `AcceptDequeue`, `AcceptTakeConnection`, `AcceptEnqueue`, `DeclineEnqueue` |
| `close` | `Close`, `CloseEnqueue`, `CloseFlush` |
| `sig_handler` | `Signal`, `ExitClose` (runs the steps of `close`), `ExitDisconnect`, `DisconnectEnqueue` |
| `process_commands` | `DequeueCommandBuf`, then one `Exec...` action per group of cases |
| `sock_alloc` | `SockAlloc` |
| `user_on_accept`, `post_accepted` | `Accept` |
| closed list of `process_rx_ready_sockets` | `ClosedList`, when `Resets` |

Error paths are those of the code: a failed `open_socket` keeps the connection
it took, a failed RX_KICK forgets its buffer (`lost[b] = "rxkick"`), listeners'
rings are flushed as if they held mbufs (`"flushed"`), a killed process takes
its buffer with it (`"died"`). `free_connections_ring` starts with one index
less than the pool, because a ring of size n holds n - 1 entries.

A connection the network resets is closed by the service itself
(`app_glue.c:307-314`): its slot is free while the satelite entry, or the buffer
that carries an accepted socket, still names it, and the next OPEN or accept may
take it. The CLOSE of the first connection then closes the socket of the second.
All of that is in the model; the ghost variable `reset` holds the slots it happened
to, until nothing names them any more, and `SocketsNotShared` is about the others.
What the closed list does to the memory of the socket is `AppGlue`'s subject.

Abstractions. Rings and mempools are atomic (`RteRing` is about the rings); the
contents of a command are its code, connection and socket; the enqueue of OPEN and
the assignment of the local descriptor after it are one step; SELECT, KICK and
RXKICK, whose data work is `RxPath`'s, matter here only for what they do to the
service process; `Accept` gets its command buffer and posts or frees it in one step;
of two connections that name one slot after a reset the code serves the one attached
last, `Accept` either; SELECT for an index without a socket has no effect on this
state (the code writes beside `g_ipaugenblick_sockets`); a second termination signal
inside `sig_handler` is not modelled. Applications use the API as documented: they
kick and receive on connected sockets only (`CallAllowed`).

### RteRing

Processes `Producers` and `Consumers` on one ring whose flags (single or multi
on each side) are chosen initially. A step is one access to an index, or the
copy of the objects. Indices are counted modulo `Modulus` and start near it, so
that they wrap in every run.

| Code | Model |
|---|---|
| `rte_ring_init` | `Init`, `Mask` |
| `__rte_ring_mp_do_enqueue`, `__rte_ring_sp_do_enqueue` | `EnqLoad`, `EnqCheck`, `EnqMove` (compare-and-set, or the plain store of a single producer), `EnqCopy`, `EnqPublish` (waits for the tail of earlier producers) |
| `__rte_ring_mc_do_dequeue`, `__rte_ring_sc_do_dequeue` | `DeqLoad`, `DeqCheck`, `DeqMove`, `DeqCopy`, `DeqPublish` |
| bulk or burst behaviour | `fixed` of the call |
| a process killed inside a call | `Die` |

Abstractions. The barriers of the code make the steps of a process visible in
program order. The users of a single end take turns when `TakeTurns`; the pause
in the wait loops and the watermark (`RxPath` has it) are left out. A user of a
single end that was killed in its call is not followed by another one (`MayCall`).
In the code that can happen: `sig_handler` (`api.c:111`, installed at
`api.c:246-253`) may interrupt an enqueue, closes the connection, and the next owner
of the index enqueues into the same ring; its tail moves over entries that were
reserved and never written. What the runs and theorems say of single ends is said
without that case. The last
conjunct of `RteRingAssumption` says that no process sleeps through a whole turn
of the 32-bit indices between its load and its compare-and-set.

### AppGlue

One thread, so a step is one callback, one command, or one iteration of a loop
over a list. A `struct socket` is a slot of `socket_cache`, a FIFO pool.

| Code | Model |
|---|---|
| `app_glue_sock_readable`, `_write_space`, `_wakeup`, `_error_report` | `SockReadable`, `SockWriteSpace`, `Established`, `PeerCloses`, `NewConnection`, `Reset`, through `Wakeup` and `Enlist` |
| a refused connect | `Refused` |
| OPEN, CONNECT, LISTEN, SET_SOCKET_RING, SET_SOCKET_SELECT, RX_KICK and TX_KICK, CLOSE, DECLINE cases | `Create`, `Connect`, `Listen`, `SetSocketRing`, `SetSocketSelect`, `Kick`, `ExecClose`, `ExecDecline` |
| `app_glue_close_socket`, `kernel_close`, `sock_alloc` | `CloseSocket` with `Unlink` (TAILQ_REMOVE) and `KernelClose`, `Dangles` |
| `app_glue_periodic` | `StartRx`, `StartTx` |
| `process_rx_ready_sockets`, `process_tx_ready_sockets` | `ProcessClosed`, `ProcessAccept`, `ProcessRead`, `ProcessWrite` |
| `user_on_accept`, `kernel_accept` | `Accepts`, `Taken`, `Tried` |

A slot keeps its contents when it is freed and is zeroed when it is handed out
again. The closed list (`app_glue.c:313`) closes a reset socket while
`socket_satelite_data`, or a buffer on its way, still names it. A later CLOSE or
DECLINE of that connection closes it once more: nothing in `app_glue_close_socket`
or `kernel_close` looks, so `tcp_close` puts one more reference of the sk
(`KernelClose`). What is done with a freed slot that was handed out again, or with
an sk without references, is undefined, and the model stops with `fault = "stale"`:
reuse of a slot the service points to, the second close, a kick, SET_SOCKET_RING or
SET_SOCKET_SELECT of a connection whose sk is freed. The properties are about all
behaviours up to that point; `DanglingOnlyByReset` says that only the closed list
leaves a slot dangling, `StaleOnlyByReset` that no other behaviour gets to the
fault.

The closed event of a reset connection is posted when `ready_connections` has room;
`user_on_closure` ignores a failure (`service_loop.c:102`), the model keeps such a
connection in `lost`, and `ResetIsReported` excepts it.

Abstractions. The contents of rings are not in this module: the flush of both rings
of a reset connection (`user_callbacks.h:274`) frees their buffers and touches none
of this state.

### ShadowRead

One socket, one application. A buffer has its offset, length, link and chain
length; a byte is its buffer and its place in it, so order, loss and repetition
are visible.

| Code | Model |
|---|---|
| `memcpy_toiovec` fills a chain and links its buffers | `Deliver` |
| `get_from_shadow` | `GetFromShadow` |
| `try_read_exact_amount` | `At`, `ReadShort`, `EndInside`, `EndAt` in `TryReadExactAmount` |
| `receive` | `Receive`, with `ReadRing`, `ReadShadow`, `ReadNothing`, `ReadAllShadow`, `Link`, `Announces` |
| `release_rx_buffer` | `ReleaseRxBuffer` |
| `flush_rx` at close | `Close` |
| `select` | `Select` |

Abstractions. rx_ring and local cache are one queue of chains. Buffers are not
filled a second time, so a freed buffer that is used again stays visible. The
enqueue into `ready_connections` that announces the rest of a read may find it full,
which `receive` ignores (`api.c:809`, `836`): `unheard` says that the last one did,
and `RestIsAnnounced` excepts that rest. A read that finds a shadow without bytes
leaves `*total_len` what was asked (`ReadNothing`, `api.c:784-805`); `ReportsLength`
excepts that one read. `boundary` remembers that a read ended exactly between two
buffers of a chain, which is where the code goes wrong (section 3); what is claimed
of the code is claimed until then. `get_next_buffer_segment_and_detach_first` is
left out.

### RxPath

One application with connections `Conns` on one selector, and the service.
Buffers are numbered per connection, so order and loss are visible. A step
contains at most one operation on shared memory; `svc` is the position inside
`user_data_available_cbk` and `mark_readable`, `at` the position inside `select`
and `receive`.

| Code | Model |
|---|---|
| `app_glue_sock_readable`, `process_rx_ready_sockets` | `SockReadable`, `ProcessRxReady` |
| OPEN, SET_SOCKET_RING, SET_SOCKET_SELECT, RX_KICK, CLOSE cases | `ExecCommand` |
| `kernel_recvmsg`: one datagram, or what the stream has as one chain | `Recvmsg`, `Buffers` |
| loop of `user_data_available_cbk`, `submit_rx_buf` | `SubmitRxBuf`, `LoopEnds` |
| `mark_readable`, `kill` | `MarkReadable`, `PostReadable`, `WakeUp` |
| `select` | `SelectCached`, `SelectDequeue`, `SelectEmpty`, `SelectSleep`, `SelectTimeout` |
| `receive`, `dequeue_rx_buf` | `DequeueLocal`, `DequeueBurst`, `RxKick` |
| `close` (queues CLOSE, then flushes), `open_socket`/`accept` of the same index | `Close`, `CloseFlush`, `Open` |

`rx_ring` is created with watermark 1, so every enqueue returns -EDQUOT
(`rte_ring.h:580-583`) and `submit_rx_buf` always calls `mark_readable`: the
model has that as the "mark" step after each buffer. Both selector modes are
initial states. In edge mode the application drains a connection until
`receive` returns -1, as the test clients do; in level mode it may stop earlier.

`Mixes` says which connections belong to datagram sockets. When `PeerFins`, the peer
of a stream may half-close it at any moment, with its last buffer or without
(`PeerFin`). `tcp_fin` has left TCP_ESTABLISHED before `app_glue_sock_readable` is
called for the buffer that came with the FIN, which then returns without listing the
socket (`app_glue.c:78-80`): that buffer stays in the socket until some RX_KICK or
SELECT command reads it. `Due` is what arrived without it, and `DataIsReceived` is
about that.

Abstractions. `receive` is called with `*total_len = 0` (`ShadowRead` has the
other reads);
getting a command buffer and queueing it is one step here (`ControlPlane` has
the details), which fails when `KicksMayFail`; write and close events share
`ready_connections` in the code and belong to the transmit path: here they only
reduce the ring's room, which `ReadyRingSize` stands for; a reset, and the flush of
rx_ring it causes (`user_callbacks.h:274`), is not modelled.

### TxPath

One application with connections `Conns` on one selector in edge mode, and the
service. The application is the loop of the test clients and of the HOWTO: on
each writable event it asks for `tx_space`, sends that many buffers, and kicks
until the kick succeeds. A step contains at most one write to shared memory;
`svc` is the position inside `user_on_transmission_opportunity`,
`mark_writable` and the end of the main loop together with who called it, `at`
the position inside the API calls.

| Code | Model |
|---|---|
| `select`, write side | `Select` |
| `get_socket_tx_space`, `notify_empty_tx_buffers` | `GetTxSpace`, `ClearWriteReady`, `NotifyEmpty` |
| `get_buffer`, `send` | `GetBufferFails`, `SendBegins`, `SendEnqueue`, `SendSub` |
| `socket_kick` | `Kick` (test-and-set of `write_done_from_app`), `KickCommand` |
| SET_SOCKET_RING, SET_SOCKET_SELECT, TX_KICK, TX_POOL_EMPTY, CLOSE cases | `ExecCommand` |
| `process_tx_ready_sockets` | `ProcessTxReady`; SOCK_NOSPACE is set on return |
| `user_on_transmission_opportunity`, `tx_buf_count`, `user_get_buffer` | `ClearWriteDone`, `CountTxBufs`, `SendPage`, `DequeueTxBuf`, `PageDone` |
| its datagram branch, `udp_sendmsg` | `SendBurst`; what does not fit, or fails when `SendsMayFail`, is freed and no event is posted |
| `mark_writable` | `MarkWritable`, `PostWritable`, `Return` |
| `sk_wmem_free_skb`, `tcp_trim_head`, `user_transmitted_callback`, `tcp_check_space`, `sock_wfree`, `app_glue_sock_write_space` | `Ack`, `GiveBack`, `WriteSpace` |
| `tcp_fin` | `PeerFin`, when `PeerFins` |
| end of `ipaugenblick_main_loop` | `ServeStarved`, `MainLoop` |

`mark_writable` ends with a bare `return;` when the flag is already set
(`server_side.h:310`), and the main loop branches on the value: the model lets
that value be anything. `Kinds` are the kinds of sockets an instance has; TLC
chooses one for each connection. A datagram that left the driver gives no
tx_space back: the whole send buffer size is stored when the application asks
for buffers (`service_loop.c:272`) or is served from the list of sockets waiting
for them.

`tx_space` counts data and `sk_wmem_queued` counts memory, so a connection that
sends short buffers (`Short`) fills its send queue while `tx_space` still
permits more: `SndBuf` is the initial `tx_space`, `ShortRoom` the number of
short buffers that fill the queue. That is how buffers come to stay in tx_ring.

The stack does not return the space of every buffer once. With GSO a partial
acknowledgement drops fragments of an skb in `tcp_trim_head`
(`net/ipv4/tcp_output.c:1184-1185`) without `user_transmitted_callback`, and a
buffer that `skb_split` divided is returned by both skbs
(`specific_includes/net/sock.h:1562-1565`). `GiveBacks` are the numbers of times
`Ack` may return the space of a buffer, {0, 1, 2} in both runs, and `drift` records
the difference per connection. `TxSpaceAccurate` says that this is all the drift
there is; `EverythingIsSent` excepts a connection whose drift is negative, which may
run out of space for good.

After the FIN of the peer (`finned`) a stream is in CLOSE_WAIT, and
`app_glue_sock_write_space` returns without relisting it (`app_glue.c:107-109`): what
is left in tx_ring waits for the next kick. `BacklogIsNoticed` and
`EverythingIsSent` except such a stream. `user_get_buffer` takes a buffer only while
the size goal is at least 1448 (`user_get_buffer_callback.h:29`): 0 in `SizeGoals`
is an MSS below that, with which a page stays empty.

Abstractions. `tx_space` and the send queue are counted in buffers, as the
division by 1448 in `get_socket_tx_space` does for full buffers; a kernel page
takes up to a number in `SizeGoals` of them, chosen for each page; buffers are
acknowledged one at a time, although the stack frees an skb with several at once;
allocations of the stack succeed (when `sk_stream_alloc_skb` fails,
`net/ipv4/tcp.c:1014`, the page is lost with its buffers); CLOSE keeps what is queued
in the stack, which `tcp_close` goes on sending, or drops it; the flush of tx_ring
after a reset is not modelled;
getting a command buffer and queueing the command is one step, which fails when
`KicksMayFail`; `CommandBound` limits the application's own commands in
command_ring; the sleep of `select` is not modelled here (it is in `RxPath`), so
an event in ready_connections is found. The pool of buffers is emptied and
refilled by its other users at most `MaxDrains` times. Connected sockets start
established, in the write_ready list where `app_glue_sock_wakeup` put them,
accepted ones with their SET_SOCKET_RING and SET_SOCKET_SELECT queued.

## 3. Runs

Passing runs:

| Run | Instance | Shows |
|---|---|---|
| `control_safe` | 2 applications, 3 buffers, 3 sockets, 2 usable connections, 2 ring entries, listener ring of 1 | types; `OneOwner`, `FreeConnectionIsQuiet`, `AttachesToEmptyEntry`, `SocketsNotShared`, `RxKickLeakBounded` |
| `control_signals` | as `control_safe` with 2 sockets and termination signals at every step | `CommandBufferConservation`, `FreeRingSound` |
| `control_live` | 1 application, 2 buffers, 2 slots, every command, select on listeners, resets at every step | `SocketsNotShared`, `QueuedCommandReturns` |
| `rx_safe` | 1 connection, stream or datagram, 2 lives, 4 buffers per life through an rx_ring of 3 entries and a cache of 2, bursts of 3, lost kicks | types; `StreamIntact`, `ImplementsStream` |
| `rx_live` | a stream with 3 buffers and a FIN of its peer at every step, a datagram connection with 1, rings of 1 entry, both selector modes | `ReadableIsAnnounced`, `DataIsReceived` |
| `tx_safe` | 1 accepted stream or datagram connection, 3 short buffers through a tx_ring of 2 entries, send queue of 1 and tx_space 2, ready_connections of 1 entry, pages of 0 or 2 buffers, space returned 0 to 2 times, a dry spell of the pool, failing kicks and sends, FIN, close | types; `TxStreamIntact`, `TxSpaceAccurate`, `ImplementsStream` |
| `tx_live` | 1 connected stream or datagram socket, 3 short buffers, tx_ring of 2 entries, tx_space 2 against a send queue of 1, pages of 1 or 2 buffers, space returned 0 to 2 times, FIN | `BacklogIsNoticed`, `EverythingIsSent` |
| `ring_safe` | 2 producers, 2 consumers, ring of 4 entries, indices modulo 8 starting at 6, calls of 1 or 2 objects, 1 process killed | types; `IndicesInOrder`, `ImplementsQueue`, `FailuresAreTrue` |
| `ring_live` | 2 producers, 1 consumer, the rest as before | `ReservedReturns` |
| `glue` | 2 connections, 2 socket slots, 1 connection waiting to be accepted | types; `ListsConsistent`, `HeldWhileListed`, `DanglingOnlyByReset`, `StaleOnlyByReset`, `ResetIsReported` |
| `shadow` | 3 buffers of 1 to 3 bytes in chains of up to 3, reads of 0 (everything) to 5 bytes | types; `ReadsInOrderInside`, `ReportsLength`, `BuffersAccountedFor`, `RestIsAnnounced` |

Why the bounds are enough for what they show: with two connections, two ring entries
and three buffers each pool runs empty and each ring runs full in the presence of a
second process holding the missing element, and pool and ring have the ratio of the
code (`COMMAND_POOL_SIZE` for both, the ring holding one less). Three slots let a
listener, an accepted and an opened socket exist at once; slots are handed out
again, so the number of sockets over time is not bounded. With resets
(`control_live`) one application and two slots are what TLC can do in the time, and
what it takes for a slot to have two users while another socket exists; the theorem
of section 4 has neither bound. In `RxPath` the data exceeds each ring, so the
socket is left with a backlog, and the local cache is smaller than `rx_ring` as in
the code. In `TxPath` the data exceeds tx_ring, send queue and tx_space, so each
limit is the binding one in some behaviour; one connection is enough because the
connections share only command_ring, ready_connections and the starved list, and
sharing the last is the one thing these instances leave out (a connection at the
head of that list that cannot be marked holds back the others,
`service_loop.c:394`). In `RteRing` two users on each side are what every wait and
every lost compare-and-set needs, and starting at 6 of 8 makes all four indices
wrap. In `AppGlue` two slots for two connections make every freed slot be handed out
again; an instance with three slots was checked too. In `ShadowRead` a read can end
in the first, a middle and the last buffer of a chain and in a buffer already cut by
an earlier read; four buffers were checked too. `SYMMETRY` is never used with a
liveness property. The bounds that are not parameters of the code: `MaxData`,
`MaxDatagrams`, `MaxLives`, `MaxDrains`, `CommandBound`, `MaxBurst`, `MaxObjs`,
`MaxDeaths`, `MaxPending`, `MaxBufs`, `MaxChain`, `MaxLen`, `MaxAsk`.

One run expects a violation, with a finding in `PROJECT.json`.
`shadow_boundary` checks `ReadsInOrder`, what `ipaugenblick_api.h:350` says of a
read with a length, and TLC finds that a read which ends exactly at the end of a
buffer with a successor makes the next one return bytes that never arrived, or, with
other lengths, leave bytes out (`api.c:756-758` takes the length of the rest from the
buffer after the successor). `shadow` shows that this is the only such case within
its bounds. A second disagreement follows from the first: the read after such a one
may return no byte and then leaves `*total_len` what was asked (`api.c:784-805`),
while `ipaugenblick_api.h:351` says that `*len` "will contain an exact number of
bytes retrieved". `ReportsLength` excepts exactly that read, and TLC refutes it
without the exception.

The passing runs therefore also say under which conditions the protocols work.
The constants make each condition explicit, and with one of them changed TLC
refutes a property; the project keeps no run for these:

| Changed | Refuted | What happens |
|---|---|---|
| `ControlPlane`: `TermSignals = TRUE` | `ClosesOwnSocketsOnly` | sig_handler closes every index its process ever used, also those another process owns by now (`api.c:124`) |
| `RxPath` (`rx_live`): `MaxLives = 2` | `ReadableIsAnnounced` | the readable flag of the last user silences the next one (`server_side.h:229`) |
| `ReadyRingSize = 2` | `ReadableIsAnnounced` | an event that does not fit is dropped after its flag was set (`server_side.h:236`) |
| `KicksMayFail = TRUE` | `DataIsReceived` | an RX_KICK without a command buffer leaves data in the socket (`ring_ops.h:98`) |
| `Blocking = TRUE` | `DataIsReceived` | SIGUSR1 between the check of ready_connections and pselect (`api.c:1145-1154`) |
| `TxPath` (`tx_live`): `KicksMayFail = TRUE` | `BacklogIsNoticed` | the repeated kick finds its own flag set, returns 0 and sends nothing (`api.c:949`) |
| `MaxDrains = 1` | `EverythingIsSent` | get_buffer asks to be woken up and leaves the flag set that suppresses the event (`api.c:881`) |
| `Kinds = {"accepted"}`, `SndBuf = TxRingSize = 6` | `BacklogIsNoticed` | SOCK_NOSPACE is never set for an accepted socket, its write space not reported (`app_glue.c:354`) |
| `SendsMayFail = TRUE` | `EverythingIsSent` | a failed udp_sendmsg ends the callback without an event (`user_callbacks.h:143`) |
| `RteRing`: `TakeTurns = FALSE` | `ImplementsQueue` | two users of a single-producer end; `receive` does that to ready_connections (`api.c:809`) |
| `ShadowRead`: `ReleaseFirst = FALSE` | `BuffersAccountedFor` | the buffer in which a read ended is freed with the chain and is still the shadow (`api.c:741`) |

Other behaviours of the code that the models contain and no run singles out:
set_socket_select on a listener makes the service exit (`user_callbacks.h:194`;
`SelectOnListener = TRUE`), and so does LISTEN on a descriptor whose socket could
not be created (`service_loop.c:210`, `app_glue.c:251`); a close whose CLOSE
cannot be queued, or whose socket was never created, does not give the
connection back (`api.c:542`, `service_loop.c:216`); the flush at the end of
`close` runs after CLOSE was queued, beside the service's own flush or the next
owner of the index (`api.c:545`); a socket closed while it waits for buffers
stays in that list, and the main loop then exits (`service_loop.c:389`); a
refused connect puts the socket into no list, so the application is never told
(`app_glue.c:240`); `app_glue_close_socket` keeps the references of the lists it
removes the socket from (`app_glue.c:584`); a read that ends inside a later
buffer reports the length reached in that buffer as the length of the first
one, a read of everything after a partial one reports too small a total, and
`flush_rx` may free `shadow_next` twice (`api.c:741`, `api.c:713-722`,
`ring_ops.h:123`); and what the properties except by name: the buffer that came with
a FIN (`app_glue.c:78`), the backlog of a stream after a FIN (`app_glue.c:107`), a
stream that lost tx_space (`tcp_output.c:1184`), a closed event or the event of a
rest that found ready_connections full (`server_side.h:331`, `api.c:809`), slots
freed under their user (`app_glue.c:313`).

Fairness. `ControlPlane`: weak fairness of `ProcessCommands` only, since
`ipaugenblick_main_loop` polls the command ring in every iteration and every case
ends; applications promise nothing. `RxPath`: weak fairness of the service's steps,
for the same reason, and of the application's select/receive loop, because a claim
that data is received presumes someone who receives; not of arrivals, `PeerFin`,
`Close` or `Open`. `TxPath`: the main loop visits commands, the driver, the
write_ready list and the starved list again and again, but each of them is disabled
while it is busy with another one, so `ExecCommand`, `MainLoop`, `ProcessTxReady`
and `Ack` are strongly fair; a callback that has begun ends (weak fairness of
`InCallback`), the application serves its events, and the other users of the pool
give buffers back. Strong fairness of `Ack` also says that the peer acknowledges
what it is sent. `Close`, `PeerFin` and `PoolRunsDry` are not fair. `RteRing`: a
process inside a call goes on (weak fairness per process, dead ones excepted);
nobody has to begin a call. `AppGlue`: `app_glue_periodic` is called in every
iteration of the main loop and its loops end (weak fairness of `Periodic`); it
shares the thread with commands and callbacks, so its two beginnings are strongly
fair. Stack and applications promise nothing.

Deadlock is checked except where stopping is legitimate: in `ControlPlane` when
the service is down or every application is dead, in `TxPath` when everything
was sent or closed, in `RteRing` when all objects were enqueued or the survivors
wait for a dead process, in `AppGlue` after a fault, and in `ShadowRead` after
close.

## 4. Proofs

Every theorem is about the same definitions the runs check, for every value of
the constants that satisfies the named assumptions. Besides those (sizes are
naturals of the kind the code creates, `NULL` and `NONE` are none of the other
values, index sets are finite where something is counted) nothing is assumed,
except what is said below for the ring, for the leak of `receive`, for ownership
of connections, for events and kicks, and for the order in which buffers are
released.

| Module | Theorem | States |
|---|---|---|
| `ControlPlaneProofs` | `TypeCorrect`, `Conservation` | `TypeOK`, `CommandBufferConservation` |
| `ConnectionOwnerProofs` | `FreeRingStaysSound`, `AttachesOnlyToEmptyEntry`, `SocketsAreSharedByResetsOnly`, `RxKickLeakStaysBounded` | `FreeRingSound`, `AttachesToEmptyEntry`, `SocketsNotShared`, `RxKickLeakBounded` |
| | without signals: `ConnectionsHaveOneOwner`, `FreeConnectionsStayQuiet`, `ClosesOwnSocketsWithoutSignals` | `OneOwner`, `FreeConnectionIsQuiet`, `ClosesOwnSocketsOnly` |
| `RteRingProofs` | `TypeCorrect`, `IndicesStayInOrder`, `FailuresAreAlwaysTrue`, `RingImplementsQueue` | `TypeOK`, `IndicesInOrder`, `FailuresAreTrue`, `ImplementsQueue` |
| `RxPathProofs` | `RxTypeCorrect`, `RxStreamStaysIntact`, `RxImplementsStream` | `TypeOK`, `StreamIntact`, `ImplementsStream` |
| | if events fit and flags are fresh: `RxReadableStaysAnnounced` | `ReadableIsAnnounced` |
| `TxPathProofs` | `TxTypeCorrect`, `OnlyTheStackDriftsTxSpace`, `TxStreamStaysIntact`, `TxImplementsStream` | `TypeOK`, `TxSpaceAccurate`, `TxStreamIntact`, `ImplementsStream` |
| | without failing kicks and with `0 \notin SizeGoals`: `TxBacklogStaysNoticed`; also without accepted sockets: `TxBacklogIsNoticed` | `BacklogIsNoticed` |
| `AppGlueProofs` | `GlueTypeCorrect`, `ListsStayConsistent`, `HeldWhileInAList`, `OnlyResetsDangle`, `ResetsComeFirst` | `TypeOK`, `ListsConsistent`, `HeldWhileListed`, `DanglingOnlyByReset`, `StaleOnlyByReset` |
| `ShadowReadProofs` | `RestIsAlwaysAnnounced`, `TypesHold`, `LengthsReported`, `ReadsStayInOrder` | `RestIsAnnounced`, `TypeOK`, `ReportsLength`, `ReadsInOrderInside` |
| | with `ReleaseFirst`: `BuffersGoBackOnce` | `BuffersAccountedFor` |

Each module has one inductive invariant, to which `ConnectionOwnerProofs`,
`RxPathProofs`, `TxPathProofs` and `ShadowReadProofs` add others relative to it.
TLC checked each on a small instance before it was proved.

**Control plane.** `TypeOK` is not inductive alone: `cmd[buf[a]]` is only
meaningful when the call holds a buffer, and the service indexes the satelite
table with the connection a command names. `TypeInv` therefore adds which steps
hold a buffer or a connection (`HoldsAt`) and that a queued CLOSE, or one a
process is about to queue, names a connection (`CloseIsNamed`). Conservation:
every action moves at most one buffer from one place to another, except the
flush, which moves a set of buffers from one rx_ring to "lost". `Moved(M, p, F)`
states that the buffers of M go to place p and all others stay; there is one lemma
per kind of move (`TakeMoves`, `SendMoves`, `KeepMoves`, `LoseMoves`,
`FlushFacts`, `ServiceMoves`, `AcceptMoves`, ...) and one step that derives the
invariant from `Moved`.

**Connections and sockets, with signals.** `LifeInv` follows one life of a
connection: in the free ring, taken by one call, named by the one command that
attaches a socket, attached, free again. `LifeSound` says that a connection is in
one of these stages and once in it. The stale CLOSE commands of `sig_handler` do
not disturb it: the service puts a connection back only when a socket is attached,
which is the last stage, so a stale CLOSE may end a life early but never puts a
connection back twice. The same for an accepted socket (`SocketsSound`): until it
is attached or declined one buffer carries it, and nothing else knows it; that is
why `LifeInv` contains the conservation of buffers. It is stated slot by slot
(`SlotSound`) for the slots not in `reset`: a step touches one slot, and a slot leaves
`reset` when it is handed out with nothing naming it, so that it is sound again.
`FreeRingSound`, `AttachesToEmptyEntry` and `SocketsNotShared` follow for any value of
`TermSignals` and `Resets`.

**The leak of `receive`.** `RxKickLeakStaysBounded` counts: a buffer is forgotten
only when the command ring is full, that is with `CommandRingSize - 1` buffers in
it; these, the one that is being forgotten and those forgotten before are different
buffers of the pool. It assumes that the pool is finite and not larger than the
size of the ring (`COMMAND_POOL_SIZE` for both); a larger pool could lose more.

**Ownership, without signals.** `OwnerInv` adds that every command about a
connection is on its way, or in the hands of an application that owns the
connection; that an owned connection has one owner and no CLOSE on its way; and
that a CLOSE is the last command about its connection (`CloseIsLast`): behind it
in the ring nothing names the connection, and when the service executes it nothing
does anywhere. So what becomes free is quiet. The hypothesis
`TermSignals = FALSE` is needed: on the instance of `control_signals` TLC refutes
`OneOwner` and `FreeConnectionIsQuiet` as well as `ClosesOwnSocketsOnly`.

**Ring.** `RingInv` counts places from the start instead of indices modulo
`Modulus`: the four indices are the images of four naturals in order, a call that
moved a head holds an interval of places, the intervals of one end are disjoint
and fill the part between its tail and its head (`EndSound`), the objects of the
table are those given to these places (`TableSound`), and a call that has only
loaded an index remembers a place that is not later than the present one. From
there the wrap of the indices is arithmetic. All four theorems assume
`TakeTurns`: with two users at once on a single end the ring is no queue, as TLC
shows (section 3). `FailuresAreAlwaysTrue` also assumes
`Cardinality(Producers) * MaxObjs <= Modulus - Size`: the difference between a
stale head and the present opposite tail must not wrap, so a call may not sleep
while the indices come within `Size` of a whole turn. For 32-bit indices and the
rings of this program that is four billion entries during one call. The other
theorems do not need it: the compare-and-set makes a stale head harmless.
`RingImplementsQueue` maps the cells between the indices, with the processes that
reserved them, to the three parts of `RingQueue`, and shows per action which step
of the queue it is: moving a head is the step that reserves, publishing a tail
the one that hands over or gives back, all others leave the queue alone.

**Receive path.** `RxInv` says, per connection, where each arrived buffer is. The
parts it needs beyond `StreamIntact`: what the service does at each step of the
callback and with which free count (`SvcSound`: the free count it read is never
more than the present room, because the application only takes); which commands
can be queued and in which order (a CLOSE is the last of its life); that a
connection not yet attached has nothing; and that the contents of the rings are
the flattened tail of what arrived (`StreamParts`). The refinement follows per
action: only arrivals, the end of `receive`, `Close` and `Open` are steps of
`Stream`.

`ReadableIsAnnounced` is a second invariant on top, `NoticeInv`. A set
read_ready_to_app must stand for an event, or `mark_readable`, which does nothing
when it finds the flag set, would leave the chain it has just submitted without
one. So both a set flag and a chain in rx_ring imply that the connection is in
ready_connections, returned by select, remembered in level mode or being marked.
That alone is not inductive: a receive under way clears the flag and then looks at
rx_ring, and at its end the connection leaves what select returned. From the clear
on, a flag that is set again must therefore have an event of its own, and so must a
chain that arrived after the receive found rx_ring empty (the last two conjuncts of
`Noticed`). That the receive takes something when there is something needs that
chains are never empty (`ChainsFilled`). The theorem has two hypotheses, which are
the two lines that refute the property in section 3: `EventFits`, the event
`mark_readable` is about to post finds room unless the connection has one in the
ring already (`server_side.h:236` drops it otherwise), and `FlagIsFresh`, an index
is opened again only with its flag clear (nothing clears it,
`server_side.h:229`). Neither is a condition on constants, since a ring of any size
can be filled with repeated events of one connection in level mode; TLC finds both
true in every state and step of `rx_live`, and with `MaxLives = 2` it finds
`NoticeInv` in all behaviours that satisfy them.

**Transmit path.** `TxInv` has the same shape: the service's position with what
it holds in its page, the queued commands, which connections are attached, the
application's position with what it may still send, the bounds, `TxSpaceAccurate`
and `StreamParts`, exact for stream sockets and increasing for datagram sockets.
`TxSpaceAccurate` is inductive once these are known: the increment for an
acknowledged buffer, times the number the stack chooses, and the reduction of `send`
commute, and the buffer between enqueue and reduction is counted once.

`BacklogIsNoticed` rests on three facts per connection (`BacklogInv`). A set
write_done_from_app, which lets `socket_kick` return at once, stands for a TX_KICK
that is queued or about to be, or for the service standing before its first clear of
the flag; the second clear, whose count nobody uses, loses nothing because by then
the kick was served. Except for datagrams, whose every departure calls
`app_glue_sock_write_space`, SOCK_NOSPACE is set, the socket is in the write_ready
list, or the call that will set it is under way: so an acknowledgement that empties
the send queue brings the service back (an empty queue is always writeable,
`EmptyIsWriteable`). And once the service is past its look at tx_ring, what is in it
is claimed by somebody else: a full send queue, an event, a kick, or the application
that put it there and has still to kick; for a burst of datagrams that is what
exceeds the count. The hypotheses are: kicks find a command buffer and room
(`KicksMayFail = FALSE`), the socket was not accepted (section 3), and a page takes
at least one buffer (`0 \notin SizeGoals`); the property itself is about streams
whose peer sent no FIN. The stack may keep or return space as it likes, the pool may
run dry, sends may fail, ready_connections may overflow and connections be closed.
`TxBacklogStaysNoticed` says it for the other sockets of an application that also
has accepted ones.

**Event lists.** `GlueInv` adds to the properties: a slot is at most once in the
pool and then it is freed; at least one reference is held for every flag, and one
more for the socket's own life until it is closed (the second close of a reset
socket finds its flags cleared and may take what is left); a freed slot that is
still wanted was reset; a socket in the closed list was reset; an attached socket
leads back to its connection and is not on its way to another. All of that is
claimed while `fault = "none"`; `TypeOK` and that the service never takes the `exit`
of `app_glue_sock_readable` hold always. For the proofs TAILQ_REMOVE became the
explicit `Unlink`, which takes out one entry as the macro does.

**Partial reads.** `RestIsAnnounced` needs only that the socket has the form of one
and that `events` is a natural; every way out of `receive` is a case, with room in
`ready_connections` or without. The others need the shape of memory (`Shape`,
`Sound`): a buffer is linked to the one filled after it or to none, so every chain
is an interval of buffers; the chains in the queue are adjacent intervals up to the
last buffer filled; the shadow and what is behind it reach up to the first of them
(`Unread`); what the application holds lies in front. `Shape` survives a read that
ends at the end of a buffer, so `TypesHold` and `LengthsReported` have no condition.
`Ordered` then says that what was returned, followed by the rest of the shadow, the
chain behind it and the queue is the stream; each step of `receive` splits this
sequence once. `Owned` says that the application holds at most one chain, which ends
with the shadow buffer or just before the unread ones, and that the freed buffers
are exactly those in front of it, or of the unread ones if it holds none. Both are
claimed until a read ends at the end of a buffer that has a successor, since after
it the run `shadow_boundary` shows `ReadsInOrder` violated. `BuffersGoBackOnce`
assumes `ReleaseFirst`; without it TLC refutes the property (section 3).

Lemmas about operators are stated once per module: what `Append`, `Tail` and
`Unlink` do to membership and to distinctness, what the sum modulo `Modulus` of
two places is, what `FlattenSeq` gives for a longer or a shorter sequence of
chains, what `Chain`, `Size` and `Contents` of `ShadowRead` give for a chain that
grows, is cut or is read from inside. These are recursive functions, and their
unfolding rests on an induction over the naturals; it is done for sets of
naturals, from the well-foundedness of `<` (`LeastOf`, `Induct` in `RxPathProofs`,
and likewise in `ShadowChainProofs`).

Only model-checked:

* liveness (`QueuedCommandReturns`, `DataIsReceived`, `EverythingIsSent`,
  `ReservedReturns`, `ResetIsReported`): fairness is outside the prover.

Every safety property of a passing run is a theorem.

## 5. Plan

Done: `ControlPlane`, `RxPath`, `TxPath`, `RteRing`, `AppGlue`, `ShadowRead`; the
abstract specifications `RingQueue` and `Stream`; the three refinements checked
and proved; the invariants of section 4 proved.

Left: reuse of an index and the bulk calls in `TxPath`, and liveness, which stays
with TLC.

## 6. Not modelled

* The ported Linux stack (`net/`, `kernel/`, `lib/`, `crypto/`,
  `specific_includes/`) and the two vendored copies of DPDK. They are nearly all
  of the repository's 1.2 million lines of C, third-party code that the models
  use through its results; the ring is modelled because every protocol of this
  program rests on it. The program's own code is the few thousand lines of the
  service, the library and the glue, and that is what the modules map; as a share
  of all lines in the repository it is necessarily small.
* Clients, selectors and interface updates: indices are handed out at start-up
  and never taken back, and no later operation depends on that state.
* Device set-up, packet I/O, timers, work queues, memory adapters: hardware and
  configuration, or thin adapters without a protocol of their own.
* In the modelled components: addresses of `receivefrom` and `sendto`, the bulk
  calls (loops over the single ones but for one ring operation), a failing skb
  allocation of a stream socket, reuse of an index in `TxPath`, two connections
  in the list of sockets waiting for buffers,
  `get_next_buffer_segment_and_detach_first`.
