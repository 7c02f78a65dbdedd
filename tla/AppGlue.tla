------------------------------ MODULE AppGlue ------------------------------
(***************************************************************************)
(* The lists of app_glue.c between the TCP/IP stack and the service: the   *)
(* stack's callbacks put a socket into the list of readable, writable,     *)
(* acceptable or closable sockets, once, with a reference on it, and       *)
(* app_glue_periodic serves the lists; commands of the applications create *)
(* sockets, attach them to connections and close them at any moment in     *)
(* between.                                                                *)
(*                                                                         *)
(* Everything runs in one thread, so a step is one callback, one command   *)
(* or one iteration of a loop over a list.  A struct socket lives in a     *)
(* slot of socket_cache, a FIFO pool: a freed slot keeps its contents      *)
(* until it is handed out again and zeroed.  When that happens to a slot   *)
(* to which the service still has a pointer, or when the service uses the  *)
(* sk of a freed socket whose last reference is gone, what follows is      *)
(* undefined (the memory may be another connection's) and the model stops  *)
(* (fault).                                                                *)
(*                                                                         *)
(* What the sockets receive and send is left to RxPath and TxPath; neither *)
(* they nor this module have the flush of both rings of a connection that  *)
(* is reset (user_flush_rx_tx).                                            *)
(*                                                                         *)
(* Operators whose comment starts with "Mutant" are plausible wrong        *)
(* versions of the definition that follows them; the specification does    *)
(* not use them.                                                           *)
(***************************************************************************)
EXTENDS Integers, Sequences, FiniteSets

CONSTANTS
  Conns,      \* connection indices
  NSlots,     \* size of socket_cache
  MaxPending  \* bound: connections in the accept queue of the listener

ASSUME AppGlueAssumption == NSlots \in Nat \ {0} /\ MaxPending \in Nat

NONE == "none"
NULL == 0  \* no slot
Slots == 1 .. NSlots
Names == {"read", "write", "accept", "closed"}
Counted == {"read", "write"}

VARIABLES
  pool,      \* free slots of socket_cache, in order
  state,     \* of the socket in each slot; what a freed slot last held is user
  user,      \* sk_user_data: the connection
  child,     \* sockets that come from kernel_accept
  noSpace,   \* SOCK_NOSPACE
  refs,      \* reference count of the socket's sk
  present,   \* the *_queue_present flags of each socket
  lists,     \* the four lists
  len,       \* read_sockets_queue_len and write_sockets_queue_len
  pending,   \* established connections in the listener's accept queue
  table,     \* socket_satelite_data[].socket
  selector,  \* socket_satelite_data[].parent_idx # -1
  handed,    \* accepted sockets on their way to an application
  reported,  \* connections with a closed event since they were attached
  lost,      \* connections whose closed event found ready_connections full
  fatal,     \* slots freed because of their closed list entry
  phase,     \* where app_glue_periodic is
  limit,     \* iterations its loop has left
  fault      \* "none"; "exit": the service called exit; "stale": see above

glue == <<refs, present, lists, len>>
apps == <<table, selector, handed, reported, lost>>
vars == <<pool, state, user, child, noSpace, glue, pending, apps, fatal, phase, limit, fault>>

In(s, seq) == \E i \in DOMAIN seq : seq[i] = s
Listed(s) == {n \in Names : In(s, lists[n])}
Attached(s) == \E c \in Conns : table[c] = s
Referenced(s) == Listed(s) # {} \/ Attached(s) \/ s \in handed

\* The socket is closed and nothing holds its sk: sock->sk, which is never
\* cleared, points to freed memory.
SkFreed(s) == state[s] = "freed" /\ refs[s] = 0

Init ==
  /\ pool = [i \in 1 .. NSlots |-> i]
  /\ state = [s \in Slots |-> "freed"]
  /\ user = [s \in Slots |-> NONE]
  /\ child = {} /\ noSpace = {}
  /\ refs = [s \in Slots |-> 0]
  /\ present = [s \in Slots |-> {}]
  /\ lists = [n \in Names |-> <<>>]
  /\ len = [n \in Counted |-> 0]
  /\ pending = 0
  /\ table = [c \in Conns |-> NULL]
  /\ selector = [c \in Conns |-> FALSE]
  /\ handed = {} /\ reported = {} /\ lost = {} /\ fatal = {}
  /\ phase = "idle" /\ limit = 0
  /\ fault = "none"

Idle == fault = "none" /\ phase = "idle"

---------------------------------------------------------------------------
(* The callbacks.                                                          *)

\* Mutant: without sock_hold.
EnlistUnheld(entries) ==
  LET new == {e \in entries : e[1] \notin present[e[2]]} IN
    /\ present' = [s \in Slots |-> present[s] \cup {e[1] : e \in {f \in new : f[2] = s}}]
    /\ lists' = [n \in Names |-> lists[n] \o
                   (IF \E s \in Slots : <<n, s>> \in new
                    THEN <<CHOOSE s \in Slots : <<n, s>> \in new>> ELSE <<>>)]
    /\ refs' = refs
    /\ len' = [n \in Counted |-> len[n] + Cardinality({e \in new : e[1] = n})]

\* Mutant: read_sockets_queue_len and write_sockets_queue_len are forgotten.
EnlistUncounted(entries) ==
  LET new == {e \in entries : e[1] \notin present[e[2]]} IN
    /\ present' = [s \in Slots |-> present[s] \cup {e[1] : e \in {f \in new : f[2] = s}}]
    /\ lists' = [n \in Names |-> lists[n] \o
                   (IF \E s \in Slots : <<n, s>> \in new
                    THEN <<CHOOSE s \in Slots : <<n, s>> \in new>> ELSE <<>>)]
    /\ refs' = [s \in Slots |-> refs[s] + Cardinality({e \in new : e[2] = s})]
    /\ len' = len

\* Entries <<list, slot>> of different lists are made, unless the socket's flag
\* says it is in the list already.
Enlist(entries) ==
  LET new == {e \in entries : e[1] \notin present[e[2]]} IN
    /\ present' = [s \in Slots |-> present[s] \cup {e[1] : e \in {f \in new : f[2] = s}}]
    /\ lists' = [n \in Names |-> lists[n] \o
                   (IF \E s \in Slots : <<n, s>> \in new
                    THEN <<CHOOSE s \in Slots : <<n, s>> \in new>> ELSE <<>>)]
    /\ refs' = [s \in Slots |-> refs[s] + Cardinality({e \in new : e[2] = s})]
    /\ len' = [n \in Counted |-> len[n] + Cardinality({e \in new : e[1] = n})]

\* The sockets of an instance that accept share one port: one listens at a time.
Listeners == {s \in Slots : state[s] = "listen"}

\* app_glue_sock_wakeup, the state change callback, of a socket that is not
\* established: __inet_lookup_listener finds the listener of an accepted socket
\* and puts the listener into the accept list.  (The reference the lookup takes
\* is never put; it is not counted here.)
Wakeup(s) == IF s \in child THEN {"accept"} \X Listeners ELSE {}

\* app_glue_sock_readable
SockReadable(s) ==
  /\ Idle
  /\ state[s] \in {"est", "dgram"}
  /\ Enlist({<<"read", s>>})
  /\ fault' = IF "read" \in present[s] /\ len["read"] = 0 THEN "exit" ELSE fault
  /\ UNCHANGED <<pool, state, user, child, noSpace, pending, apps, fatal, phase, limit>>

\* app_glue_sock_write_space; the stack calls it for a stream socket with
\* SOCK_NOSPACE and for every buffer of a datagram socket that was sent.
SockWriteSpace(s) ==
  /\ Idle
  /\ state[s] = "dgram" \/ (state[s] = "est" /\ s \in noSpace)
  /\ Enlist({<<"write", s>>})
  /\ noSpace' = noSpace \ {s}
  /\ UNCHANGED <<pool, state, user, child, pending, apps, fatal, phase, limit, fault>>

\* SYN/ACK: the state change callback finds no listener and reports write space.
Established(s) ==
  /\ Idle
  /\ state[s] = "syn"
  /\ state' = [state EXCEPT ![s] = "est"]
  /\ Enlist({<<"write", s>>})
  /\ UNCHANGED <<pool, user, child, noSpace, pending, apps, fatal, phase, limit, fault>>

\* The connection is refused or times out: error_report is still the stack's own.
Refused(s) ==
  /\ Idle
  /\ state[s] = "syn"
  /\ state' = [state EXCEPT ![s] = "refused"]
  /\ UNCHANGED <<pool, user, child, noSpace, glue, pending, apps, fatal, phase, limit, fault>>

\* A connection is established with the listener.
NewConnection(l) ==
  /\ Idle
  /\ l \in Listeners
  /\ pending < MaxPending
  /\ pending' = pending + 1
  /\ Enlist({<<"accept", l>>})
  /\ UNCHANGED <<pool, state, user, child, noSpace, apps, fatal, phase, limit, fault>>

\* tcp_fin: the socket is not ESTABLISHED any more when its callbacks are called.
PeerCloses(s) ==
  /\ Idle
  /\ state[s] = "est"
  /\ state' = [state EXCEPT ![s] = "fin"]
  /\ Enlist(Wakeup(s))
  /\ UNCHANGED <<pool, user, child, noSpace, pending, apps, fatal, phase, limit, fault>>

\* Mutant: app_glue_sock_error_report looks at sk_state as the others do.
ResetEstablishedOnly(s) ==
  /\ Idle
  /\ state[s] \in {"est", "fin"}
  /\ state' = [state EXCEPT ![s] = "reset"]
  /\ Enlist(Wakeup(s) \cup (IF state[s] = "est" THEN {<<"closed", s>>} ELSE {}))
  /\ UNCHANGED <<pool, user, child, noSpace, pending, apps, fatal, phase, limit, fault>>

\* tcp_reset: app_glue_sock_error_report, then the state change.
Reset(s) ==
  /\ Idle
  /\ state[s] \in {"est", "fin"}
  /\ state' = [state EXCEPT ![s] = "reset"]
  /\ Enlist({<<"closed", s>>} \cup Wakeup(s))
  /\ UNCHANGED <<pool, user, child, noSpace, pending, apps, fatal, phase, limit, fault>>

---------------------------------------------------------------------------
(* The slots.                                                              *)

\* Undefined from here on.
StaleIf(bad) == fault' = IF bad THEN "stale" ELSE fault

\* sock_alloc zeroes the slots it hands out; pointers to them dangle.
Dangles(taken) == \E s \in taken : Referenced(s)

\* The calls of kernel_accept in user_on_accept: each takes a slot, and the last
\* one, which finds no connection, returns the slot it had taken.
Accepts == IF pending <= Len(pool) THEN pending ELSE Len(pool)
Taken == {pool[i] : i \in 1 .. Accepts}
Tried == {pool[i] : i \in DOMAIN pool \cap (1 .. Accepts + 1)}
PoolAfter ==
  LET left == SubSeq(pool, Accepts + 1, Len(pool))
  IN  IF left = <<>> THEN left ELSE Append(Tail(left), Head(left))

\* OPEN: app_glue_create_socket; a datagram socket is writable at once.
Create(c, type, sel) ==
  /\ Idle
  /\ table[c] = NULL
  /\ pool # <<>>
  /\ LET s == Head(pool) IN
       /\ state' = [state EXCEPT ![s] = type]
       /\ user' = [user EXCEPT ![s] = c]
       /\ child' = child \ {s} /\ noSpace' = noSpace \ {s} /\ fatal' = fatal \ {s}
       /\ LET write == type = "dgram" IN
            /\ refs' = [refs EXCEPT ![s] = IF write THEN 2 ELSE 1]
            /\ present' = [present EXCEPT ![s] = IF write THEN {"write"} ELSE {}]
            /\ lists' = IF write THEN [lists EXCEPT !["write"] = Append(@, s)] ELSE lists
            /\ len' = IF write THEN [len EXCEPT !["write"] = @ + 1] ELSE len
       /\ table' = [table EXCEPT ![c] = s]
       /\ StaleIf(Dangles({s}))
  /\ pool' = Tail(pool)
  /\ selector' = [selector EXCEPT ![c] = sel]
  /\ reported' = reported \ {c} /\ lost' = lost \ {c}
  /\ UNCHANGED <<pending, handed, phase, limit>>

Connect(c) ==
  /\ Idle
  /\ table[c] # NULL /\ state[table[c]] = "new"
  /\ state' = [state EXCEPT ![table[c]] = "syn"]
  /\ UNCHANGED <<pool, user, child, noSpace, glue, pending, apps, fatal, phase, limit, fault>>

Listen(c) ==
  /\ Idle
  /\ table[c] # NULL /\ state[table[c]] = "new"
  /\ Listeners = {}
  /\ state' = [state EXCEPT ![table[c]] = "listen"]
  /\ UNCHANGED <<pool, user, child, noSpace, glue, pending, apps, fatal, phase, limit, fault>>

\* SET_SOCKET_RING: the socket may have been reset on its way.
SetSocketRing(c, s) ==
  /\ Idle
  /\ s \in handed /\ table[c] = NULL
  /\ table' = [table EXCEPT ![c] = s]
  /\ user' = [user EXCEPT ![s] = c]
  /\ handed' = handed \ {s}
  /\ reported' = reported \ {c} /\ lost' = lost \ {c}
  /\ StaleIf(SkFreed(s))
  /\ UNCHANGED <<pool, state, child, noSpace, glue, pending, selector, fatal, phase, limit>>

\* SET_SOCKET_SELECT; on a listener it ends the service (ControlPlane).
SetSocketSelect(c) ==
  /\ Idle
  /\ table[c] # NULL /\ state[table[c]] # "listen"
  /\ selector' = [selector EXCEPT ![c] = TRUE]
  /\ StaleIf(SkFreed(table[c]))
  /\ UNCHANGED <<pool, state, user, child, noSpace, glue, pending, table, handed, reported,
                 lost, fatal, phase, limit>>

\* RX_KICK and TX_KICK: the socket receives or sends, and a send that finds no
\* memory sets SOCK_NOSPACE.
Kick(c) ==
  /\ Idle
  /\ table[c] # NULL
  /\ noSpace' \in {noSpace, noSpace \cup {table[c]}}
  /\ StaleIf(SkFreed(table[c]))
  /\ UNCHANGED <<pool, state, user, child, glue, pending, apps, fatal, phase, limit>>

\* TAILQ_REMOVE
Unlink(seq, s) ==
  LET i == CHOOSE i \in DOMAIN seq : seq[i] = s
  IN  [j \in 1 .. Len(seq) - 1 |-> IF j < i THEN seq[j] ELSE seq[j + 1]]

\* The rest of app_glue_close_socket: connections waiting on a listener in the
\* accept list are accepted, each in a slot that is given back, and closed.
\* kernel_close puts a reference of the sk and frees the slot.  A socket the
\* closed list has closed before is closed once more, nothing in the code looks:
\* its slot is not freed again, as sock_orphan has cleared sk_socket, but tcp_close
\* puts another reference, and if there is none left it works on a freed sk.
KernelClose(s) ==
  /\ user' = [user EXCEPT ![s] = NONE]
  /\ child' = child \ {s} /\ noSpace' = noSpace \ {s}
  /\ pending' = IF state[s] = "listen" THEN 0 ELSE pending
  /\ LET tried == IF "accept" \in present[s]
                  THEN DOMAIN pool \cap (1 .. pending + 1) ELSE {}
         freed == IF state[s] = "freed" THEN <<>> ELSE <<s>>
     IN  /\ StaleIf(SkFreed(s) \/ Dangles({pool[i] : i \in tried}))
         /\ pool' = SubSeq(pool, Cardinality(tried) + 1, Len(pool))
                      \o SubSeq(pool, 1, Cardinality(tried)) \o freed
  /\ refs' = [refs EXCEPT ![s] = @ - 1]
  /\ state' = [state EXCEPT ![s] = "freed"]

\* Mutant: a socket that was reset is left in the closed list.
CloseSocketKeepsClosed(s) ==
  /\ lists' = [n \in Names |-> IF n \in present[s] \ {"closed"}
                               THEN Unlink(lists[n], s) ELSE lists[n]]
  /\ len' = [n \in Counted |-> len[n] - (IF n \in present[s] THEN 1 ELSE 0)]
  /\ present' = [present EXCEPT ![s] = @ \cap {"closed"}]
  /\ KernelClose(s)

\* Mutant: a writable socket is left in its list with its flag cleared.
CloseSocketKeepsWrite(s) ==
  /\ lists' = [n \in Names |-> IF n \in present[s] \ {"write"}
                               THEN Unlink(lists[n], s) ELSE lists[n]]
  /\ len' = [n \in Counted |-> len[n] - (IF n \in present[s] THEN 1 ELSE 0)]
  /\ present' = [present EXCEPT ![s] = {}]
  /\ KernelClose(s)

\* app_glue_close_socket: the socket leaves the lists its flags name, without
\* the sock_put of their sock_hold, and is closed.
CloseSocket(s) ==
  /\ lists' = [n \in Names |-> IF n \in present[s]
                               THEN Unlink(lists[n], s) ELSE lists[n]]
  /\ len' = [n \in Counted |-> len[n] - (IF n \in present[s] THEN 1 ELSE 0)]
  /\ present' = [present EXCEPT ![s] = {}]
  /\ KernelClose(s)

\* CLOSE: also of a connection whose socket the closed list has freed.
ExecClose(c) ==
  /\ Idle
  /\ table[c] # NULL
  /\ CloseSocket(table[c])
  /\ table' = [table EXCEPT ![c] = NULL]
  /\ selector' = [selector EXCEPT ![c] = FALSE]
  /\ UNCHANGED <<handed, reported, lost, fatal, phase, limit>>

\* DECLINE
ExecDecline(s) ==
  /\ Idle
  /\ s \in handed
  /\ CloseSocket(s)
  /\ handed' = handed \ {s}
  /\ UNCHANGED <<table, selector, reported, lost, fatal, phase, limit>>

---------------------------------------------------------------------------
(* app_glue_periodic                                                       *)

StartRx ==
  /\ Idle
  /\ phase' = "closed"
  /\ UNCHANGED <<pool, state, user, child, noSpace, glue, pending, apps, fatal, limit, fault>>

StartTx ==
  /\ Idle
  /\ phase' = "write" /\ limit' = len["write"]
  /\ UNCHANGED <<pool, state, user, child, noSpace, glue, pending, apps, fatal, fault>>

\* The loop over a list ends and the next one begins.
Loops(n) == phase = n /\ lists[n] # <<>> /\ (n \in Counted => limit > 0)
NextList ==
  /\ fault = "none" /\ phase # "idle"
  /\ ~Loops(phase)
  /\ phase' = CASE phase = "closed" -> "accept" [] phase = "accept" -> "read"
                [] OTHER -> "idle"
  /\ limit' = IF phase = "accept" THEN len["read"] ELSE 0
  /\ UNCHANGED <<pool, state, user, child, noSpace, glue, pending, apps, fatal, fault>>

\* The first socket of a list is taken out, served and put; the callback of a
\* readable socket may read from its receive queue, which puts it back.
Serve(n, again) ==
  LET s == Head(lists[n]) IN
    /\ lists' = [lists EXCEPT ![n] = IF again THEN Append(Tail(@), s) ELSE Tail(@)]
    /\ present' = [present EXCEPT ![s] = IF again THEN @ ELSE @ \ {n}]

\* A socket that was reset: its connection is told, if it has a selector whose
\* ready_connections has room (user_on_closure ignores that it has none), and the
\* socket closed, whatever other list it is in.
ProcessClosed ==
  /\ fault = "none" /\ Loops("closed")
  /\ LET s == Head(lists["closed"]) IN
       /\ LET told == {c \in {user[s]} \ {NONE} : selector[c]} IN
            \E room \in BOOLEAN :
              /\ reported' = IF room THEN reported \cup told ELSE reported
              /\ lost' = IF room THEN lost ELSE lost \cup told
       /\ Serve("closed", FALSE)
       /\ refs' = [refs EXCEPT ![s] = @ - 2]
       /\ state' = [state EXCEPT ![s] = "freed"]
       /\ fatal' = fatal \cup {s}
       /\ pool' = Append(pool, s)
  /\ UNCHANGED <<user, child, noSpace, len, pending, table, selector, handed, phase, limit,
                 fault>>

\* user_on_accept takes what is pending as long as there are slots.
ProcessAccept ==
  /\ fault = "none" /\ Loops("accept")
  /\ Serve("accept", FALSE)
  /\ pool' = PoolAfter
  /\ pending' = pending - Accepts
  /\ state' = [s \in Slots |-> IF s \in Taken THEN "est" ELSE state[s]]
  /\ user' = [s \in Slots |-> IF s \in Taken THEN NONE ELSE user[s]]
  /\ refs' = [s \in Slots |-> IF s \in Taken THEN 1
                              ELSE refs[s] - (IF s = Head(lists["accept"]) THEN 1 ELSE 0)]
  /\ child' = child \cup Taken
  /\ noSpace' = noSpace \ Taken /\ fatal' = fatal \ Taken
  /\ handed' = handed \cup Taken
  /\ StaleIf(Dangles(Tried))
  /\ UNCHANGED <<len, table, selector, reported, lost, phase, limit>>

ProcessRead ==
  /\ fault = "none" /\ Loops("read")
  /\ LET s == Head(lists["read"]) IN
       \E again \in IF state[s] \in {"est", "dgram"} THEN BOOLEAN ELSE {FALSE} :
         /\ Serve("read", again)
         /\ refs' = [refs EXCEPT ![s] = IF again THEN @ ELSE @ - 1]
         /\ len' = [len EXCEPT !["read"] = IF again THEN @ ELSE @ - 1]
  /\ limit' = limit - 1
  /\ UNCHANGED <<pool, state, user, child, noSpace, pending, apps, fatal, phase, fault>>

\* process_tx_ready_sockets
ProcessWrite ==
  /\ fault = "none" /\ Loops("write")
  /\ LET s == Head(lists["write"]) IN
       /\ Serve("write", FALSE)
       /\ refs' = [refs EXCEPT ![s] = @ - 1]
       /\ noSpace' = noSpace \cup {s}
  /\ len' = [len EXCEPT !["write"] = @ - 1]
  /\ limit' = limit - 1
  /\ UNCHANGED <<pool, state, user, child, pending, apps, fatal, phase, fault>>

Periodic == ProcessClosed \/ ProcessAccept \/ ProcessRead \/ ProcessWrite \/ NextList

Callback ==
  \E s \in Slots : \/ SockReadable(s) \/ SockWriteSpace(s) \/ Established(s) \/ Refused(s)
                   \/ NewConnection(s) \/ PeerCloses(s) \/ Reset(s)

Command ==
  \/ \E c \in Conns : \/ \E type \in {"new", "dgram"}, sel \in BOOLEAN : Create(c, type, sel)
                      \/ Connect(c) \/ Listen(c) \/ SetSocketSelect(c) \/ Kick(c)
                      \/ ExecClose(c)
                      \/ \E s \in Slots : SetSocketRing(c, s)
  \/ \E s \in Slots : ExecDecline(s)

Next == Callback \/ Command \/ StartRx \/ StartTx \/ Periodic

Spec == Init /\ [][Next]_vars

\* The main loop calls app_glue_periodic again and again, which serves both kinds
\* of lists at their intervals.
FairSpec == Spec /\ WF_vars(Periodic) /\ SF_vars(StartRx) /\ SF_vars(StartTx)

---------------------------------------------------------------------------
(* Properties.                                                             *)

\* Type invariant.
TypeOK ==
  /\ pool \in Seq(Slots)
  /\ state \in [Slots -> {"new", "dgram", "syn", "listen", "est", "fin", "reset", "refused",
                          "freed"}]
  /\ user \in [Slots -> Conns \cup {NONE}]
  /\ child \subseteq Slots /\ noSpace \subseteq Slots /\ fatal \subseteq Slots
  /\ refs \in [Slots -> Int] /\ present \in [Slots -> SUBSET Names]
  /\ lists \in [Names -> Seq(Slots)] /\ len \in [Counted -> Nat]
  /\ pending \in 0 .. MaxPending
  /\ table \in [Conns -> Slots \cup {NULL}] /\ selector \in [Conns -> BOOLEAN]
  /\ handed \subseteq Slots /\ reported \subseteq Conns /\ lost \subseteq Conns
  /\ phase \in {"idle", "closed", "accept", "read", "write"} /\ limit \in Nat
  /\ fault \in {"none", "exit", "stale"}

\* Whatever the stack, the applications and the loops do, a socket is in a list
\* exactly once if its flag says so and not at all otherwise, and the two lengths
\* are those of the lists: app_glue_sock_readable never finds a socket marked
\* with an empty list, upon which it ends the service.
ListsConsistent ==
  /\ fault # "exit"
  /\ fault = "none" =>
       /\ \A n \in Names, s \in Slots :
            Cardinality({i \in DOMAIN lists[n] : lists[n][i] = s})
              = IF n \in present[s] THEN 1 ELSE 0
       /\ \A n \in Counted : len[n] = Len(lists[n])

\* As long as nothing undefined has happened, the sk of a socket is held once for
\* each list the socket is in and once more until the socket is closed: neither the
\* sock_put of a loop nor the second close of a socket that was reset takes a
\* reference another list still needs, and the count never falls below zero.
HeldWhileListed ==
  fault = "none" =>
    \A s \in Slots :
      refs[s] >= Cardinality(Listed(s)) + (IF state[s] = "freed" THEN 0 ELSE 1)

\* Only the closed list leaves pointers to a freed socket behind.  In every other
\* case a socket that is listed, attached to a connection or on its way to an
\* application is allocated, attached at most once, and leads back to its
\* connection.  (As long as nothing undefined has happened; see StaleOnlyByReset.)
DanglingOnlyByReset ==
  fault = "none" =>
    /\ \A s \in Slots : Referenced(s) /\ s \notin fatal => state[s] # "freed" /\ ~In(s, pool)
    /\ \A c \in Conns : table[c] # NULL => user[table[c]] = c
    /\ \A c, d \in Conns : table[c] = table[d] /\ table[c] # NULL => c = d

\* The first undefined step (a slot handed out, a close, a kick, a SET_SOCKET_RING or
\* a SET_SOCKET_SELECT that finds a pointer to a freed socket or a freed sk) needs a
\* slot that the closed list has freed under its connection: without a reset there
\* is none, and what a reset does to the next user of the memory starts there.
StaleOnlyByReset == [][fault' = "stale" => \E s \in fatal : Referenced(s)]_vars

\* A connection with a selector whose socket is reset is told so, or closed by its
\* application before; or the one closed event it gets was dropped because
\* ready_connections was full.
ResetIsReported ==
  \A c \in Conns :
    (table[c] # NULL /\ selector[c] /\ state[table[c]] = "reset")
      ~> (c \in reported \cup lost \/ table[c] = NULL \/ fault # "none")
===========================================================================
