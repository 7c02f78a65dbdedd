------------------------ MODULE ControlPlaneProofs ------------------------
(* Proofs about ControlPlane, for any number of applications, command      *)
(* buffers, connections and sockets.                                       *)
EXTENDS ControlPlane, TLAPS

---------------------------------------------------------------------------
(* Facts about the sequences that stand for rings.                         *)

\* Dequeuing from a non-empty ring.
LEMMA DequeueFacts ==
  ASSUME NEW S, NEW q \in Seq(S), q # <<>>
  PROVE  /\ Head(q) \in S /\ Head(q) = q[1] /\ 1 \in DOMAIN q
         /\ Tail(q) \in Seq(S)
         /\ DOMAIN Tail(q) = 1 .. Len(q) - 1
         /\ \A i \in DOMAIN Tail(q) : i + 1 \in DOMAIN q /\ Tail(q)[i] = q[i + 1]
         /\ \A i \in DOMAIN q : i = 1 \/ (i - 1 \in DOMAIN Tail(q) /\ Tail(q)[i - 1] = q[i])
  OBVIOUS

\* Enqueuing into a ring.
LEMMA EnqueueFacts ==
  ASSUME NEW S, NEW q \in Seq(S), NEW e \in S
  PROVE  /\ Append(q, e) \in Seq(S)
         /\ DOMAIN Append(q, e) = 1 .. Len(q) + 1
         /\ DOMAIN q = 1 .. Len(q)
         /\ Append(q, e)[Len(q) + 1] = e
         /\ \A i \in DOMAIN q : Append(q, e)[i] = q[i]
  OBVIOUS

---------------------------------------------------------------------------
(* Type correctness.                                                       *)

\* Commands are well typed.
LEMMA CommandFacts ==
  /\ \A op \in Ops, c \in Conns \cup {NULL}, s \in Socks \cup {NULL} :
       Command(op, c, s) \in Cmds
  /\ Blank \in Cmds /\ Blank.op = "NONE"
  /\ \A k \in Cmds : k.conn \in Conns \cup {NULL} /\ k.sock \in Socks \cup {NULL}
  BY DEF Cmds, Command, Blank, Ops

\* NULL is none of the things it stands in for.
LEMMA NullFacts == NULL \notin Bufs /\ NULL \notin Socks /\ NULL \notin Conns
  BY ControlPlaneAssumption DEF Conns

\* The strengthening that makes the type invariant inductive.  What an
\* application holds fits the step it is at (every enqueue needs a buffer), and
\* a CLOSE command names a connection (the service puts it into the free ring).
HoldsAt ==
  \A a \in Apps :
    /\ (buf[a] # NULL) <=> at[a] \in {"open.enq", "accept.conn", "accept.enq",
                              "decline.enq", "ctl.enq", "close.enq", "disc.enq"}
    /\ (idx[a] # NULL) <=> at[a] \in {"open.cmd", "open.enq", "accept.enq",
                              "ctl.enq", "close.enq", "close.flush"}

CloseIsNamed == \A b \in Bufs : cmd[b].op = "CLOSE" => cmd[b].conn \in Conns

TypeInv ==
  PoolTypes /\ CloseIsNamed /\ ServiceTypes /\ CallTypes /\ HoldsAt /\ DescriptorTypes

\* Goto and Return change one application's step and what it holds.
LEMMA GotoTypes ==
  ASSUME CallTypes, NEW a \in Apps, NEW s \in Steps, NEW b \in Bufs \cup {NULL},
         NEW c \in Conns \cup {NULL}, Goto(a, s, b, c)
  PROVE  CallTypes' /\ at'[a] = s /\ buf'[a] = b /\ idx'[a] = c
         /\ \A d \in Apps \ {a} : at'[d] = at[d] /\ buf'[d] = buf[d] /\ idx'[d] = idx[d]
  BY DEF CallTypes, Goto

\* Writing a command into a buffer.
LEMMA WriteTypes ==
  ASSUME PoolTypes, CloseIsNamed, NEW b \in Bufs, NEW k \in Cmds,
         k.op = "CLOSE" => k.conn \in Conns, cmd' = [cmd EXCEPT ![b] = k]
  PROVE  cmd' \in [Bufs -> Cmds] /\ CloseIsNamed'
  BY DEF PoolTypes, CloseIsNamed

\* Sending a command, whether the ring has room or not.
LEMMA EnqueueTypes ==
  ASSUME PoolTypes, CloseIsNamed, NEW b \in Bufs, NEW k \in Cmds,
         k.op = "CLOSE" => k.conn \in Conns,
         EnqueueCommandBuf(b, k) \/ EnqueueFailsAndFree(b),
         UNCHANGED <<freeConns, rxRing>>
  PROVE  PoolTypes' /\ CloseIsNamed'
  <1>1. cmdRing' \in Seq(Bufs)
    <2>1. CASE EnqueueCommandBuf(b, k)
      <3>1. cmdRing \in Seq(Bufs)
        BY DEF PoolTypes
      <3>2. cmdRing' = Append(cmdRing, b)
        BY <2>1 DEF EnqueueCommandBuf
      <3> QED BY <3>1, <3>2, EnqueueFacts
    <2>2. CASE EnqueueFailsAndFree(b)
      BY <2>2 DEF EnqueueFailsAndFree, PoolTypes
    <2> QED BY <2>1, <2>2
  <1>2. freeCmds' \in SUBSET Bufs
    BY DEF EnqueueCommandBuf, EnqueueFailsAndFree, PoolTypes
  <1>3. cmd' \in [Bufs -> Cmds] /\ CloseIsNamed'
    BY CommandFacts, WriteTypes DEF EnqueueCommandBuf, EnqueueFailsAndFree
  <1> QED
    BY <1>1, <1>2, <1>3 DEF EnqueueCommandBuf, EnqueueFailsAndFree, PoolTypes

\* Flushing an rx_ring.
LEMMA FlushTypes ==
  ASSUME PoolTypes, NEW c \in Conns, FlushRx(c)
  PROVE  /\ rxRing' \in [Conns -> Seq(Bufs)]
         /\ lost' \in [Bufs -> {"no", "rxkick", "flushed", "died"}]
  BY DEF PoolTypes, FlushRx

\* The service frees the buffer of the command it executed, or goes down.
LEMMA ServiceTypesStep ==
  ASSUME PoolTypes, CloseIsNamed, svcCmd \in Bufs, up \in BOOLEAN,
         FreeCommandBuf \/ ServiceDown
  PROVE  /\ freeCmds' \in SUBSET Bufs
         /\ cmd' \in [Bufs -> Cmds] /\ CloseIsNamed'
         /\ svcCmd' \in Bufs \cup {NULL} /\ up' \in BOOLEAN
  <1>1. CASE FreeCommandBuf
    <2>1. cmd' \in [Bufs -> Cmds] /\ CloseIsNamed'
      BY <1>1, CommandFacts, WriteTypes DEF FreeCommandBuf
    <2> QED BY <1>1, <2>1 DEF FreeCommandBuf, PoolTypes
  <1>2. CASE ServiceDown
    BY <1>2 DEF ServiceDown, PoolTypes, CloseIsNamed
  <1> QED BY <1>1, <1>2

\* The initial state is well typed.
LEMMA InitTypes == Init => TypeInv
  <1> SUFFICES ASSUME Init PROVE TypeInv
    OBVIOUS
  <1>1. freeConns \in Seq(Conns)
    BY ControlPlaneAssumption DEF Init, Conns
  <1>2. PoolTypes /\ CloseIsNamed
    BY <1>1, CommandFacts DEF Init, PoolTypes, CloseIsNamed, Blank, Command
  <1>3. ServiceTypes /\ CallTypes /\ HoldsAt /\ DescriptorTypes
    BY DEF Init, ServiceTypes, CallTypes, HoldsAt, DescriptorTypes, SockStates, Steps
  <1> QED BY <1>2, <1>3 DEF TypeInv

\* Every step of an application keeps the types.
LEMMA AppStepTypes ==
  ASSUME TypeInv, NEW a \in Apps, AppStep(a)
  PROVE  TypeInv'
  <1> USE DEF TypeInv
  <1>1. CASE OpenTakeConnection(a)
    <2>d. freeConns \in Seq(Conns) /\ freeConns # <<>>
      BY <1>1 DEF OpenTakeConnection, PoolTypes
    <2>e. Head(freeConns) \in Conns /\ Tail(freeConns) \in Seq(Conns)
      BY <2>d, DequeueFacts
    <2>1. PoolTypes' /\ CloseIsNamed'
      BY <1>1, <2>e DEF OpenTakeConnection, PoolTypes, CloseIsNamed
    <2>2. ServiceTypes'
      BY <1>1 DEF OpenTakeConnection, ServiceTypes
    <2>3. CallTypes' /\ HoldsAt'
      BY <1>1, <2>e, NullFacts, GotoTypes DEF OpenTakeConnection, Return, HoldsAt, Steps
    <2>4. DescriptorTypes'
      BY <1>1, <2>e DEF OpenTakeConnection, DescriptorTypes
    <2> QED BY <2>1, <2>2, <2>3, <2>4
  <1>2. CASE OpenTakeCommand(a)
    <2>0. idx[a] \in Conns
      BY <1>2 DEF OpenTakeCommand, HoldsAt, CallTypes
    <2>1. PoolTypes' /\ CloseIsNamed'
      BY <1>2 DEF OpenTakeCommand, GetFreeCommandBuf, PoolTypes, CloseIsNamed
    <2>2. ServiceTypes'
      BY <1>2 DEF OpenTakeCommand, ServiceTypes
    <2>3. CallTypes' /\ HoldsAt'
      BY <1>2, <2>0, NullFacts, GotoTypes DEF OpenTakeCommand, Return, HoldsAt, Steps
    <2>4. DescriptorTypes'
      BY <1>2, <2>0 DEF OpenTakeCommand, DescriptorTypes
    <2> QED BY <2>1, <2>2, <2>3, <2>4
  <1>3. CASE OpenEnqueue(a)
    <2>0. buf[a] \in Bufs /\ idx[a] \in Conns
      BY <1>3 DEF OpenEnqueue, HoldsAt, CallTypes
    <2>k. /\ Command("OPEN", idx[a], NULL) \in Cmds
          /\ Command("OPEN", idx[a], NULL).op = "CLOSE" => Command("OPEN", idx[a], NULL).conn \in Conns
      BY <2>0, CommandFacts DEF PoolTypes, Ops, Command
    <2>1. PoolTypes' /\ CloseIsNamed'
      BY <1>3, <2>0, <2>k, EnqueueTypes DEF OpenEnqueue
    <2>2. ServiceTypes'
      BY <1>3 DEF OpenEnqueue, ServiceTypes
    <2>3. CallTypes' /\ HoldsAt'
      BY <1>3, <2>0, NullFacts, GotoTypes DEF OpenEnqueue, Return, HoldsAt, Steps
    <2>4. DescriptorTypes'
      BY <1>3, <2>0 DEF OpenEnqueue, DescriptorTypes
    <2> QED BY <2>1, <2>2, <2>3, <2>4
  <1>4. CASE CtlTakeCommand(a)
    <2>p. PICK c \in owned[a], b \in Bufs, op \in CtlOps :
             /\ GetFreeCommandBuf(b)
             /\ cmd' = [cmd EXCEPT ![b] = Command(op, c, NULL)]
             /\ Goto(a, "ctl.enq", b, c)
      BY <1>4 DEF CtlTakeCommand
    <2>c. c \in Conns
      BY DEF DescriptorTypes
    <2>k. Command(op, c, NULL) \in Cmds /\ Command(op, c, NULL).op # "CLOSE"
      BY <2>c, CommandFacts, ControlPlaneAssumption DEF Ops, Command
    <2>w. cmd' \in [Bufs -> Cmds] /\ CloseIsNamed'
      BY <2>p, <2>k, WriteTypes
    <2>1. PoolTypes' /\ CloseIsNamed'
      BY <1>4, <2>p, <2>w DEF CtlTakeCommand, GetFreeCommandBuf, PoolTypes
    <2>2. ServiceTypes'
      BY <1>4 DEF CtlTakeCommand, ServiceTypes
    <2>3. CallTypes' /\ HoldsAt'
      BY <1>4, <2>p, <2>c, NullFacts, GotoTypes DEF CtlTakeCommand, Return, HoldsAt, Steps
    <2>4. DescriptorTypes'
      BY <1>4, <2>p, <2>c DEF CtlTakeCommand, DescriptorTypes
    <2> QED BY <2>1, <2>2, <2>3, <2>4
  <1>5. CASE CtlEnqueue(a)
    <2>0. buf[a] \in Bufs /\ idx[a] \in Conns
      BY <1>5 DEF CtlEnqueue, HoldsAt, CallTypes
    <2>k. cmd[buf[a]] \in Cmds /\ (cmd[buf[a]].op = "CLOSE" => cmd[buf[a]].conn \in Conns)
      BY <2>0 DEF PoolTypes, CloseIsNamed
    <2>1. PoolTypes' /\ CloseIsNamed'
      <3>1. CASE EnqueueCommandBuf(buf[a], cmd[buf[a]]) \/ EnqueueFailsAndFree(buf[a])
        BY <1>5, <2>0, <2>k, <3>1, EnqueueTypes DEF CtlEnqueue
      <3>2. CASE /\ lost' = [lost EXCEPT ![buf[a]] = "rxkick"]
                 /\ cmd' = [cmd EXCEPT ![buf[a]] = Blank]
                 /\ UNCHANGED <<freeCmds, cmdRing>>
        <4>1. cmd' \in [Bufs -> Cmds] /\ CloseIsNamed'
          BY <2>0, <3>2, CommandFacts, WriteTypes
        <4> QED BY <1>5, <4>1, <3>2 DEF CtlEnqueue, PoolTypes
      <3> QED BY <1>5, <3>1, <3>2 DEF CtlEnqueue
    <2>2. ServiceTypes'
      BY <1>5 DEF CtlEnqueue, ServiceTypes
    <2>3. CallTypes' /\ HoldsAt'
      BY <1>5, <2>0, NullFacts, GotoTypes DEF CtlEnqueue, Return, HoldsAt, Steps
    <2>4. DescriptorTypes'
      BY <1>5, <2>0 DEF CtlEnqueue, DescriptorTypes
    <2> QED BY <2>1, <2>2, <2>3, <2>4
  <1>6. CASE AcceptDequeue(a)
    <2>p. PICK c \in listens[a] : /\ rxRing[c] # <<>>
                                 /\ rxRing' = [rxRing EXCEPT ![c] = Tail(@)]
                                 /\ Goto(a, "accept.conn", Head(rxRing[c]), NULL)
      BY <1>6 DEF AcceptDequeue
    <2>d. c \in Conns /\ rxRing[c] \in Seq(Bufs)
      BY DEF PoolTypes, DescriptorTypes
    <2>e. Head(rxRing[c]) \in Bufs /\ Tail(rxRing[c]) \in Seq(Bufs)
      BY <2>p, <2>d, DequeueFacts
    <2>1. PoolTypes' /\ CloseIsNamed'
      BY <1>6, <2>p, <2>d, <2>e DEF AcceptDequeue, PoolTypes, CloseIsNamed
    <2>2. ServiceTypes'
      BY <1>6 DEF AcceptDequeue, ServiceTypes
    <2>3. CallTypes' /\ HoldsAt'
      BY <1>6, <2>p, <2>e, NullFacts, GotoTypes DEF AcceptDequeue, Return, HoldsAt, Steps
    <2>4. DescriptorTypes'
      BY <1>6, <2>p, <2>e DEF AcceptDequeue, DescriptorTypes
    <2> QED BY <2>1, <2>2, <2>3, <2>4
  <1>7. CASE AcceptTakeConnection(a)
    <2>0. buf[a] \in Bufs
      BY <1>7 DEF AcceptTakeConnection, HoldsAt, CallTypes
    <2>d. freeConns \in Seq(Conns)
      BY DEF PoolTypes
    <2>e. freeConns # <<>> => Head(freeConns) \in Conns /\ Tail(freeConns) \in Seq(Conns)
      BY <2>d, DequeueFacts
    <2>1. PoolTypes' /\ CloseIsNamed'
      BY <1>7, <2>e DEF AcceptTakeConnection, PoolTypes, CloseIsNamed
    <2>2. ServiceTypes'
      BY <1>7 DEF AcceptTakeConnection, ServiceTypes
    <2>3. CallTypes' /\ HoldsAt'
      BY <1>7, <2>0, <2>e, NullFacts, GotoTypes DEF AcceptTakeConnection, Return, HoldsAt, Steps
    <2>4. DescriptorTypes'
      BY <1>7, <2>0, <2>e DEF AcceptTakeConnection, DescriptorTypes
    <2> QED BY <2>1, <2>2, <2>3, <2>4
  <1>8. CASE AcceptEnqueue(a)
    <2>0. buf[a] \in Bufs /\ idx[a] \in Conns
      BY <1>8 DEF AcceptEnqueue, HoldsAt, CallTypes
    <2>k. /\ Command("SET_RING", idx[a], cmd[buf[a]].sock) \in Cmds
          /\ Command("SET_RING", idx[a], cmd[buf[a]].sock).op = "CLOSE" => Command("SET_RING", idx[a], cmd[buf[a]].sock).conn \in Conns
      BY <2>0, CommandFacts DEF PoolTypes, Ops, Command
    <2>1. PoolTypes' /\ CloseIsNamed'
      BY <1>8, <2>0, <2>k, EnqueueTypes DEF AcceptEnqueue
    <2>2. ServiceTypes'
      BY <1>8 DEF AcceptEnqueue, ServiceTypes
    <2>3. CallTypes' /\ HoldsAt'
      BY <1>8, <2>0, NullFacts, GotoTypes DEF AcceptEnqueue, Return, HoldsAt, Steps
    <2>4. DescriptorTypes'
      BY <1>8, <2>0 DEF AcceptEnqueue, DescriptorTypes
    <2> QED BY <2>1, <2>2, <2>3, <2>4
  <1>9. CASE DeclineEnqueue(a)
    <2>0. buf[a] \in Bufs
      BY <1>9 DEF DeclineEnqueue, HoldsAt, CallTypes
    <2>k. /\ Command("DECLINE", NULL, cmd[buf[a]].sock) \in Cmds
          /\ Command("DECLINE", NULL, cmd[buf[a]].sock).op = "CLOSE" => Command("DECLINE", NULL, cmd[buf[a]].sock).conn \in Conns
      BY <2>0, CommandFacts DEF PoolTypes, Ops, Command
    <2>1. PoolTypes' /\ CloseIsNamed'
      BY <1>9, <2>0, <2>k, EnqueueTypes DEF DeclineEnqueue
    <2>2. ServiceTypes'
      BY <1>9 DEF DeclineEnqueue, ServiceTypes
    <2>3. CallTypes' /\ HoldsAt'
      BY <1>9, <2>0, NullFacts, GotoTypes DEF DeclineEnqueue, Return, HoldsAt, Steps
    <2>4. DescriptorTypes'
      BY <1>9, <2>0 DEF DeclineEnqueue, DescriptorTypes
    <2> QED BY <2>1, <2>2, <2>3, <2>4
  <1>10. CASE Close(a)
    <2>1. PoolTypes' /\ CloseIsNamed'
      BY <1>10 DEF Close, CloseTakeCommand, GetFreeCommandBuf, PoolTypes, CloseIsNamed
    <2>2. ServiceTypes'
      BY <1>10 DEF Close, CloseTakeCommand, ServiceTypes
    <2>3. CallTypes' /\ HoldsAt'
      <3>1. PICK c \in Conns : \/ \E b \in Bufs : Goto(a, "close.enq", b, c)
                              \/ Return(a, "idle")
        BY <1>10 DEF Close, CloseTakeCommand, DescriptorTypes
      <3> QED BY <3>1, NullFacts, GotoTypes DEF Return, HoldsAt, Steps
    <2>4. DescriptorTypes'
      BY <1>10 DEF Close, CloseTakeCommand, DescriptorTypes
    <2> QED BY <2>1, <2>2, <2>3, <2>4
  <1>11. CASE CloseEnqueue(a)
    <2>0. buf[a] \in Bufs /\ idx[a] \in Conns
      BY <1>11 DEF CloseEnqueue, HoldsAt, CallTypes
    <2>k. /\ Command("CLOSE", idx[a], NULL) \in Cmds
          /\ Command("CLOSE", idx[a], NULL).op = "CLOSE" => Command("CLOSE", idx[a], NULL).conn \in Conns
      BY <2>0, CommandFacts DEF PoolTypes, Ops, Command
    <2>1. PoolTypes' /\ CloseIsNamed'
      BY <1>11, <2>0, <2>k, EnqueueTypes DEF CloseEnqueue
    <2>2. ServiceTypes'
      BY <1>11 DEF CloseEnqueue, ServiceTypes
    <2>3. CallTypes' /\ HoldsAt'
      BY <1>11, <2>0, NullFacts, GotoTypes DEF CloseEnqueue, Return, HoldsAt, Steps
    <2>4. DescriptorTypes'
      BY <1>11, <2>0 DEF CloseEnqueue, DescriptorTypes
    <2> QED BY <2>1, <2>2, <2>3, <2>4
  <1>12. CASE CloseFlush(a)
    <2>0. idx[a] \in Conns
      BY <1>12 DEF CloseFlush, HoldsAt, CallTypes
    <2>1. PoolTypes' /\ CloseIsNamed'
      BY <1>12, <2>0, FlushTypes DEF CloseFlush, PoolTypes, CloseIsNamed
    <2>2. ServiceTypes'
      BY <1>12 DEF CloseFlush, ServiceTypes
    <2>3. CallTypes' /\ HoldsAt'
      BY <1>12, <2>0, NullFacts, GotoTypes DEF CloseFlush, Return, HoldsAt, Steps
    <2>4. DescriptorTypes'
      BY <1>12, <2>0 DEF CloseFlush, DescriptorTypes
    <2> QED BY <2>1, <2>2, <2>3, <2>4
  <1>13. CASE Signal(a)
    <2>w. cmd' \in [Bufs -> Cmds] /\ CloseIsNamed'
      <3>1. CASE cmd' = cmd
        BY <3>1 DEF PoolTypes, CloseIsNamed
      <3>2. CASE buf[a] # NULL /\ cmd' = [cmd EXCEPT ![buf[a]] = Blank]
        <4>1. buf[a] \in Bufs
          BY <3>2 DEF CallTypes
        <4> QED BY <3>2, <4>1, CommandFacts, WriteTypes
      <3> QED BY <1>13, <3>1, <3>2 DEF Signal
    <2>1. PoolTypes' /\ CloseIsNamed'
      BY <1>13, <2>w DEF Signal, PoolTypes
    <2>2. ServiceTypes'
      BY <1>13 DEF Signal, ServiceTypes
    <2>3. CallTypes' /\ HoldsAt'
      BY <1>13, NullFacts, GotoTypes DEF Signal, Return, HoldsAt, Steps
    <2>4. DescriptorTypes'
      BY <1>13 DEF Signal, DescriptorTypes
    <2> QED BY <2>1, <2>2, <2>3, <2>4
  <1>14. CASE ExitClose(a)
    <2>1. PoolTypes' /\ CloseIsNamed'
      BY <1>14 DEF ExitClose, CloseTakeCommand, GetFreeCommandBuf, PoolTypes, CloseIsNamed
    <2>2. ServiceTypes'
      BY <1>14 DEF ExitClose, CloseTakeCommand, ServiceTypes
    <2>3. CallTypes' /\ HoldsAt'
      <3>1. PICK c \in Conns : \/ \E b \in Bufs : Goto(a, "close.enq", b, c)
                              \/ Return(a, "exit")
        BY <1>14 DEF ExitClose, CloseTakeCommand, DescriptorTypes
      <3> QED BY <3>1, NullFacts, GotoTypes DEF Return, HoldsAt, Steps
    <2>4. DescriptorTypes'
      BY <1>14 DEF ExitClose, CloseTakeCommand, DescriptorTypes
    <2> QED BY <2>1, <2>2, <2>3, <2>4
  <1>15. CASE ExitDisconnect(a)
    <2>1. PoolTypes' /\ CloseIsNamed'
      BY <1>15 DEF ExitDisconnect, GetFreeCommandBuf, PoolTypes, CloseIsNamed
    <2>2. ServiceTypes'
      BY <1>15 DEF ExitDisconnect, ServiceTypes
    <2>3. CallTypes' /\ HoldsAt'
      BY <1>15, NullFacts, GotoTypes DEF ExitDisconnect, Return, HoldsAt, Steps
    <2>4. DescriptorTypes'
      BY <1>15 DEF ExitDisconnect, DescriptorTypes
    <2> QED BY <2>1, <2>2, <2>3, <2>4
  <1>16. CASE DisconnectEnqueue(a)
    <2>0. buf[a] \in Bufs
      BY <1>16 DEF DisconnectEnqueue, HoldsAt, CallTypes
    <2>k. /\ Command("DISC", NULL, NULL) \in Cmds
          /\ Command("DISC", NULL, NULL).op = "CLOSE" => Command("DISC", NULL, NULL).conn \in Conns
      BY <2>0, CommandFacts DEF PoolTypes, Ops, Command
    <2>1. PoolTypes' /\ CloseIsNamed'
      BY <1>16, <2>0, <2>k, EnqueueTypes DEF DisconnectEnqueue
    <2>2. ServiceTypes'
      BY <1>16 DEF DisconnectEnqueue, ServiceTypes
    <2>3. CallTypes' /\ HoldsAt'
      BY <1>16, <2>0, NullFacts, GotoTypes DEF DisconnectEnqueue, Return, HoldsAt, Steps
    <2>4. DescriptorTypes'
      BY <1>16, <2>0 DEF DisconnectEnqueue, DescriptorTypes
    <2> QED BY <2>1, <2>2, <2>3, <2>4
  <1> QED
    BY <1>1, <1>2, <1>3, <1>4, <1>5, <1>6, <1>7, <1>8, <1>9, <1>10, <1>11, <1>12, <1>13, <1>14, <1>15, <1>16 DEF AppStep

\* Every step of process_commands, and accepting a connection, keeps the types.
LEMMA ServiceStepTypes ==
  ASSUME TypeInv, ProcessCommands \/ Accept \/ ClosedList
  PROVE  TypeInv'
  <1> USE DEF TypeInv
  <1>a. CallTypes' /\ HoldsAt' /\ DescriptorTypes'
    BY DEF ProcessCommands, DequeueCommandBuf, ExecOpen, ExecListen, ExecCallback,
           ExecOther, ExecClose, ExecSetRing, ExecDecline, Accept, ClosedList, appVars,
           CallTypes, HoldsAt, DescriptorTypes
  <1>1. CASE DequeueCommandBuf
    <2>1. cmdRing \in Seq(Bufs) /\ cmdRing # <<>>
      BY <1>1 DEF DequeueCommandBuf, PoolTypes
    <2>2. Head(cmdRing) \in Bufs /\ Tail(cmdRing) \in Seq(Bufs)
      BY <2>1, DequeueFacts
    <2> QED BY <1>a, <1>1, <2>2 DEF DequeueCommandBuf, PoolTypes, ServiceTypes, CloseIsNamed
  <1>2. CASE ExecOpen
    <2>0. svcCmd \in Bufs
      BY <1>2 DEF ExecOpen, Executing, ServiceTypes
    <2>1. FreeCommandBuf \/ ServiceDown
      BY <1>2 DEF ExecOpen
    <2>2. /\ freeCmds' \in SUBSET Bufs
          /\ cmd' \in [Bufs -> Cmds] /\ CloseIsNamed'
          /\ svcCmd' \in Bufs \cup {NULL} /\ up' \in BOOLEAN
      BY <2>0, <2>1, ServiceTypesStep DEF ServiceTypes
    <2>3. PoolTypes'
      BY <1>2, <2>2 DEF ExecOpen, PoolTypes
    <2>4. ServiceTypes'
      BY <1>2, <2>0, <2>2, CommandFacts 
         DEF ExecOpen, SockAlloc, ServiceTypes, PoolTypes, SockStates
    <2> QED BY <1>a, <2>2, <2>3, <2>4
  <1>3. CASE ExecListen
    <2>0. svcCmd \in Bufs
      BY <1>3 DEF ExecListen, Executing, ServiceTypes
    <2>1. FreeCommandBuf \/ ServiceDown
      BY <1>3 DEF ExecListen
    <2>2. /\ freeCmds' \in SUBSET Bufs
          /\ cmd' \in [Bufs -> Cmds] /\ CloseIsNamed'
          /\ svcCmd' \in Bufs \cup {NULL} /\ up' \in BOOLEAN
      BY <2>0, <2>1, ServiceTypesStep DEF ServiceTypes
    <2>3. PoolTypes'
      BY <1>3, <2>2 DEF ExecListen, PoolTypes
    <2>4. ServiceTypes'
      BY <1>3, <2>0, <2>2, CommandFacts DEF ExecListen, ServiceTypes, PoolTypes, SockStates
    <2> QED BY <1>a, <2>2, <2>3, <2>4
  <1>4. CASE ExecCallback
    <2>0. svcCmd \in Bufs
      BY <1>4 DEF ExecCallback, Executing, ServiceTypes
    <2>1. FreeCommandBuf \/ ServiceDown
      BY <1>4 DEF ExecCallback
    <2>2. /\ freeCmds' \in SUBSET Bufs
          /\ cmd' \in [Bufs -> Cmds] /\ CloseIsNamed'
          /\ svcCmd' \in Bufs \cup {NULL} /\ up' \in BOOLEAN
      BY <2>0, <2>1, ServiceTypesStep DEF ServiceTypes
    <2>3. PoolTypes'
      BY <1>4, <2>2 DEF ExecCallback, PoolTypes
    <2>4. ServiceTypes'
      BY <1>4, <2>0, <2>2, CommandFacts DEF ExecCallback, ServiceTypes, PoolTypes, SockStates
    <2> QED BY <1>a, <2>2, <2>3, <2>4
  <1>5. CASE ExecOther
    <2>0. svcCmd \in Bufs
      BY <1>5 DEF ExecOther, Executing, ServiceTypes
    <2>1. FreeCommandBuf \/ ServiceDown
      BY <1>5 DEF ExecOther
    <2>2. /\ freeCmds' \in SUBSET Bufs
          /\ cmd' \in [Bufs -> Cmds] /\ CloseIsNamed'
          /\ svcCmd' \in Bufs \cup {NULL} /\ up' \in BOOLEAN
      BY <2>0, <2>1, ServiceTypesStep DEF ServiceTypes
    <2>3. PoolTypes'
      BY <1>5, <2>2 DEF ExecOther, PoolTypes
    <2>4. ServiceTypes'
      BY <1>5, <2>0, <2>2, CommandFacts DEF ExecOther, ServiceTypes, PoolTypes, SockStates
    <2> QED BY <1>a, <2>2, <2>3, <2>4
  <1>6. CASE ExecClose
    <2>0. svcCmd \in Bufs
      BY <1>6 DEF ExecClose, Executing, ServiceTypes
    <2>1. FreeCommandBuf \/ ServiceDown
      BY <1>6 DEF ExecClose
    <2>2. /\ freeCmds' \in SUBSET Bufs
          /\ cmd' \in [Bufs -> Cmds] /\ CloseIsNamed'
          /\ svcCmd' \in Bufs \cup {NULL} /\ up' \in BOOLEAN
      BY <2>0, <2>1, ServiceTypesStep DEF ServiceTypes
    <2>3. cmd[svcCmd].conn \in Conns
      BY <1>6, <2>0 DEF ExecClose, Executing, CloseIsNamed
    <2>4. /\ rxRing' \in [Conns -> Seq(Bufs)]
          /\ lost' \in [Bufs -> {"no", "rxkick", "flushed", "died"}]
      BY <1>6, <2>3, FlushTypes DEF ExecClose, PoolTypes
    <2>5. freeConns' \in Seq(Conns)
      <3>1. freeConns \in Seq(Conns)
        BY DEF PoolTypes
      <3>2. Append(freeConns, cmd[svcCmd].conn) \in Seq(Conns)
        BY <2>3, <3>1, EnqueueFacts
      <3>3. freeConns' \in {freeConns, Append(freeConns, cmd[svcCmd].conn)}
        BY <1>6 DEF ExecClose
      <3> QED BY <3>1, <3>2, <3>3
    <2>6. PoolTypes'
      BY <1>6, <2>2, <2>4, <2>5 DEF ExecClose, PoolTypes
    <2>7. ServiceTypes'
      BY <1>6, <2>2 DEF ExecClose, ServiceTypes, SockStates
    <2> QED BY <1>a, <2>2, <2>6, <2>7
  <1>7. CASE ExecSetRing
    <2>0. svcCmd \in Bufs
      BY <1>7 DEF ExecSetRing, Executing, ServiceTypes
    <2>1. FreeCommandBuf \/ ServiceDown
      BY <1>7 DEF ExecSetRing
    <2>2. /\ freeCmds' \in SUBSET Bufs
          /\ cmd' \in [Bufs -> Cmds] /\ CloseIsNamed'
          /\ svcCmd' \in Bufs \cup {NULL} /\ up' \in BOOLEAN
      BY <2>0, <2>1, ServiceTypesStep DEF ServiceTypes
    <2>3. PoolTypes'
      BY <1>7, <2>2 DEF ExecSetRing, PoolTypes
    <2>4. ServiceTypes'
      BY <1>7, <2>0, <2>2, CommandFacts DEF ExecSetRing, ServiceTypes, PoolTypes, SockStates
    <2> QED BY <1>a, <2>2, <2>3, <2>4
  <1>8. CASE ExecDecline
    <2>0. svcCmd \in Bufs
      BY <1>8 DEF ExecDecline, Executing, ServiceTypes
    <2>1. FreeCommandBuf \/ ServiceDown
      BY <1>8 DEF ExecDecline
    <2>2. /\ freeCmds' \in SUBSET Bufs
          /\ cmd' \in [Bufs -> Cmds] /\ CloseIsNamed'
          /\ svcCmd' \in Bufs \cup {NULL} /\ up' \in BOOLEAN
      BY <2>0, <2>1, ServiceTypesStep DEF ServiceTypes
    <2>3. PoolTypes'
      BY <1>8, <2>2 DEF ExecDecline, PoolTypes
    <2>4. ServiceTypes'
      BY <1>8, <2>0, <2>2, CommandFacts DEF ExecDecline, ServiceTypes, PoolTypes, SockStates
    <2> QED BY <1>a, <2>2, <2>3, <2>4
  <1>9. CASE Accept
    <2>1. PICK c \in Conns, s \in Socks :
             /\ sockState' = [sockState EXCEPT ![s] = "accepted"]
             /\ reset' \in {reset, reset \ {s}}
             /\ \/ \E b \in Bufs :
                     /\ GetFreeCommandBuf(b)
                     /\ cmd' = [cmd EXCEPT ![b] = Command("ACCEPTED", NULL, s)]
                     /\ rxRing' = [rxRing EXCEPT ![c] = Append(@, b)]
                \/ UNCHANGED <<freeCmds, cmd, rxRing>>
      BY <1>9 DEF Accept, SockAlloc
    <2>2. PoolTypes' /\ CloseIsNamed'
      <3>1. CASE UNCHANGED <<freeCmds, cmd, rxRing>>
        BY <1>9, <3>1 DEF Accept, PoolTypes, CloseIsNamed
      <3>2. ASSUME NEW b \in Bufs,
                   GetFreeCommandBuf(b),
                   cmd' = [cmd EXCEPT ![b] = Command("ACCEPTED", NULL, s)],
                   rxRing' = [rxRing EXCEPT ![c] = Append(@, b)]
            PROVE  PoolTypes' /\ CloseIsNamed'
        <4>1. Command("ACCEPTED", NULL, s) \in Cmds /\ Command("ACCEPTED", NULL, s).op # "CLOSE"
          BY CommandFacts DEF Ops, Command
        <4>2. cmd' \in [Bufs -> Cmds] /\ CloseIsNamed'
          BY <3>2, <4>1, WriteTypes
        <4>3. rxRing[c] \in Seq(Bufs)
          BY DEF PoolTypes
        <4>4. Append(rxRing[c], b) \in Seq(Bufs)
          BY <4>3, EnqueueFacts
        <4> QED BY <1>9, <3>2, <4>2, <4>4 DEF Accept, GetFreeCommandBuf, PoolTypes
      <3> QED BY <2>1, <3>1, <3>2
    <2>3. ServiceTypes'
      BY <1>9, <2>1 DEF Accept, ServiceTypes, SockStates
    <2> QED BY <1>a, <2>2, <2>3
  <1>10. CASE ClosedList
    BY <1>a, <1>10 DEF ClosedList, PoolTypes, CloseIsNamed, ServiceTypes, SockStates
  <1> QED
    BY <1>1, <1>2, <1>3, <1>4, <1>5, <1>6, <1>7, <1>8, <1>9, <1>10 DEF ProcessCommands

\* The inductive type invariant holds in every reachable state.
THEOREM TypeInvariance == Spec => []TypeInv
  <1>1. TypeInv /\ [Next]_vars => TypeInv'
    <2> SUFFICES ASSUME TypeInv, [Next]_vars PROVE TypeInv'
      OBVIOUS
    <2>1. CASE UNCHANGED vars
      BY <2>1 DEF vars, TypeInv, PoolTypes, CloseIsNamed, ServiceTypes, CallTypes,
                  HoldsAt, DescriptorTypes
    <2>2. CASE Next
      BY <2>2, AppStepTypes, ServiceStepTypes DEF Next
    <2> QED BY <2>1, <2>2
  <1> QED BY <1>1, InitTypes, PTL DEF Spec

\* Whatever applications and service do, the pools, rings, descriptors and
\* command contents of ControlPlane keep their types: in particular the service
\* only ever puts valid connection indices into free_connections_ring.
THEOREM TypeCorrect == Spec => []TypeOK
  <1>1. TypeInv => TypeOK
    BY DEF TypeInv, TypeOK
  <1> QED BY <1>1, TypeInvariance, PTL

---------------------------------------------------------------------------
(* Conservation of command buffers.  Every step moves at most one buffer   *)
(* to another place, and may lose the buffers of one rx_ring.              *)

\* A buffer in one place is in no other.
LEMMA Exclusive ==
  ASSUME SinglePlace, NEW b \in Bufs
  PROVE  /\ b \in freeCmds => ~InRing(b) /\ ~InRxRing(b) /\ ~Held(b) /\ svcCmd # b /\ lost[b] = "no"
         /\ InRing(b) => b \notin freeCmds /\ ~InRxRing(b) /\ ~Held(b) /\ svcCmd # b /\ lost[b] = "no"
         /\ InRxRing(b) => b \notin freeCmds /\ ~InRing(b) /\ ~Held(b) /\ svcCmd # b /\ lost[b] = "no"
         /\ Held(b) => b \notin freeCmds /\ ~InRing(b) /\ ~InRxRing(b) /\ svcCmd # b /\ lost[b] = "no"
         /\ svcCmd = b => b \notin freeCmds /\ ~InRing(b) /\ ~InRxRing(b) /\ ~Held(b) /\ lost[b] = "no"
  <1>1. PICK p \in Places : \A q \in Places : IsAt(b, q) <=> q = p
    BY DEF SinglePlace
  <1>2. /\ "pool" \in Places /\ "ring" \in Places /\ "rx" \in Places
        /\ "app" \in Places /\ "svc" \in Places /\ "lost" \in Places
    BY DEF Places
  <1>3. /\ IsAt(b, "pool") <=> b \in freeCmds
        /\ IsAt(b, "ring") <=> InRing(b)
        /\ IsAt(b, "rx") <=> InRxRing(b)
        /\ IsAt(b, "app") <=> Held(b)
        /\ IsAt(b, "svc") <=> svcCmd = b
        /\ IsAt(b, "lost") <=> lost[b] # "no"
    BY DEF IsAt
  <1> QED BY <1>1, <1>2, <1>3

\* In the next state the buffers of F are lost, those of M are in place p, and
\* all others are where they were.
Moved(M, p, F) ==
  \A e \in Bufs :
    /\ (e \in freeCmds') <=> IF e \in F THEN FALSE ELSE IF e \in M THEN p = "pool" ELSE e \in freeCmds
    /\ InRing(e)' <=> IF e \in F THEN FALSE ELSE IF e \in M THEN p = "ring" ELSE InRing(e)
    /\ InRxRing(e)' <=> IF e \in F THEN FALSE ELSE IF e \in M THEN p = "rx" ELSE InRxRing(e)
    /\ Held(e)' <=> IF e \in F THEN FALSE ELSE IF e \in M THEN p = "app" ELSE Held(e)
    /\ (svcCmd' = e) <=> IF e \in F THEN FALSE ELSE IF e \in M THEN p = "svc" ELSE svcCmd = e
    /\ (lost'[e] # "no") <=> IF e \in F THEN TRUE ELSE IF e \in M THEN p = "lost" ELSE lost[e] # "no"

\* Such a step keeps every buffer in one place.
LEMMA MovedSinglePlace ==
  ASSUME SinglePlace, NEW M, NEW F, NEW p \in Places, Moved(M, p, F)
  PROVE  SinglePlace'
  <1> SUFFICES ASSUME NEW b \in Bufs
               PROVE  \E r \in Places : \A q \in Places : IsAt(b, q)' <=> q = r
    BY DEF SinglePlace
  <1>1. PICK o \in Places : \A q \in Places : IsAt(b, q) <=> q = o
    BY DEF SinglePlace
  <1>2. CASE b \in F
    <2>1. \A q \in Places : IsAt(b, q)' <=> q = "lost"
      BY <1>2 DEF Moved, IsAt, Places
    <2> QED BY <2>1 DEF Places
  <1>3. CASE b \notin F /\ b \in M
    <2>1. \A q \in Places : IsAt(b, q)' <=> q = p
      BY <1>3 DEF Moved, IsAt, Places
    <2> QED BY <2>1
  <1>4. CASE b \notin F /\ b \notin M
    <2>1. \A q \in Places : IsAt(b, q)' <=> IsAt(b, q)
      BY <1>4 DEF Moved, IsAt, Places
    <2> QED BY <1>1, <2>1
  <1> QED BY <1>2, <1>3, <1>4

\* What Goto does to the buffers that applications hold.
LEMMA GotoHeld ==
  ASSUME CallTypes, OneHolder, NEW a \in Apps, NEW s, NEW b \in Bufs \cup {NULL},
         NEW c, Goto(a, s, b, c), b = NULL \/ b = buf[a] \/ ~Held(b)
  PROVE  /\ OneHolder'
         /\ \A e \in Bufs : Held(e)' <=> e = b \/ (Held(e) /\ e # buf[a])
  <1>1. buf' = [buf EXCEPT ![a] = b] /\ buf \in [Apps -> Bufs \cup {NULL}]
    BY DEF Goto, CallTypes
  <1>2. OneHolder'
    BY <1>1 DEF OneHolder, Held
  <1>3. \A e \in Bufs : Held(e)' <=> e = b \/ (Held(e) /\ e # buf[a])
    BY <1>1, NullFacts DEF OneHolder, Held
  <1> QED BY <1>2, <1>3

\* An application takes a buffer from the pool.
LEMMA TakeMoves ==
  ASSUME TypeInv, CommandBufferConservation, NEW a \in Apps, NEW b \in Bufs,
         NEW s, NEW c, buf[a] = NULL, GetFreeCommandBuf(b), Goto(a, s, b, c),
         UNCHANGED <<cmdRing, rxRing, svcCmd, lost>>
  PROVE  CommandBufferConservation'
  <1> USE DEF CommandBufferConservation, TypeInv
  <1>1. b \in freeCmds /\ freeCmds' = freeCmds \ {b}
    BY DEF GetFreeCommandBuf
  <1>2. ~InRing(b) /\ ~InRxRing(b) /\ ~Held(b) /\ svcCmd # b /\ lost[b] = "no"
    BY <1>1, Exclusive
  <1>3. OneHolder' /\ \A e \in Bufs : Held(e)' <=> e = b \/ Held(e)
    BY <1>2, GotoHeld, NullFacts
  <1>4. \A e \in Bufs : (InRing(e)' <=> InRing(e)) /\ (InRxRing(e)' <=> InRxRing(e))
    BY DEF InRing, InRxRing
  <1>5. Moved({b}, "app", {})
    BY <1>1, <1>2, <1>3, <1>4 DEF Moved
  <1>6. SinglePlace'
    BY <1>5, MovedSinglePlace DEF Places
  <1>7. OnceInRing' /\ OnceInRxRings'
    BY DEF OnceInRing, OnceInRxRings
  <1> QED BY <1>3, <1>6, <1>7

\* A step that moves no buffer.
LEMMA KeepMoves ==
  ASSUME TypeInv, CommandBufferConservation, NEW a \in Apps, NEW s, NEW c,
         Goto(a, s, buf[a], c), UNCHANGED <<freeCmds, cmdRing, rxRing, svcCmd, lost>>
  PROVE  CommandBufferConservation'
  <1> USE DEF CommandBufferConservation, TypeInv
  <1>1. buf' = buf
    BY DEF Goto, CallTypes
  <1>2. Moved({}, "pool", {})
    BY <1>1 DEF Moved, InRing, InRxRing, Held
  <1>3. SinglePlace'
    BY <1>2, MovedSinglePlace DEF Places
  <1> QED
    BY <1>1, <1>3 DEF OnceInRing, OnceInRxRings, OneHolder

\* An application sends the buffer it holds, or frees it because the ring is full.
LEMMA SendMoves ==
  ASSUME TypeInv, CommandBufferConservation, NEW a \in Apps, NEW k, NEW s, NEW c,
         buf[a] \in Bufs, Goto(a, s, NULL, c), UNCHANGED <<rxRing, svcCmd>>,
         EnqueueCommandBuf(buf[a], k) \/ EnqueueFailsAndFree(buf[a])
  PROVE  CommandBufferConservation'
  <1> DEFINE b == buf[a]
  <1> USE DEF CommandBufferConservation, TypeInv
  <1>1. Held(b)
    BY DEF Held
  <1>2. b \notin freeCmds /\ ~InRing(b) /\ ~InRxRing(b) /\ svcCmd # b /\ lost[b] = "no"
    BY <1>1, Exclusive
  <1>3. OneHolder' /\ \A e \in Bufs : Held(e)' <=> Held(e) /\ e # b
    BY GotoHeld, NullFacts
  <1>4. OnceInRxRings' /\ \A e \in Bufs : InRxRing(e)' <=> InRxRing(e)
    BY DEF OnceInRxRings, InRxRing
  <1>5. CASE EnqueueCommandBuf(b, k)
    <2>1. cmdRing \in Seq(Bufs) /\ cmdRing' = Append(cmdRing, b) /\ freeCmds' = freeCmds /\ lost' = lost
      BY <1>5 DEF EnqueueCommandBuf, PoolTypes
    <2>2. /\ DOMAIN cmdRing' = 1 .. Len(cmdRing) + 1
          /\ DOMAIN cmdRing = 1 .. Len(cmdRing) /\ Len(cmdRing) \in Nat
          /\ cmdRing'[Len(cmdRing) + 1] = b
          /\ \A i \in DOMAIN cmdRing : cmdRing'[i] = cmdRing[i]
      BY <2>1, EnqueueFacts
    <2>3. \A i \in DOMAIN cmdRing : cmdRing[i] # b
      BY <1>2 DEF InRing
    <2>4. OnceInRing'
      BY <2>2, <2>3 DEF OnceInRing
    <2>5. \A e \in Bufs : InRing(e)' <=> InRing(e) \/ e = b
      BY <2>2 DEF InRing
    <2>6. Moved({b}, "ring", {})
      BY <1>2, <1>3, <1>4, <2>1, <2>5 DEF Moved
    <2>7. SinglePlace'
      BY <2>6, MovedSinglePlace DEF Places
    <2> QED BY <1>3, <1>4, <2>4, <2>7
  <1>6. CASE EnqueueFailsAndFree(b)
    <2>1. cmdRing' = cmdRing /\ freeCmds' = freeCmds \cup {b} /\ lost' = lost
      BY <1>6 DEF EnqueueFailsAndFree
    <2>2. OnceInRing' /\ \A e \in Bufs : InRing(e)' <=> InRing(e)
      BY <2>1 DEF OnceInRing, InRing
    <2>3. Moved({b}, "pool", {})
      BY <1>2, <1>3, <1>4, <2>1, <2>2 DEF Moved
    <2>4. SinglePlace'
      BY <2>3, MovedSinglePlace DEF Places
    <2> QED BY <1>3, <1>4, <2>2, <2>4
  <1> QED BY <1>5, <1>6

\* A buffer an application holds goes out of circulation.
LEMMA LoseMoves ==
  ASSUME TypeInv, CommandBufferConservation, NEW a \in Apps, NEW s, NEW c, NEW why,
         buf[a] \in Bufs, Goto(a, s, NULL, c), why # "no",
         lost' = [lost EXCEPT ![buf[a]] = why],
         UNCHANGED <<freeCmds, cmdRing, rxRing, svcCmd>>
  PROVE  CommandBufferConservation'
  <1> DEFINE b == buf[a]
  <1> USE DEF CommandBufferConservation, TypeInv
  <1>1. Held(b)
    BY DEF Held
  <1>2. b \notin freeCmds /\ ~InRing(b) /\ ~InRxRing(b) /\ svcCmd # b
    BY <1>1, Exclusive
  <1>3. OneHolder' /\ \A e \in Bufs : Held(e)' <=> Held(e) /\ e # b
    BY GotoHeld, NullFacts
  <1>4. \A e \in Bufs : (InRing(e)' <=> InRing(e)) /\ (InRxRing(e)' <=> InRxRing(e))
    BY DEF InRing, InRxRing
  <1>5. \A e \in Bufs : lost'[e] = IF e = b THEN why ELSE lost[e]
    BY DEF PoolTypes
  <1>6. Moved({b}, "lost", {})
    BY <1>2, <1>3, <1>4, <1>5 DEF Moved
  <1>7. SinglePlace'
    BY <1>6, MovedSinglePlace DEF Places
  <1>8. OnceInRing' /\ OnceInRxRings'
    BY DEF OnceInRing, OnceInRxRings
  <1> QED BY <1>3, <1>7, <1>8

\* An rx_ring is flushed: its buffers are lost, the others stay in theirs.
LEMMA FlushFacts ==
  ASSUME PoolTypes, OnceInRxRings, NEW c \in Conns, FlushRx(c)
  PROVE  /\ OnceInRxRings'
         /\ \A e \in Bufs :
              IF \E i \in DOMAIN rxRing[c] : rxRing[c][i] = e
              THEN InRxRing(e) /\ ~InRxRing(e)' /\ lost'[e] # "no"
              ELSE (InRxRing(e)' <=> InRxRing(e)) /\ lost'[e] = lost[e]
  <1>1. /\ rxRing'[c] = <<>>
        /\ \A d \in Conns \ {c} : rxRing'[d] = rxRing[d]
        /\ \A e \in Bufs : lost'[e] = IF \E i \in DOMAIN rxRing[c] : rxRing[c][i] = e
                                      THEN "flushed" ELSE lost[e]
    BY DEF FlushRx, PoolTypes
  <1>2. DOMAIN rxRing'[c] = {}
    BY <1>1
  <1>3. OnceInRxRings'
    BY <1>1, <1>2 DEF OnceInRxRings
  <1>4. ASSUME NEW e \in Bufs, NEW i \in DOMAIN rxRing[c], rxRing[c][i] = e
        PROVE  InRxRing(e) /\ ~InRxRing(e)' /\ lost'[e] # "no"
    BY <1>1, <1>2, <1>4 DEF InRxRing, OnceInRxRings
  <1>5. ASSUME NEW e \in Bufs, ~ \E i \in DOMAIN rxRing[c] : rxRing[c][i] = e
        PROVE  (InRxRing(e)' <=> InRxRing(e)) /\ lost'[e] = lost[e]
    BY <1>1, <1>2, <1>5 DEF InRxRing
  <1> QED BY <1>3, <1>4, <1>5

\* The application flushes the rx_ring of the connection it closes.
LEMMA AppFlushMoves ==
  ASSUME TypeInv, CommandBufferConservation, NEW a \in Apps, NEW c \in Conns, NEW s,
         buf[a] = NULL, FlushRx(c), Goto(a, s, NULL, NULL),
         UNCHANGED <<freeCmds, cmdRing, svcCmd>>
  PROVE  CommandBufferConservation'
  <1> DEFINE F == {e \in Bufs : \E i \in DOMAIN rxRing[c] : rxRing[c][i] = e}
  <1> USE DEF CommandBufferConservation, TypeInv
  <1>1. /\ OnceInRxRings'
        /\ \A e \in Bufs : IF e \in F
                           THEN InRxRing(e) /\ ~InRxRing(e)' /\ lost'[e] # "no"
                           ELSE (InRxRing(e)' <=> InRxRing(e)) /\ lost'[e] = lost[e]
    BY FlushFacts
  <1>2. buf' = buf
    BY DEF Goto, CallTypes
  <1>3. \A e \in F : e \notin freeCmds /\ ~InRing(e) /\ ~Held(e) /\ svcCmd # e
    BY <1>1, Exclusive
  <1>4. \A e \in Bufs : (InRing(e)' <=> InRing(e)) /\ (Held(e)' <=> Held(e))
    BY <1>2 DEF InRing, Held
  <1>5. Moved({}, "pool", F)
    BY <1>1, <1>3, <1>4 DEF Moved
  <1>6. SinglePlace'
    BY <1>5, MovedSinglePlace DEF Places
  <1>7. OnceInRing' /\ OneHolder'
    BY <1>2 DEF OnceInRing, OneHolder
  <1> QED BY <1>1, <1>6, <1>7

\* The service ends a command: its buffer goes to the pool, or stays with the
\* dead service; CLOSE may have flushed an rx_ring before.
LEMMA ServiceMoves ==
  ASSUME TypeInv, CommandBufferConservation, svcCmd \in Bufs,
         FreeCommandBuf \/ ServiceDown,
         UNCHANGED <<rxRing, lost>> \/ \E c \in Conns : FlushRx(c),
         UNCHANGED <<cmdRing, buf>>
  PROVE  CommandBufferConservation'
  <1> USE DEF CommandBufferConservation, TypeInv
  <1>1. PICK F \in SUBSET Bufs :
          /\ OnceInRxRings'
          /\ \A e \in Bufs : IF e \in F
                             THEN InRxRing(e) /\ ~InRxRing(e)' /\ lost'[e] # "no"
                             ELSE (InRxRing(e)' <=> InRxRing(e)) /\ lost'[e] = lost[e]
    <2>1. CASE UNCHANGED <<rxRing, lost>>
      <3>1. OnceInRxRings' /\ \A e \in Bufs : (InRxRing(e)' <=> InRxRing(e)) /\ lost'[e] = lost[e]
        BY <2>1 DEF OnceInRxRings, InRxRing
      <3> WITNESS {} \in SUBSET Bufs
      <3> QED BY <3>1
    <2>2. ASSUME NEW c \in Conns, FlushRx(c)
          PROVE \E F \in SUBSET Bufs :
                  /\ OnceInRxRings'
                  /\ \A e \in Bufs : IF e \in F
                       THEN InRxRing(e) /\ ~InRxRing(e)' /\ lost'[e] # "no"
                       ELSE (InRxRing(e)' <=> InRxRing(e)) /\ lost'[e] = lost[e]
      <3> DEFINE G == {e \in Bufs : \E i \in DOMAIN rxRing[c] : rxRing[c][i] = e}
      <3>1. /\ OnceInRxRings'
            /\ \A e \in Bufs : IF e \in G
                 THEN InRxRing(e) /\ ~InRxRing(e)' /\ lost'[e] # "no"
                 ELSE (InRxRing(e)' <=> InRxRing(e)) /\ lost'[e] = lost[e]
        BY <2>2, FlushFacts
      <3>2. G \in SUBSET Bufs
        OBVIOUS
      <3> HIDE DEF G
      <3> QED BY <3>1, <3>2
    <2> QED BY <2>1, <2>2
  <1>2. OnceInRing' /\ OneHolder'
    BY DEF OnceInRing, OneHolder
  <1>3. \A e \in Bufs : (InRing(e)' <=> InRing(e)) /\ (Held(e)' <=> Held(e))
    BY DEF InRing, Held
  <1>4. \A e \in F : e \notin freeCmds /\ ~InRing(e) /\ ~Held(e) /\ svcCmd # e
    BY <1>1, Exclusive
  <1>5. ~InRing(svcCmd) /\ ~InRxRing(svcCmd) /\ ~Held(svcCmd) /\ lost[svcCmd] = "no"
    BY Exclusive
  <1>6. CASE FreeCommandBuf
    <2>1. freeCmds' = freeCmds \cup {svcCmd} /\ svcCmd' = NULL
      BY <1>6 DEF FreeCommandBuf
    <2>2. Moved({svcCmd}, "pool", F)
      BY <1>1, <1>3, <1>4, <1>5, <2>1, NullFacts DEF Moved
    <2>3. SinglePlace'
      BY <2>2, MovedSinglePlace DEF Places
    <2> QED BY <1>1, <1>2, <2>3
  <1>7. CASE ServiceDown
    <2>1. freeCmds' = freeCmds /\ svcCmd' = svcCmd
      BY <1>7 DEF ServiceDown
    <2>2. Moved({}, "pool", F)
      BY <1>1, <1>3, <1>4, <1>5, <2>1 DEF Moved
    <2>3. SinglePlace'
      BY <2>2, MovedSinglePlace DEF Places
    <2> QED BY <1>1, <1>2, <2>3
  <1> QED BY <1>6, <1>7

\* The service takes the oldest command of the ring.
LEMMA DequeueMoves ==
  ASSUME TypeInv, CommandBufferConservation, DequeueCommandBuf
  PROVE  CommandBufferConservation'
  <1> DEFINE b == Head(cmdRing)
  <1> USE DEF CommandBufferConservation, TypeInv
  <1>1. /\ svcCmd = NULL /\ svcCmd' = b /\ cmdRing # <<>> /\ cmdRing' = Tail(cmdRing)
        /\ cmdRing \in Seq(Bufs) /\ UNCHANGED <<freeCmds, rxRing, buf, lost>>
    BY DEF DequeueCommandBuf, PoolTypes, appVars
  <1>2. /\ b \in Bufs /\ b = cmdRing[1] /\ 1 \in DOMAIN cmdRing
        /\ DOMAIN cmdRing' = 1 .. Len(cmdRing) - 1
        /\ \A i \in DOMAIN cmdRing' : i + 1 \in DOMAIN cmdRing /\ cmdRing'[i] = cmdRing[i + 1]
        /\ \A i \in DOMAIN cmdRing : i = 1 \/ (i - 1 \in DOMAIN cmdRing' /\ cmdRing'[i - 1] = cmdRing[i])
    BY <1>1, DequeueFacts
  <1>3. InRing(b)
    BY <1>2 DEF InRing
  <1>4. b \notin freeCmds /\ ~InRxRing(b) /\ ~Held(b) /\ lost[b] = "no"
    BY <1>2, <1>3, Exclusive
  <1> HIDE DEF b
  <1>5. \A i \in DOMAIN cmdRing' : i \in Nat
    BY <1>2
  <1>6. OnceInRing'
    BY <1>2, <1>5 DEF OnceInRing
  <1>7. \A e \in Bufs : InRing(e)' <=> InRing(e) /\ e # b
    <2>1. ASSUME NEW e \in Bufs, InRing(e), e # b PROVE InRing(e)'
      BY <1>2, <2>1 DEF InRing
    <2>2. ASSUME NEW e \in Bufs, InRing(e)' PROVE InRing(e) /\ e # b
      <3>1. PICK i \in DOMAIN cmdRing' : cmdRing'[i] = e
        BY <2>2 DEF InRing
      <3>2. i + 1 \in DOMAIN cmdRing /\ cmdRing[i + 1] = e /\ i + 1 # 1
        BY <1>2, <3>1
      <3> QED BY <1>2, <3>2 DEF InRing, OnceInRing
    <2> QED BY <2>1, <2>2
  <1>8. \A e \in Bufs : (InRxRing(e)' <=> InRxRing(e)) /\ (Held(e)' <=> Held(e))
    BY <1>1 DEF InRxRing, Held
  <1>9. Moved({b}, "svc", {})
    BY <1>1, <1>2, <1>4, <1>7, <1>8, NullFacts DEF Moved
  <1>10. SinglePlace'
    BY <1>9, MovedSinglePlace DEF Places
  <1>11. OnceInRxRings' /\ OneHolder'
    BY <1>1 DEF OnceInRxRings, OneHolder
  <1> QED BY <1>6, <1>10, <1>11

\* An application takes the oldest accepted connection of its listener.
LEMMA AcceptDequeueMoves ==
  ASSUME TypeInv, CommandBufferConservation, NEW a \in Apps, AcceptDequeue(a)
  PROVE  CommandBufferConservation'
  <1> USE DEF CommandBufferConservation, TypeInv
  <1>1. PICK c \in listens[a] : /\ rxRing[c] # <<>>
                                /\ rxRing' = [rxRing EXCEPT ![c] = Tail(@)]
                                /\ Goto(a, "accept.conn", Head(rxRing[c]), NULL)
    BY DEF AcceptDequeue
  <1> DEFINE q == rxRing[c]
             b == Head(q)
  <1>2. c \in Conns /\ q \in Seq(Bufs)
    BY DEF PoolTypes, DescriptorTypes
  <1>3. /\ b \in Bufs /\ b = q[1] /\ 1 \in DOMAIN q
        /\ DOMAIN Tail(q) = 1 .. Len(q) - 1
        /\ \A i \in DOMAIN Tail(q) : i + 1 \in DOMAIN q /\ Tail(q)[i] = q[i + 1]
        /\ \A i \in DOMAIN q : i = 1 \/ (i - 1 \in DOMAIN Tail(q) /\ Tail(q)[i - 1] = q[i])
    BY <1>1, <1>2, DequeueFacts
  <1>4. /\ rxRing'[c] = Tail(q) /\ \A d \in Conns \ {c} : rxRing'[d] = rxRing[d]
        /\ \A i \in DOMAIN Tail(q) : i \in Nat
    BY <1>1, <1>2, <1>3 DEF PoolTypes
  <1>5. InRxRing(b)
    BY <1>2, <1>3 DEF InRxRing
  <1>6. b \notin freeCmds /\ ~InRing(b) /\ ~Held(b) /\ svcCmd # b /\ lost[b] = "no"
    BY <1>3, <1>5, Exclusive
  <1>7. buf[a] = NULL
    BY DEF AcceptDequeue, HoldsAt
  <1>8. OneHolder' /\ \A e \in Bufs : Held(e)' <=> e = b \/ Held(e)
    BY <1>1, <1>3, <1>6, <1>7, GotoHeld, NullFacts
  <1>a. /\ \A i \in DOMAIN rxRing'[c] :
             i + 1 \in DOMAIN rxRing[c] /\ rxRing'[c][i] = rxRing[c][i + 1] /\ i + 1 # 1
        /\ \A i, j \in DOMAIN rxRing'[c] : i + 1 = j + 1 => i = j
        /\ \A i \in DOMAIN rxRing[c] :
             rxRing[c][i] = b \/ \E j \in DOMAIN rxRing'[c] : rxRing'[c][j] = rxRing[c][i]
    <2>1. rxRing'[c] = Tail(q) /\ q = rxRing[c]
      BY <1>4
    <2>2. \A i \in DOMAIN Tail(q) : i + 1 # 1
      BY <1>4
    <2>3. \A i, j \in DOMAIN Tail(q) : i + 1 = j + 1 => i = j
      BY <1>4
    <2>4. \A i \in DOMAIN q : q[i] = b \/ \E j \in DOMAIN Tail(q) : Tail(q)[j] = q[i]
      <3> SUFFICES ASSUME NEW i \in DOMAIN q, i # 1
                   PROVE  \E j \in DOMAIN Tail(q) : Tail(q)[j] = q[i]
        BY <1>3
      <3>1. i - 1 \in DOMAIN Tail(q) /\ Tail(q)[i - 1] = q[i]
        BY <1>3
      <3> QED BY <3>1
    <2>5. \A i \in DOMAIN Tail(q) : i + 1 \in DOMAIN q /\ Tail(q)[i] = q[i + 1]
      BY <1>3
    <2> HIDE DEF b
    <2> QED BY <2>1, <2>2, <2>3, <2>4, <2>5
  <1>b. /\ 1 \in DOMAIN rxRing[c] /\ rxRing[c][1] = b
        /\ \A d \in Conns \ {c} : rxRing'[d] = rxRing[d]
    BY <1>3, <1>4
  <1> HIDE DEF b, q
  <1>9. OnceInRxRings'
    <2> SUFFICES ASSUME NEW d1 \in Conns, NEW d2 \in Conns, NEW i \in DOMAIN rxRing'[d1],
                        NEW j \in DOMAIN rxRing'[d2], rxRing'[d1][i] = rxRing'[d2][j]
                 PROVE  d1 = d2 /\ i = j
      BY DEF OnceInRxRings
    <2>1. CASE d1 = c /\ d2 = c
      <3>1. i + 1 = j + 1
        BY <1>2, <1>a, <2>1 DEF OnceInRxRings
      <3> QED BY <1>a, <2>1, <3>1
    <2>2. CASE d1 = c /\ d2 # c
      BY <1>2, <1>a, <1>b, <2>2 DEF OnceInRxRings
    <2>3. CASE d1 # c /\ d2 = c
      BY <1>2, <1>a, <1>b, <2>3 DEF OnceInRxRings
    <2>4. CASE d1 # c /\ d2 # c
      BY <1>b, <2>4 DEF OnceInRxRings
    <2> QED BY <2>1, <2>2, <2>3, <2>4
  <1>10. \A e \in Bufs : InRxRing(e)' <=> InRxRing(e) /\ e # b
    <2>1. ASSUME NEW e \in Bufs, InRxRing(e), e # b PROVE InRxRing(e)'
      <3>1. PICK d \in Conns : \E i \in DOMAIN rxRing[d] : rxRing[d][i] = e
        BY <2>1 DEF InRxRing
      <3>2. \E i \in DOMAIN rxRing'[d] : rxRing'[d][i] = e
        BY <1>a, <1>b, <2>1, <3>1
      <3> QED BY <3>2 DEF InRxRing
    <2>2. ASSUME NEW e \in Bufs, InRxRing(e)' PROVE InRxRing(e) /\ e # b
      <3>1. PICK d \in Conns : \E i \in DOMAIN rxRing'[d] : rxRing'[d][i] = e
        BY <2>2 DEF InRxRing
      <3>2. PICK i \in DOMAIN rxRing'[d] : rxRing'[d][i] = e
        BY <3>1
      <3>3. CASE d = c
        <4>1. i + 1 \in DOMAIN rxRing[c] /\ rxRing[c][i + 1] = e /\ i + 1 # 1
          BY <1>a, <3>2, <3>3
        <4> QED BY <1>2, <1>b, <4>1 DEF InRxRing, OnceInRxRings
      <3>4. CASE d # c
        <4>1. i \in DOMAIN rxRing[d] /\ rxRing[d][i] = e
          BY <1>b, <3>2, <3>4
        <4> QED BY <1>2, <1>b, <3>4, <4>1 DEF InRxRing, OnceInRxRings
      <3> QED BY <3>3, <3>4
    <2> QED BY <2>1, <2>2
  <1>11. /\ freeCmds' = freeCmds /\ svcCmd' = svcCmd /\ lost' = lost /\ cmdRing' = cmdRing
         /\ OnceInRing' /\ \A e \in Bufs : InRing(e)' <=> InRing(e)
    BY DEF AcceptDequeue, InRing, OnceInRing
  <1>12. Moved({b}, "app", {})
    BY <1>6, <1>8, <1>10, <1>11 DEF Moved
  <1>13. SinglePlace'
    BY <1>12, MovedSinglePlace DEF Places
  <1> QED BY <1>8, <1>9, <1>11, <1>13

\* The service posts an accepted connection into the listener's rx_ring.
LEMMA AcceptMoves ==
  ASSUME TypeInv, CommandBufferConservation, Accept
  PROVE  CommandBufferConservation'
  <1> USE DEF CommandBufferConservation, TypeInv
  <1>1. /\ UNCHANGED <<cmdRing, svcCmd, buf, lost>>
        /\ OnceInRing' /\ OneHolder'
        /\ \A e \in Bufs : (InRing(e)' <=> InRing(e)) /\ (Held(e)' <=> Held(e))
    BY DEF Accept, appVars, OnceInRing, OneHolder, InRing, Held
  <1>2. CASE UNCHANGED <<freeCmds, rxRing>>
    <2>1. OnceInRxRings' /\ \A e \in Bufs : InRxRing(e)' <=> InRxRing(e)
      BY <1>2 DEF OnceInRxRings, InRxRing
    <2>2. Moved({}, "pool", {})
      BY <1>1, <1>2, <2>1 DEF Moved
    <2>3. SinglePlace'
      BY <2>2, MovedSinglePlace DEF Places
    <2> QED BY <1>1, <2>1, <2>3
  <1>3. ASSUME NEW c \in Conns, NEW b \in Bufs, GetFreeCommandBuf(b),
               rxRing' = [rxRing EXCEPT ![c] = Append(@, b)]
        PROVE  CommandBufferConservation'
    <2> DEFINE q == rxRing[c]
    <2>1. b \in freeCmds /\ freeCmds' = freeCmds \ {b} /\ q \in Seq(Bufs)
      BY <1>3 DEF GetFreeCommandBuf, PoolTypes
    <2>2. ~InRing(b) /\ ~InRxRing(b) /\ ~Held(b) /\ svcCmd # b /\ lost[b] = "no"
      BY <2>1, Exclusive
    <2>3. /\ rxRing'[c] = Append(q, b)
          /\ \A d \in Conns \ {c} : rxRing'[d] = rxRing[d]
      BY <1>3 DEF PoolTypes
    <2>4. /\ DOMAIN rxRing'[c] = 1 .. Len(q) + 1 /\ Len(q) \in Nat
          /\ DOMAIN q = 1 .. Len(q)
          /\ rxRing'[c][Len(q) + 1] = b
          /\ \A i \in DOMAIN q : rxRing'[c][i] = q[i]
      BY <2>1, <2>3, EnqueueFacts
    <2>5. \A d \in Conns : \A i \in DOMAIN rxRing[d] : rxRing[d][i] # b
      BY <2>2 DEF InRxRing
    <2>6. \A d \in Conns : \A i \in DOMAIN rxRing'[d] :
            \/ d = c /\ i = Len(q) + 1
            \/ i \in DOMAIN rxRing[d] /\ rxRing'[d][i] = rxRing[d][i]
      BY <2>3, <2>4
    <2>7. OnceInRxRings'
      BY <2>4, <2>5, <2>6 DEF OnceInRxRings
    <2>8. \A e \in Bufs : InRxRing(e)' <=> InRxRing(e) \/ e = b
      <3>1. ASSUME NEW e \in Bufs, InRxRing(e)' PROVE InRxRing(e) \/ e = b
        BY <2>4, <2>6, <3>1 DEF InRxRing
      <3>2. ASSUME NEW e \in Bufs, InRxRing(e) PROVE InRxRing(e)'
        <4>1. PICK d \in Conns : \E i \in DOMAIN rxRing[d] : rxRing[d][i] = e
          BY <3>2 DEF InRxRing
        <4>2. \E i \in DOMAIN rxRing'[d] : rxRing'[d][i] = e
          BY <2>3, <2>4, <4>1
        <4> QED BY <4>2 DEF InRxRing
      <3>3. InRxRing(b)'
        <4>1. Len(q) + 1 \in DOMAIN rxRing'[c]
          BY <2>4
        <4> QED BY <2>4, <4>1 DEF InRxRing
      <3> QED BY <3>1, <3>2, <3>3
    <2>9. Moved({b}, "rx", {})
      BY <1>1, <2>1, <2>2, <2>8 DEF Moved
    <2>10. SinglePlace'
      BY <2>9, MovedSinglePlace DEF Places
    <2> QED BY <1>1, <2>7, <2>10
  <1> QED BY <1>2, <1>3 DEF Accept

\* Every step keeps the command buffers accounted for.
LEMMA ConservationStep ==
  ASSUME TypeInv, CommandBufferConservation, [Next]_vars
  PROVE  CommandBufferConservation'
  <1>1. CASE UNCHANGED vars
    <2>1. Moved({}, "pool", {})
      BY <1>1 DEF vars, Moved, InRing, InRxRing, Held
    <2>2. SinglePlace'
      BY <2>1, MovedSinglePlace DEF CommandBufferConservation, Places
    <2> QED
      BY <1>1, <2>2 DEF vars, CommandBufferConservation, OnceInRing, OnceInRxRings, OneHolder
  <1>2. ASSUME NEW a \in Apps, AppStep(a)
        PROVE  CommandBufferConservation'
    <2>1. CASE OpenTakeConnection(a)
      <3>1. buf[a] = NULL
        BY <2>1 DEF OpenTakeConnection, TypeInv, HoldsAt
      <3> QED BY <2>1, <3>1, KeepMoves DEF OpenTakeConnection
    <2>2. CASE OpenTakeCommand(a)
      <3>1. buf[a] = NULL
        BY <2>2 DEF OpenTakeCommand, TypeInv, HoldsAt
      <3> QED BY <2>2, <3>1, KeepMoves, TakeMoves DEF OpenTakeCommand, Return
    <2>3. CASE OpenEnqueue(a)
      <3>1. buf[a] \in Bufs
        BY <2>3 DEF OpenEnqueue, TypeInv, HoldsAt, CallTypes
      <3> QED BY <2>3, <3>1, SendMoves DEF OpenEnqueue, Return
    <2>4. CASE CtlTakeCommand(a)
      <3>1. buf[a] = NULL
        BY <2>4 DEF CtlTakeCommand, TypeInv, HoldsAt
      <3> QED BY <2>4, <3>1, TakeMoves DEF CtlTakeCommand
    <2>5. CASE CtlEnqueue(a)
      <3>1. buf[a] \in Bufs
        BY <2>5 DEF CtlEnqueue, TypeInv, HoldsAt, CallTypes
      <3>2. CASE EnqueueCommandBuf(buf[a], cmd[buf[a]]) \/ EnqueueFailsAndFree(buf[a])
        BY <2>5, <3>1, <3>2, SendMoves DEF CtlEnqueue, Return
      <3>3. CASE lost' = [lost EXCEPT ![buf[a]] = "rxkick"] /\ UNCHANGED <<freeCmds, cmdRing>>
        BY <2>5, <3>1, <3>3, LoseMoves DEF CtlEnqueue, Return
      <3> QED BY <2>5, <3>2, <3>3 DEF CtlEnqueue
    <2>6. CASE AcceptDequeue(a)
      BY <2>6, AcceptDequeueMoves
    <2>7. CASE AcceptTakeConnection(a)
      BY <2>7, KeepMoves DEF AcceptTakeConnection
    <2>8. CASE AcceptEnqueue(a)
      <3>1. buf[a] \in Bufs
        BY <2>8 DEF AcceptEnqueue, TypeInv, HoldsAt, CallTypes
      <3> QED BY <2>8, <3>1, SendMoves DEF AcceptEnqueue, Return
    <2>9. CASE DeclineEnqueue(a)
      <3>1. buf[a] \in Bufs
        BY <2>9 DEF DeclineEnqueue, TypeInv, HoldsAt, CallTypes
      <3> QED BY <2>9, <3>1, SendMoves DEF DeclineEnqueue, Return
    <2>10. CASE Close(a)
      <3>1. buf[a] = NULL
        BY <2>10 DEF Close, TypeInv, HoldsAt
      <3> QED BY <2>10, <3>1, KeepMoves, TakeMoves DEF Close, CloseTakeCommand, Return
    <2>11. CASE CloseEnqueue(a)
      <3>1. buf[a] \in Bufs
        BY <2>11 DEF CloseEnqueue, TypeInv, HoldsAt, CallTypes
      <3> QED BY <2>11, <3>1, SendMoves DEF CloseEnqueue
    <2>12. CASE CloseFlush(a)
      <3>1. buf[a] = NULL /\ idx[a] \in Conns
        BY <2>12 DEF CloseFlush, TypeInv, HoldsAt, CallTypes
      <3>2. PICK s : Goto(a, s, NULL, NULL)
        BY <2>12 DEF CloseFlush, Return
      <3>3. FlushRx(idx[a]) /\ UNCHANGED <<freeCmds, cmdRing, svcCmd>>
        BY <2>12 DEF CloseFlush
      <3> QED BY <3>1, <3>2, <3>3, AppFlushMoves
    <2>13. CASE Signal(a)
      <3>1. CASE buf[a] = NULL
        BY <2>13, <3>1, KeepMoves DEF Signal, Return
      <3>2. CASE buf[a] # NULL
        <4>1. buf[a] \in Bufs
          BY <3>2 DEF TypeInv, CallTypes
        <4> QED BY <2>13, <3>2, <4>1, LoseMoves DEF Signal, Return
      <3> QED BY <3>1, <3>2
    <2>14. CASE ExitClose(a)
      <3>1. buf[a] = NULL
        BY <2>14 DEF ExitClose, TypeInv, HoldsAt
      <3> QED BY <2>14, <3>1, KeepMoves, TakeMoves DEF ExitClose, CloseTakeCommand, Return
    <2>15. CASE ExitDisconnect(a)
      <3>1. buf[a] = NULL
        BY <2>15 DEF ExitDisconnect, TypeInv, HoldsAt
      <3> QED BY <2>15, <3>1, KeepMoves, TakeMoves DEF ExitDisconnect, Return
    <2>16. CASE DisconnectEnqueue(a)
      <3>1. buf[a] \in Bufs
        BY <2>16 DEF DisconnectEnqueue, TypeInv, HoldsAt, CallTypes
      <3> QED BY <2>16, <3>1, SendMoves DEF DisconnectEnqueue, Return
    <2> QED
      BY <1>2, <2>1, <2>2, <2>3, <2>4, <2>5, <2>6, <2>7, <2>8, <2>9, <2>10, <2>11,
         <2>12, <2>13, <2>14, <2>15, <2>16 DEF AppStep
  <1>3. CASE ProcessCommands
    <2>1. CASE DequeueCommandBuf
      BY <2>1, DequeueMoves
    <2>2. CASE ExecOpen \/ ExecListen \/ ExecCallback \/ ExecOther \/ ExecSetRing \/ ExecDecline
      <3>1. svcCmd \in Bufs
        BY <2>2 DEF ExecOpen, ExecListen, ExecCallback, ExecOther, ExecSetRing, ExecDecline,
                    Executing, TypeInv, ServiceTypes
      <3>2. (FreeCommandBuf \/ ServiceDown) /\ UNCHANGED <<rxRing, lost, cmdRing, buf>>
        BY <2>2 DEF ExecOpen, ExecListen, ExecCallback, ExecOther, ExecSetRing, ExecDecline,
                    appVars
      <3> QED BY <3>1, <3>2, ServiceMoves
    <2>3. CASE ExecClose
      <3>1. svcCmd \in Bufs
        BY <2>3 DEF ExecClose, Executing, TypeInv, ServiceTypes
      <3>2. cmd[svcCmd].conn \in Conns
        BY <2>3, <3>1 DEF ExecClose, Executing, TypeInv, CloseIsNamed
      <3>3. /\ FreeCommandBuf \/ ServiceDown
            /\ UNCHANGED <<rxRing, lost>> \/ FlushRx(cmd[svcCmd].conn)
            /\ UNCHANGED <<cmdRing, buf>>
        BY <2>3 DEF ExecClose, appVars
      <3> QED BY <3>1, <3>2, <3>3, ServiceMoves
    <2> QED BY <1>3, <2>1, <2>2, <2>3 DEF ProcessCommands
  <1>4. CASE Accept
    BY <1>4, AcceptMoves
  <1>5. CASE ClosedList
    <2>1. /\ Moved({}, "pool", {})
          /\ OnceInRing' /\ OnceInRxRings' /\ OneHolder'
      BY <1>5 DEF ClosedList, appVars, Moved, InRing, InRxRing, Held,
              CommandBufferConservation, OnceInRing, OnceInRxRings, OneHolder
    <2>2. SinglePlace'
      BY <2>1, MovedSinglePlace DEF CommandBufferConservation, Places
    <2> QED BY <2>1, <2>2 DEF CommandBufferConservation
  <1> QED BY <1>1, <1>2, <1>3, <1>4, <1>5 DEF Next

\* Initially all buffers are in the pool.
LEMMA InitConservation == Init => CommandBufferConservation
  <1> SUFFICES ASSUME Init PROVE CommandBufferConservation
    OBVIOUS
  <1>1. \A b \in Bufs : /\ b \in freeCmds /\ ~InRing(b) /\ ~InRxRing(b) /\ ~Held(b)
                        /\ svcCmd # b /\ lost[b] = "no"
    BY NullFacts DEF Init, InRing, InRxRing, Held
  <1>2. SinglePlace
    <2> SUFFICES ASSUME NEW b \in Bufs
                 PROVE  \A q \in Places : IsAt(b, q) <=> q = "pool"
      BY DEF SinglePlace, Places
    <2> QED BY <1>1 DEF IsAt, Places
  <1>3. OnceInRing /\ OnceInRxRings /\ OneHolder
    BY DEF Init, OnceInRing, OnceInRxRings, OneHolder
  <1> QED BY <1>2, <1>3 DEF CommandBufferConservation

\* For any number of applications, connections and command buffers, and also
\* when applications are killed by signals and the service crashes: every
\* command buffer is in exactly one place, so no two processes ever write or
\* free the same buffer and no buffer is queued twice.
THEOREM Conservation == Spec => []CommandBufferConservation
  <1>1. TypeInv /\ CommandBufferConservation /\ [Next]_vars => CommandBufferConservation'
    BY ConservationStep
  <1> QED BY <1>1, InitConservation, TypeInvariance, PTL DEF Spec
===========================================================================
