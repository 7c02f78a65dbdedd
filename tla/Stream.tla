------------------------------- MODULE Stream -------------------------------
(***************************************************************************)
(* What a connection promises in each direction, whatever rings, caches    *)
(* and commands lie between the two ends: what goes in at one end comes    *)
(* out at the other in order, once, and only during the life of the        *)
(* connection it belongs to.  A lossy connection may leave units out.      *)
(* RxPath and TxPath implement it.                                         *)
(***************************************************************************)
EXTENDS Naturals, Sequences

CONSTANT Conns  \* connection indices

VARIABLES
  lossy,     \* connections that may leave units out
  life,      \* how often each index has been used
  given,     \* units that went in during this life
  delivered  \* units that came out, each with the life it was given in

svars == <<lossy, life, given, delivered>>

\* The unit number n of a life.
Unit(l, n) == <<l, n>>

Others(c) == \A d \in Conns \ {c} : /\ life'[d] = life[d] /\ given'[d] = given[d]
                                    /\ delivered'[d] = delivered[d]

SInit ==
  /\ lossy \subseteq Conns
  /\ life = [c \in Conns |-> 1]
  /\ given = [c \in Conns |-> 0]
  /\ delivered = [c \in Conns |-> <<>>]

Give(c) ==
  /\ given'[c] > given[c]
  /\ life'[c] = life[c] /\ delivered'[c] = delivered[c]
  /\ Others(c)

\* One or more units come out: the next ones, or on a lossy connection some later
\* ones.
Deliver(c) ==
  /\ Len(delivered'[c]) \in Len(delivered[c]) + 1 .. given[c]
  /\ \A i \in 1 .. Len(delivered[c]) : delivered'[c][i] = delivered[c][i]
  /\ \A i \in 1 .. Len(delivered'[c]) :
       \E n \in 1 .. given[c] :
         /\ delivered'[c][i] = Unit(life[c], n)
         /\ IF c \notin lossy THEN n = i ELSE i > 1 => n > delivered'[c][i - 1][2]
  /\ life'[c] = life[c] /\ given'[c] = given[c]
  /\ Others(c)

\* The index is given to a new connection.
Restart(c) ==
  /\ life'[c] = life[c] + 1
  /\ given'[c] = 0 /\ delivered'[c] = <<>>
  /\ Others(c)

SNext == lossy' = lossy /\ \E c \in Conns : Give(c) \/ Deliver(c) \/ Restart(c)

SSpec == SInit /\ [][SNext]_svars
=============================================================================
