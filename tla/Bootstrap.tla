------------------------------ MODULE Bootstrap -----------------------------
(***************************************************************************)
(* How the nodes find each other (bootserver.go, netSocketBoot.go,         *)
(* ExchangeID.go).  A node dials the boot server, opens its own listening  *)
(* socket, sends its address and receives those registered before; then it *)
(* dials them, one after the other.  The server serves one connection at a *)
(* time.  On every new connection the accepting side sends its number      *)
(* first and the dialing side answers with its own.                        *)
(***************************************************************************)
EXTENDS Integers, FiniteSets, Sequences

CONSTANTS
  Node,       \* the nodes that are started
  NodeZero,   \* the one with number 0
  Failing,    \* the nodes that may stop at any time
  Client      \* a program that asks the server for the nodes (getAContact)

ASSUME BootstrapAssumption ==
  /\ IsFiniteSet(Node) /\ NodeZero \in Node
  /\ Failing \subseteq Node /\ Client \notin Node

VARIABLES
  server,     \* the boot server: not started, serving, ended by a Fatal
  listAddr,   \* the addresses it has registered, in their order
  queue,      \* the connections it has not served yet
  phase,      \* what each node is doing
  toDial,     \* the addresses it has still to dial
  accepting,  \* the connections its serverLoop has not served yet
  socks       \* its sockets: the node at the other end, the number recorded

bootVars == <<server, listAddr, queue, phase, toDial, accepting, socks>>

Stopped(n) == phase[n] \in {"crashed", "gone", "failed"}
Listening(n) == phase[n] \in {"listening", "dialing", "exchange", "ready"}

StartServer ==
  /\ server = "off"
  /\ server' = "on"
  /\ UNCHANGED <<listAddr, queue, phase, toDial, accepting, socks>>

\* NewNetSocketBoot: the first dial that the server accepts.
DialServer(n) ==
  /\ phase[n] = "off" /\ server = "on"
  /\ phase' = [phase EXCEPT ![n] = "dialed"]
  /\ queue' = Append(queue, n)
  /\ UNCHANGED <<server, listAddr, toDial, accepting, socks>>

\* 180 dials failed: the node panics.
GiveUp(n) ==
  /\ phase[n] = "off" /\ server # "on"
  /\ phase' = [phase EXCEPT ![n] = "failed"]
  /\ UNCHANGED <<server, listAddr, queue, toDial, accepting, socks>>

\* NewNetSocket, whose serverLoop runs from now on; the address is sent next.
Listen(n) ==
  /\ phase[n] = "dialed"
  /\ phase' = [phase EXCEPT ![n] = "listening"]
  /\ UNCHANGED <<server, listAddr, queue, toDial, accepting, socks>>

\* Mutant: an address is registered before the addresses are sent.
ToSendAfter(n) == Append(listAddr, n)
\* Mutant: the first address is left out.
ToSendTail(n) == IF listAddr = <<>> THEN <<>> ELSE Tail(listAddr)
\* The addresses a node is sent: those registered before its own.
ToSend(n) == listAddr

\* The server has decoded the address of the node it serves, sends it the
\* addresses and registers it.
Register(n) ==
  /\ server = "on" /\ queue # <<>> /\ Head(queue) = n /\ phase[n] = "listening"
  /\ toDial' = [toDial EXCEPT ![n] = ToSend(n)]
  /\ listAddr' = Append(listAddr, n)
  /\ queue' = Tail(queue)
  /\ phase' = [phase EXCEPT ![n] = "dialing"]
  /\ UNCHANGED <<server, accepting, socks>>

\* The node it serves has stopped: a decoding or an encoding that fails is
\* Fatal; neither has to fail when the node had sent its address.
ServeStopped(n) ==
  /\ server = "on" /\ queue # <<>> /\ Head(queue) = n /\ Stopped(n)
  /\ queue' = Tail(queue)
  /\ \/ server' = "fatal" /\ UNCHANGED listAddr
     \/ phase[n] = "gone" /\ listAddr' = Append(listAddr, n) /\ UNCHANGED server
  /\ UNCHANGED <<phase, toDial, accepting, socks>>

\* InitialiseConnection: the next address; one that does not answer is left.
DialPeer(n) ==
  /\ phase[n] = "dialing"
  /\ IF toDial[n] = <<>>
       THEN phase' = [phase EXCEPT ![n] = "ready"] /\ UNCHANGED <<toDial, accepting>>
     ELSE LET m == Head(toDial[n]) IN
       IF Listening(m)
         THEN /\ phase' = [phase EXCEPT ![n] = "exchange"]
              /\ accepting' = [accepting EXCEPT ![m] = Append(@, n)]
              /\ UNCHANGED toDial
         ELSE toDial' = [toDial EXCEPT ![n] = Tail(@)] /\ UNCHANGED <<phase, accepting>>
  /\ UNCHANGED <<server, listAddr, queue, socks>>

\* receiveId: the number the other side sent; 0 when it stopped before it did.
IdReceived(m) == IF Stopped(m) THEN {m, NodeZero} ELSE {m}
Socket(m, id) == [peer |-> m, id |-> id]

\* ExchangeIdServer at m and ExchangeIdClient at n, each waiting for the other.
ExchangeId(n, m) ==
  /\ phase[n] = "exchange" /\ Head(toDial[n]) = m
  /\ Listening(m) /\ accepting[m] # <<>> /\ Head(accepting[m]) = n
  /\ socks' = [socks EXCEPT ![n] = @ \cup {Socket(m, m)}, ![m] = @ \cup {Socket(n, n)}]
  /\ accepting' = [accepting EXCEPT ![m] = Tail(@)]
  /\ toDial' = [toDial EXCEPT ![n] = Tail(@)]
  /\ phase' = [phase EXCEPT ![n] = "dialing"]
  /\ UNCHANGED <<server, listAddr, queue>>

\* The dialed node stops first: an error is logged, the socket made.
ExchangeAlone(n, m) ==
  /\ phase[n] = "exchange" /\ Head(toDial[n]) = m /\ Stopped(m)
  /\ \E id \in IdReceived(m) : socks' = [socks EXCEPT ![n] = @ \cup {Socket(m, id)}]
  /\ toDial' = [toDial EXCEPT ![n] = Tail(@)]
  /\ phase' = [phase EXCEPT ![n] = "dialing"]
  /\ UNCHANGED <<server, listAddr, queue, accepting>>

\* The same at the accepting side.
AcceptStopped(n, m) ==
  /\ Listening(m) /\ accepting[m] # <<>> /\ Head(accepting[m]) = n /\ Stopped(n)
  /\ \E id \in IdReceived(n) : socks' = [socks EXCEPT ![m] = @ \cup {Socket(n, id)}]
  /\ accepting' = [accepting EXCEPT ![m] = Tail(@)]
  /\ UNCHANGED <<server, listAddr, queue, phase, toDial>>

Crash(n) ==
  /\ n \in Failing /\ ~Stopped(n) /\ phase[n] # "off"
  /\ phase' = [phase EXCEPT ![n] = IF @ = "dialed" THEN "crashed" ELSE "gone"]
  /\ UNCHANGED <<server, listAddr, queue, toDial, accepting, socks>>

BootInit ==
  /\ server = "off" /\ listAddr = <<>> /\ queue = <<>>
  /\ phase = [n \in Node |-> "off"]
  /\ toDial = [n \in Node |-> <<>>] /\ accepting = toDial
  /\ socks = [n \in Node |-> {}]

Booting(n) == DialServer(n) \/ GiveUp(n) \/ Listen(n) \/ DialPeer(n)
Meet(n, m) == ExchangeId(n, m) \/ ExchangeAlone(n, m) \/ AcceptStopped(n, m)
BootNext ==
  \/ StartServer
  \/ \E n \in Node : Booting(n) \/ Register(n) \/ ServeStopped(n) \/ Crash(n)
  \/ \E n, m \in Node : Meet(n, m)
-----------------------------------------------------------------------------
\* No two nodes are connected twice, nor a node with itself.
OneSocketPerPair ==
  \A n \in Node : \A s, t \in socks[n] : s.peer # n /\ (s.peer = t.peer => s = t)

\* The number a socket is known by is that of the node at its other end, by
\* whose key the consensus selects whom to send to.  A node that stops in the
\* exchange may be taken for node 0.
RightIds ==
  \A n \in Node : \A s \in socks[n] : s.id = s.peer \/ (Stopped(s.peer) /\ s.id = NodeZero)

\* Both: whatever a node sends to a number goes to that node, once.
SocketsRight == OneSocketPerPair /\ RightIds

\* Every two nodes are connected in the end, in whatever order they start,
\* unless one of them or the server stops.
Connected(n, m) == (\E s \in socks[n] : s.peer = m) /\ (\E s \in socks[m] : s.peer = n)
AllConnected ==
  \A n, m \in Node : n # m =>
    <>(Connected(n, m) \/ Stopped(n) \/ Stopped(m) \/ server = "fatal")
=============================================================================
