---------------------------- MODULE Dealer_proofs ----------------------------
(***************************************************************************)
(* Proofs about the bootstrap and the dealer, for any number of nodes, any *)
(* of which may stop, and any way to start the dealer: two nodes have one  *)
(* socket each for the other and know it by the right number, and the      *)
(* dealer counts what it has not handed over yet.                          *)
(***************************************************************************)
EXTENDS Dealer, FiniteSetTheorems, SequenceTheorems, TLAPS

-----------------------------------------------------------------------------
(***************************************************************************)
(* Queues and lists of addresses: what they hold, and each of it once.     *)
(***************************************************************************)
In(s, x) == \E i \in DOMAIN s : s[i] = x
Distinct(s) == \A i, j \in DOMAIN s : s[i] = s[j] => i = j

LEMMA AppendIn ==
  ASSUME NEW S, NEW s \in Seq(S), NEW e \in S
  PROVE  /\ Append(s, e) \in Seq(S)
         /\ \A x : In(Append(s, e), x) <=> In(s, x) \/ x = e
         /\ Distinct(s) /\ ~In(s, e) => Distinct(Append(s, e))
<1>1. /\ Append(s, e) \in Seq(S) /\ DOMAIN Append(s, e) = 1..Len(s) + 1 /\ DOMAIN s = 1..Len(s)
      /\ Len(s) \in Nat
      /\ \A i \in 1..Len(s) + 1 : Append(s, e)[i] = IF i = Len(s) + 1 THEN e ELSE s[i]
  OBVIOUS
<1>2. \A x : In(Append(s, e), x) <=> In(s, x) \/ x = e
  <2> SUFFICES ASSUME NEW x PROVE In(Append(s, e), x) <=> In(s, x) \/ x = e
    OBVIOUS
  <2>1. CASE x = e
    <3>1. Append(s, e)[Len(s) + 1] = x /\ Len(s) + 1 \in DOMAIN Append(s, e)
      BY <1>1, <2>1
    <3>2. QED BY <2>1, <3>1 DEF In
  <2>2. CASE x # e
    BY <1>1, <2>2 DEF In
  <2>3. QED BY <2>1, <2>2
<1>3. Distinct(s) /\ ~In(s, e) => Distinct(Append(s, e))
  BY <1>1 DEF Distinct, In
<1>4. QED BY <1>1, <1>2, <1>3

LEMMA TailIn ==
  ASSUME NEW S, NEW s \in Seq(S), s # <<>>
  PROVE  /\ Tail(s) \in Seq(S) /\ In(s, Head(s)) /\ Head(s) \in S
         /\ \A x : In(s, x) <=> In(Tail(s), x) \/ x = Head(s)
         /\ Distinct(s) => Distinct(Tail(s)) /\ ~In(Tail(s), Head(s))
<1>1. /\ Tail(s) \in Seq(S) /\ Head(s) = s[1] /\ Len(s) \in Nat /\ Len(s) > 0
      /\ DOMAIN s = 1..Len(s) /\ DOMAIN Tail(s) = 1..Len(s) - 1
      /\ \A i \in 1..Len(s) - 1 : Tail(s)[i] = s[i + 1]
  OBVIOUS
<1>2. \A i \in 2..Len(s) : i - 1 \in DOMAIN Tail(s) /\ Tail(s)[i - 1] = s[i]
  BY <1>1
<1>3. In(s, Head(s)) /\ Head(s) \in S
  BY <1>1 DEF In
<1>4. ASSUME NEW x PROVE In(s, x) <=> In(Tail(s), x) \/ x = Head(s)
  <2>1. ASSUME In(Tail(s), x) PROVE In(s, x)
    <3>1. PICK i \in 1..Len(s) - 1 : s[i + 1] = x
      BY <1>1, <2>1 DEF In
    <3>2. i + 1 \in DOMAIN s
      BY <1>1
    <3>3. QED BY <3>1, <3>2 DEF In
  <2>2. ASSUME In(s, x), x # Head(s) PROVE In(Tail(s), x)
    <3>1. PICK i \in 1..Len(s) : s[i] = x
      BY <1>1, <2>2 DEF In
    <3>2. i \in 2..Len(s)
      BY <1>1, <2>2, <3>1
    <3>3. QED BY <1>2, <3>1, <3>2 DEF In
  <2>3. QED BY <1>3, <2>1, <2>2
<1>5. ASSUME Distinct(s) PROVE Distinct(Tail(s)) /\ ~In(Tail(s), Head(s))
  <2>1. \A i \in 1..Len(s) - 1 : i + 1 \in DOMAIN s /\ i + 1 # 1 /\ 1 \in DOMAIN s
    BY <1>1
  <2>2. Distinct(Tail(s))
    BY <1>1, <1>5, <2>1 DEF Distinct
  <2>3. ~In(Tail(s), Head(s))
    BY <1>1, <1>5, <2>1 DEF Distinct, In
  <2>4. QED BY <2>2, <2>3
<1>6. QED BY <1>1, <1>3, <1>4, <1>5
-----------------------------------------------------------------------------
(***************************************************************************)
(* SocketsRight.  A node dials those that were registered before it, so    *)
(* that of two nodes one dials the other.                                  *)
(***************************************************************************)
\* m was registered before n.
Before(m, n) == \E i, j \in DOMAIN listAddr : i < j /\ listAddr[i] = m /\ listAddr[j] = n
HasSocket(n, m) == \E s \in socks[n] : s.peer = m

Phases == {"off", "failed", "dialed", "listening", "dialing", "exchange", "ready", "crashed", "gone"}
BootShape ==
  /\ listAddr \in Seq(Node) /\ queue \in Seq(Node \cup {Client})
  /\ phase \in [Node -> Phases]
  /\ toDial \in [Node -> Seq(Node)] /\ accepting \in [Node -> Seq(Node)]
  /\ socks \in [Node -> SUBSET [peer : Node, id : Node]]

\* The server registers a node once.
Registering ==
  /\ Distinct(queue) /\ Distinct(listAddr)
  /\ \A n \in Node :
       /\ phase[n] \in {"off", "failed"} => ~In(queue, n) /\ ~In(listAddr, n)
       /\ In(queue, n) => ~In(listAddr, n)
       /\ phase[n] \in {"exchange", "ready", "dialing"} => ~In(queue, n)
       /\ ~In(listAddr, n) => toDial[n] = <<>>

\* What n still dials, it has no socket with yet, nor the other with it.
Dialing(n) ==
  /\ Distinct(toDial[n])
  /\ \A m \in Node : In(toDial[n], m) =>
       /\ Before(m, n)
       /\ ~Stopped(n) =>
            /\ ~HasSocket(n, m) /\ ~HasSocket(m, n)
            /\ In(accepting[m], n) => phase[n] = "exchange" /\ Head(toDial[n]) = m
  /\ phase[n] = "exchange" => toDial[n] # <<>>

Accepting(m) ==
  /\ Distinct(accepting[m])
  /\ \A n \in Node : In(accepting[m], n) => Before(m, n) /\ ~HasSocket(m, n)

Socketed(n) ==
  /\ \A s \in socks[n] : Before(s.peer, n) \/ Before(n, s.peer)
  /\ \A s, t \in socks[n] : s.peer = t.peer => s = t

BootInv ==
  /\ BootShape /\ Registering /\ RightIds
  /\ \A n \in Node : Dialing(n) /\ Accepting(n) /\ Socketed(n)

LEMMA BeforeOnce ==
  ASSUME BootShape, Distinct(listAddr), NEW m, NEW n, Before(m, n)
  PROVE  m # n /\ ~Before(n, m) /\ In(listAddr, m) /\ In(listAddr, n)
<1>1. DOMAIN listAddr \subseteq Nat
  BY DEF BootShape
<1>2. QED BY <1>1 DEF Before, Distinct, In

LEMMA BeforeNew ==
  ASSUME BootShape, NEW n \in Node, listAddr' = Append(listAddr, n)
  PROVE  /\ \A a, b : Before(a, b) => Before(a, b)'
         /\ \A m : In(listAddr, m) => Before(m, n)'
<1>1. /\ DOMAIN listAddr = 1..Len(listAddr) /\ DOMAIN listAddr' = 1..Len(listAddr) + 1
      /\ Len(listAddr) \in Nat
      /\ \A i \in 1..Len(listAddr) + 1 :
           listAddr'[i] = IF i = Len(listAddr) + 1 THEN n ELSE listAddr[i]
  BY DEF BootShape
<1>2. \A a, b : Before(a, b) => Before(a, b)'
  BY <1>1 DEF Before
<1>3. ASSUME NEW m, In(listAddr, m) PROVE Before(m, n)'
  <2>1. PICK i \in 1..Len(listAddr) : listAddr[i] = m
    BY <1>1, <1>3 DEF In
  <2>2. /\ i \in DOMAIN listAddr' /\ Len(listAddr) + 1 \in DOMAIN listAddr' /\ i < Len(listAddr) + 1
        /\ listAddr'[i] = m /\ listAddr'[Len(listAddr) + 1] = n
    BY <1>1, <2>1
  <2>3. QED BY <2>2 DEF Before
<1>4. QED BY <1>2, <1>3

\* Nobody is dialed, accepted or connected by one that is not registered.
LEMMA NotRegistered ==
  ASSUME BootInv, NEW n \in Node, ~In(listAddr, n)
  PROVE  /\ toDial[n] = <<>>
         /\ \A m \in Node : /\ ~In(toDial[m], n) /\ ~In(accepting[m], n) /\ ~In(accepting[n], m)
                            /\ ~HasSocket(n, m) /\ ~HasSocket(m, n)
<1>1. \A m \in Node : ~Before(m, n) /\ ~Before(n, m)
  BY BeforeOnce DEF BootInv, Registering
<1>2. ASSUME NEW m \in Node
      PROVE  /\ ~In(toDial[m], n) /\ ~In(accepting[m], n) /\ ~In(accepting[n], m)
             /\ ~HasSocket(n, m) /\ ~HasSocket(m, n)
  <2>1. Dialing(m) /\ Accepting(m) /\ Accepting(n) /\ Socketed(n) /\ Socketed(m)
    BY DEF BootInv
  <2>2. ~In(toDial[m], n) /\ ~In(accepting[m], n) /\ ~In(accepting[n], m)
    BY <1>1, <2>1 DEF Dialing, Accepting
  <2>3. ~HasSocket(n, m) /\ ~HasSocket(m, n)
    BY <1>1, <2>1 DEF Socketed, HasSocket
  <2>4. QED BY <2>2, <2>3
<1>3. QED BY <1>2 DEF BootInv, Registering

\* A step that leaves addresses, connections and sockets alone.
LEMMA BootStays ==
  ASSUME BootInv, UNCHANGED <<listAddr, toDial, accepting, socks>>,
         queue' \in Seq(Node \cup {Client}), phase' \in [Node -> Phases], Registering',
         \A n \in Node : Stopped(n) => Stopped(n)',
         \A n \in Node : phase'[n] = "exchange" => phase[n] = "exchange",
         \A n \in Node : phase[n] = "exchange" => phase'[n] = "exchange" \/ Stopped(n)'
  PROVE  BootInv'
<1>1. BootShape'
  BY DEF BootInv, BootShape
<1>2. RightIds'
  BY DEF BootInv, BootShape, RightIds
<1>3. ASSUME NEW n \in Node PROVE Dialing(n)' /\ Accepting(n)' /\ Socketed(n)'
  BY DEF BootInv, Dialing, Accepting, Socketed, Before, HasSocket
<1>4. QED BY <1>1, <1>2, <1>3 DEF BootInv

LEMMA PhaseMoves ==
  ASSUME BootInv, NEW n \in Node, StartServer \/ DialServer(n) \/ GiveUp(n) \/ Listen(n) \/ Crash(n)
  PROVE  BootInv'
<1>1. CASE StartServer
  <2>1. Registering' /\ UNCHANGED <<listAddr, queue, phase, toDial, accepting, socks>>
    BY <1>1 DEF StartServer, BootInv, Registering
  <2>2. QED BY <2>1, BootStays DEF BootInv, BootShape, Stopped
<1>2. CASE DialServer(n)
  <2>1. /\ phase[n] = "off" /\ phase' = [phase EXCEPT ![n] = "dialed"]
        /\ queue' = Append(queue, n) /\ UNCHANGED <<listAddr, toDial, accepting, socks>>
    BY <1>2 DEF DialServer
  <2>2. ~In(queue, n) /\ ~In(listAddr, n)
    BY <2>1 DEF BootInv, Registering
  <2>3. /\ queue' \in Seq(Node \cup {Client}) /\ Distinct(queue')
        /\ \A x : In(queue', x) <=> In(queue, x) \/ x = n
    BY <2>1, <2>2, AppendIn DEF BootInv, BootShape, Registering
  <2>4. phase' \in [Node -> Phases] /\ \A m \in Node : phase'[m] = IF m = n THEN "dialed" ELSE phase[m]
    BY <2>1 DEF BootInv, BootShape, Phases
  <2>5. Registering'
    BY <2>1, <2>2, <2>3, <2>4 DEF BootInv, Registering
  <2>6. QED BY <2>1, <2>3, <2>4, <2>5, BootStays DEF Stopped
<1>3. CASE GiveUp(n) \/ Listen(n) \/ Crash(n)
  <2>1. PICK next \in {"failed", "listening", "crashed", "gone"} :
          /\ phase' = [phase EXCEPT ![n] = next]
          /\ next = "listening" => phase[n] = "dialed"
          /\ next = "failed" => phase[n] = "off"
          /\ next \in {"crashed", "gone"} => ~Stopped(n) /\ phase[n] # "off"
    BY <1>3 DEF GiveUp, Listen, Crash
  <2>2. UNCHANGED <<listAddr, queue, toDial, accepting, socks>>
    BY <1>3 DEF GiveUp, Listen, Crash
  <2>3. phase' \in [Node -> Phases] /\ \A m \in Node : phase'[m] = IF m = n THEN next ELSE phase[m]
    BY <2>1 DEF BootInv, BootShape, Phases
  <2>4. Registering'
    BY <2>1, <2>2, <2>3 DEF BootInv, Registering
  <2>5. /\ \A m \in Node : Stopped(m) => Stopped(m)'
        /\ \A m \in Node : phase'[m] = "exchange" => phase[m] = "exchange"
        /\ \A m \in Node : phase[m] = "exchange" => phase'[m] = "exchange" \/ Stopped(m)'
    BY <2>1, <2>3 DEF Stopped
  <2>6. QED BY <2>2, <2>3, <2>4, <2>5, BootStays DEF BootInv, BootShape
<1>4. QED BY <1>1, <1>2, <1>3

\* The node at the head of the queue is not registered yet, and is there once.
LEMMA HeadOfQueue ==
  ASSUME BootInv, NEW n \in Node, queue # <<>>, Head(queue) = n
  PROVE  /\ ~In(listAddr, n) /\ ~In(Tail(queue), n) /\ Distinct(Tail(queue))
         /\ Tail(queue) \in Seq(Node \cup {Client})
         /\ \A x : In(Tail(queue), x) => In(queue, x)
<1>1. queue \in Seq(Node \cup {Client}) /\ Distinct(queue)
  BY DEF BootInv, BootShape, Registering
<1>2. /\ Tail(queue) \in Seq(Node \cup {Client}) /\ In(queue, n)
      /\ \A x : In(queue, x) <=> In(Tail(queue), x) \/ x = n
      /\ Distinct(Tail(queue)) /\ ~In(Tail(queue), n)
  BY <1>1, TailIn
<1>3. QED BY <1>2 DEF BootInv, Registering

LEMMA RegisterKeeps == ASSUME BootInv, NEW n \in Node, Register(n) PROVE BootInv'
<1>1. /\ queue # <<>> /\ Head(queue) = n /\ phase[n] = "listening"
      /\ toDial' = [toDial EXCEPT ![n] = listAddr] /\ listAddr' = Append(listAddr, n)
      /\ queue' = Tail(queue) /\ phase' = [phase EXCEPT ![n] = "dialing"]
      /\ UNCHANGED <<accepting, socks>>
  BY DEF Register, ToSend
<1>2. /\ ~In(listAddr, n) /\ ~In(queue', n) /\ Distinct(queue')
      /\ queue' \in Seq(Node \cup {Client}) /\ \A x : In(queue', x) => In(queue, x)
  BY <1>1, HeadOfQueue
<1>3. /\ listAddr' \in Seq(Node) /\ Distinct(listAddr')
      /\ \A x : In(listAddr', x) <=> In(listAddr, x) \/ x = n
  BY <1>1, <1>2, AppendIn DEF BootInv, BootShape, Registering
<1>4. /\ BootShape'
      /\ \A m \in Node : phase'[m] = IF m = n THEN "dialing" ELSE phase[m]
      /\ \A m \in Node : toDial'[m] = IF m = n THEN listAddr ELSE toDial[m]
  BY <1>1, <1>2, <1>3 DEF BootInv, BootShape, Phases
<1>5. Registering'
  BY <1>1, <1>2, <1>3, <1>4 DEF BootInv, Registering
<1>6. /\ \A a, b : Before(a, b) => Before(a, b)'
      /\ \A m : In(listAddr, m) => Before(m, n)'
  BY <1>1, BeforeNew DEF BootInv
<1>7. RightIds'
  BY <1>1, <1>4 DEF BootInv, BootShape, RightIds, Stopped
<1>8. ASSUME NEW m \in Node PROVE Accepting(m)' /\ Socketed(m)'
  <2>1. Accepting(m)'
    BY <1>1, <1>6 DEF BootInv, BootShape, Accepting, HasSocket
  <2>2. Socketed(m)'
    BY <1>1, <1>6 DEF BootInv, BootShape, Socketed
  <2>3. QED BY <2>1, <2>2
<1>9. ASSUME NEW m \in Node PROVE Dialing(m)'
  <2>1. CASE m = n
    <3>1. Distinct(toDial'[m]) /\ phase'[m] = "dialing" /\ toDial'[m] = listAddr
      BY <1>4, <2>1 DEF BootInv, Registering
    <3>2. \A p \in Node : ~HasSocket(n, p)' /\ ~HasSocket(p, n)' /\ ~In(accepting'[p], n)
      BY <1>1, <1>2, NotRegistered DEF HasSocket
    <3>3. QED BY <1>6, <2>1, <3>1, <3>2 DEF Dialing
  <2>2. CASE m # n
    <3>1. Dialing(m) /\ toDial'[m] = toDial[m] /\ phase'[m] = phase[m]
      BY <1>4, <2>2 DEF BootInv
    <3>2. QED BY <1>1, <1>6, <3>1 DEF Dialing, HasSocket, Stopped
  <2>3. QED BY <2>1, <2>2
<1>10. QED BY <1>4, <1>5, <1>7, <1>8, <1>9 DEF BootInv

LEMMA ServeStoppedKeeps == ASSUME BootInv, NEW n \in Node, ServeStopped(n) PROVE BootInv'
<1>1. /\ queue # <<>> /\ Head(queue) = n /\ Stopped(n) /\ queue' = Tail(queue)
      /\ UNCHANGED <<phase, toDial, accepting, socks>>
      /\ listAddr' = listAddr \/ (phase[n] = "gone" /\ listAddr' = Append(listAddr, n))
  BY DEF ServeStopped
<1>2. /\ ~In(listAddr, n) /\ ~In(queue', n) /\ Distinct(queue')
      /\ queue' \in Seq(Node \cup {Client}) /\ \A x : In(queue', x) => In(queue, x)
  BY <1>1, HeadOfQueue
<1>3. CASE listAddr' = listAddr
  <2>1. Registering'
    BY <1>1, <1>2, <1>3 DEF BootInv, Registering
  <2>2. QED BY <1>1, <1>2, <1>3, <2>1, BootStays DEF BootInv, BootShape, Stopped
<1>4. CASE phase[n] = "gone" /\ listAddr' = Append(listAddr, n)
  <2>1. /\ listAddr' \in Seq(Node) /\ Distinct(listAddr')
        /\ \A x : In(listAddr', x) <=> In(listAddr, x) \/ x = n
    BY <1>2, <1>4, AppendIn DEF BootInv, BootShape, Registering
  <2>2. BootShape' /\ RightIds'
    BY <1>1, <1>2, <2>1 DEF BootInv, BootShape, RightIds, Stopped
  <2>3. Registering'
    BY <1>1, <1>2, <1>4, <2>1 DEF BootInv, Registering
  <2>4. \A a, b : Before(a, b) => Before(a, b)'
    BY <1>4, BeforeNew DEF BootInv
  <2>5. ASSUME NEW m \in Node PROVE Dialing(m)' /\ Accepting(m)' /\ Socketed(m)'
    <3>1. Dialing(m)'
      BY <1>1, <2>4 DEF BootInv, Dialing, HasSocket, Stopped
    <3>2. Accepting(m)' /\ Socketed(m)'
      BY <1>1, <2>4 DEF BootInv, Accepting, Socketed, HasSocket
    <3>3. QED BY <3>1, <3>2
  <2>6. QED BY <2>2, <2>3, <2>5 DEF BootInv
<1>5. QED BY <1>1, <1>3, <1>4

\* The client of the dealer comes and goes in the queue.
LEMMA AskKeepsBoot == ASSUME BootInv, ~In(queue, Client), Ask PROVE BootInv'
<1>1. queue' = Append(queue, Client) /\ UNCHANGED <<listAddr, phase, toDial, accepting, socks>>
  BY DEF Ask
<1>2. /\ queue' \in Seq(Node \cup {Client}) /\ Distinct(queue')
      /\ \A x : In(queue', x) <=> In(queue, x) \/ x = Client
  BY <1>1, AppendIn DEF BootInv, BootShape, Registering
<1>3. Registering'
  BY <1>1, <1>2, BootstrapAssumption DEF BootInv, Registering
<1>4. QED BY <1>1, <1>2, <1>3, BootStays DEF BootInv, BootShape, Stopped

LEMMA AnswerKeepsBoot == ASSUME BootInv, Answer PROVE BootInv' /\ ~In(queue', Client)
<1>1. /\ queue # <<>> /\ Head(queue) = Client /\ queue' = Tail(queue)
      /\ UNCHANGED <<listAddr, phase, toDial, accepting, socks>>
  BY DEF Answer
<1>2. /\ queue' \in Seq(Node \cup {Client}) /\ Distinct(queue') /\ ~In(queue', Client)
      /\ \A x : In(queue', x) => In(queue, x)
  BY <1>1, TailIn DEF BootInv, BootShape, Registering
<1>3. Registering'
  BY <1>1, <1>2 DEF BootInv, Registering
<1>4. QED BY <1>1, <1>2, <1>3, BootStays DEF BootInv, BootShape, Stopped

\* The next address that n dials.
LEMMA NextDialed ==
  ASSUME BootInv, NEW n \in Node, toDial[n] # <<>>
  PROVE  /\ Head(toDial[n]) \in Node /\ In(toDial[n], Head(toDial[n]))
         /\ Before(Head(toDial[n]), n) /\ n # Head(toDial[n]) /\ ~Before(n, Head(toDial[n]))
         /\ Tail(toDial[n]) \in Seq(Node) /\ Distinct(Tail(toDial[n]))
         /\ \A m : In(Tail(toDial[n]), m) => In(toDial[n], m) /\ m # Head(toDial[n])
<1>1. toDial[n] \in Seq(Node) /\ Distinct(toDial[n])
  BY DEF BootInv, BootShape, Dialing
<1>2. /\ Head(toDial[n]) \in Node /\ In(toDial[n], Head(toDial[n]))
      /\ Tail(toDial[n]) \in Seq(Node) /\ Distinct(Tail(toDial[n]))
      /\ \A m : In(Tail(toDial[n]), m) => In(toDial[n], m) /\ m # Head(toDial[n])
  BY <1>1, TailIn
<1>3. Before(Head(toDial[n]), n)
  BY <1>2 DEF BootInv, Dialing
<1>4. QED BY <1>2, <1>3, BeforeOnce DEF BootInv, Registering

LEMMA DialPeerKeeps == ASSUME BootInv, NEW n \in Node, DialPeer(n) PROVE BootInv'
<1>1. phase[n] = "dialing" /\ UNCHANGED <<listAddr, queue, socks>>
  BY DEF DialPeer
<1>2. CASE toDial[n] = <<>>
  <2>1. phase' = [phase EXCEPT ![n] = "ready"] /\ UNCHANGED <<toDial, accepting>>
    BY <1>2 DEF DialPeer
  <2>2. phase' \in [Node -> Phases] /\ \A m \in Node : phase'[m] = IF m = n THEN "ready" ELSE phase[m]
    BY <2>1 DEF BootInv, BootShape, Phases
  <2>3. Registering'
    BY <1>1, <2>1, <2>2 DEF BootInv, Registering
  <2>4. QED BY <1>1, <2>1, <2>2, <2>3, BootStays DEF BootInv, BootShape, Stopped
<1>3. CASE toDial[n] # <<>> /\ Listening(Head(toDial[n]))
  <2> DEFINE m == Head(toDial[n])
  <2>1. /\ phase' = [phase EXCEPT ![n] = "exchange"]
        /\ accepting' = [accepting EXCEPT ![m] = Append(@, n)] /\ UNCHANGED toDial
    BY <1>3 DEF DialPeer
  <2>2. m \in Node /\ In(toDial[n], m) /\ Before(m, n)
    BY <1>3, NextDialed
  <2>3. ~HasSocket(m, n) /\ ~In(accepting[m], n)
    BY <1>1, <2>2 DEF BootInv, Dialing, Stopped
  <2> HIDE DEF m
  <2>4. /\ Append(accepting[m], n) \in Seq(Node) /\ Distinct(Append(accepting[m], n))
        /\ \A x : In(Append(accepting[m], n), x) <=> In(accepting[m], x) \/ x = n
    BY <2>2, <2>3, AppendIn DEF BootInv, BootShape, Accepting
  <2>5. /\ BootShape'
        /\ \A p \in Node : phase'[p] = IF p = n THEN "exchange" ELSE phase[p]
        /\ \A p \in Node : accepting'[p] = IF p = m THEN Append(accepting[m], n) ELSE accepting[p]
    BY <1>1, <2>1, <2>2, <2>4 DEF BootInv, BootShape, Phases
  <2>6. Registering'
    BY <1>1, <2>1, <2>5 DEF BootInv, Registering
  <2>7. RightIds'
    <3>1. \A p \in Node : Stopped(p) => Stopped(p)'
      BY <1>1, <2>5 DEF Stopped
    <3>2. \A p \in Node : \A s \in socks[p] : s.peer \in Node
      BY DEF BootInv, BootShape
    <3>3. QED BY <1>1, <3>1, <3>2 DEF BootInv, RightIds
  <2>8. ASSUME NEW p \in Node PROVE Dialing(p)'
    <3>1. CASE p = n
      <4>1. \A q \in Node : In(toDial[n], q) => ~In(accepting[q], n) /\ ~HasSocket(n, q) /\ ~HasSocket(q, n)
        BY <1>1 DEF BootInv, Dialing, Stopped
      <4>2. \A q \in Node : In(accepting'[q], n) /\ In(toDial[n], q) => q = m
        BY <2>5, <4>1
      <4>3. Dialing(n) /\ Head(toDial[n]) = m /\ phase'[n] = "exchange"
        BY <2>5 DEF BootInv, m
      <4>4. QED BY <1>1, <1>3, <2>1, <3>1, <4>1, <4>2, <4>3 DEF Dialing, Before, HasSocket
    <3>2. CASE p # n
      <4>1. Dialing(p) /\ phase'[p] = phase[p] /\ \A q \in Node : In(accepting'[q], p) => In(accepting[q], p)
        BY <2>4, <2>5, <3>2 DEF BootInv
      <4>2. QED BY <1>1, <2>1, <4>1 DEF Dialing, Before, HasSocket, Stopped
    <3>3. QED BY <3>1, <3>2
  <2>9. ASSUME NEW p \in Node PROVE Accepting(p)' /\ Socketed(p)'
    <3>1. Accepting(p)'
      BY <1>1, <2>2, <2>3, <2>4, <2>5 DEF BootInv, Accepting, Before, HasSocket
    <3>2. Socketed(p)'
      BY <1>1 DEF BootInv, Socketed, Before
    <3>3. QED BY <3>1, <3>2
  <2>10. QED BY <2>5, <2>6, <2>7, <2>8, <2>9 DEF BootInv
<1>4. CASE toDial[n] # <<>> /\ ~Listening(Head(toDial[n]))
  <2>1. toDial' = [toDial EXCEPT ![n] = Tail(@)] /\ UNCHANGED <<phase, accepting>>
    BY <1>4 DEF DialPeer
  <2>2. /\ Tail(toDial[n]) \in Seq(Node) /\ Distinct(Tail(toDial[n]))
        /\ \A m : In(Tail(toDial[n]), m) => In(toDial[n], m)
    BY <1>4, NextDialed
  <2>3. BootShape' /\ \A p \in Node : toDial'[p] = IF p = n THEN Tail(toDial[n]) ELSE toDial[p]
    BY <1>1, <2>1, <2>2 DEF BootInv, BootShape
  <2>4. Registering'
    BY <1>1, <1>4, <2>1, <2>3 DEF BootInv, Registering
  <2>5. RightIds'
    BY <1>1, <2>1 DEF BootInv, RightIds, Stopped
  <2>6. ASSUME NEW p \in Node PROVE Dialing(p)' /\ Accepting(p)' /\ Socketed(p)'
    <3>1. Accepting(p)' /\ Socketed(p)'
      BY <1>1, <2>1 DEF BootInv, Accepting, Socketed, Before, HasSocket
    <3>2. CASE p # n
      <4>1. Dialing(p) /\ toDial'[p] = toDial[p]
        BY <2>3, <3>2 DEF BootInv
      <4>2. phase'[p] = phase[p] /\ (Stopped(p)' <=> Stopped(p)) /\ UNCHANGED <<listAddr, socks, accepting>>
        BY <1>1, <2>1 DEF Stopped
      <4>3. QED BY <3>1, <4>1, <4>2 DEF Dialing, Before, HasSocket
    <3>3. CASE p = n
      <4>1. Dialing(n) /\ toDial'[n] = Tail(toDial[n]) /\ phase'[n] = "dialing"
        BY <1>1, <2>1, <2>3 DEF BootInv
      <4>2. \A q \in Node : In(toDial'[n], q) => ~In(accepting[q], n)
        BY <1>1, <2>2, <4>1 DEF Dialing, Stopped
      <4>3. \A q \in Node : In(toDial'[n], q) =>
              Before(q, n)' /\ ~HasSocket(n, q)' /\ ~HasSocket(q, n)' /\ ~In(accepting'[q], n)
        BY <1>1, <2>1, <2>2, <4>1, <4>2 DEF Dialing, Before, HasSocket, Stopped
      <4>4. QED BY <2>2, <3>1, <3>3, <4>1, <4>3 DEF Dialing, Before, HasSocket, Stopped
    <3>4. QED BY <3>1, <3>2, <3>3
  <2>7. QED BY <2>3, <2>4, <2>5, <2>6 DEF BootInv
<1>5. QED BY <1>2, <1>3, <1>4

\* A step that makes sockets, between n that dials and m that it dials.
New(n, m, p, new) ==
  /\ socks'[p] = socks[p] \cup new /\ \A s, t \in new : s = t
  /\ \A s \in new :
       /\ \/ p = n /\ s.peer = m
          \/ p = m /\ s.peer = n /\ ~In(accepting'[m], n)
       /\ ~HasSocket(p, s.peer)
       /\ s.id = s.peer \/ (Stopped(s.peer) /\ s.id = NodeZero)

LEMMA Connects ==
  ASSUME BootInv, NEW n \in Node, NEW m \in Node, Before(m, n),
         UNCHANGED <<listAddr, queue>>, BootShape',
         \A p \in Node : p # n => phase'[p] = phase[p] /\ toDial'[p] = toDial[p],
         \/ UNCHANGED <<phase, toDial>> /\ Stopped(n)
         \/ /\ phase[n] = "exchange" /\ phase'[n] = "dialing"
            /\ toDial[n] # <<>> /\ m = Head(toDial[n]) /\ toDial'[n] = Tail(toDial[n]),
         \A p \in Node : /\ Distinct(accepting'[p])
                         /\ \A q : In(accepting'[p], q) => In(accepting[p], q),
         \A p \in Node : \E new : New(n, m, p, new)
  PROVE  BootInv'
<1>1. m # n /\ ~Before(n, m) /\ In(listAddr, n)
  BY BeforeOnce DEF BootInv, Registering
<1>2. \A p, q : (Before(p, q)' <=> Before(p, q)) /\ (In(listAddr', p) <=> In(listAddr, p))
  BY DEF Before
<1>3. \A p \in Node : Stopped(p)' <=> Stopped(p)
  BY DEF Stopped
<1>4. \A p, q \in Node : HasSocket(p, q)' =>
        \/ HasSocket(p, q)
        \/ p = n /\ q = m
        \/ p = m /\ q = n /\ ~In(accepting'[m], n)
  BY DEF HasSocket, New
<1>5. Registering'
  BY <1>1 DEF BootInv, Registering
<1>6. RightIds'
  <2>1. ASSUME NEW p \in Node, NEW s \in socks'[p]
        PROVE  s.id = s.peer \/ (Stopped(s.peer) /\ s.id = NodeZero)
    BY <2>1 DEF BootInv, RightIds, New
  <2>2. \A p \in Node : \A s \in socks'[p] : s.peer \in Node
    BY DEF BootShape
  <2>3. QED BY <1>3, <2>1, <2>2 DEF RightIds
<1>7. ASSUME NEW p \in Node PROVE Socketed(p)'
  <2>1. PICK new : New(n, m, p, new)
    OBVIOUS
  <2>2. \A s \in socks'[p] : Before(s.peer, p) \/ Before(p, s.peer)
    BY <2>1 DEF BootInv, Socketed, New
  <2>3. \A s, t \in socks'[p] : s.peer = t.peer => s = t
    BY <2>1 DEF BootInv, Socketed, New, HasSocket
  <2>4. QED BY <1>2, <2>2, <2>3 DEF Socketed
<1>8. ASSUME NEW p \in Node PROVE Accepting(p)'
  <2>1. ASSUME NEW q \in Node, In(accepting'[p], q) PROVE Before(p, q) /\ ~HasSocket(p, q)'
    <3>1. In(accepting[p], q)
      BY <2>1
    <3>2. Before(p, q) /\ ~HasSocket(p, q)
      BY <3>1 DEF BootInv, Accepting
    <3>3. QED BY <1>1, <1>4, <2>1, <3>2
  <2>2. QED BY <1>2, <2>1 DEF Accepting
<1>9. ASSUME NEW p \in Node PROVE Dialing(p)'
  <2>1. CASE p # n
    <3>1. Dialing(p) /\ phase'[p] = phase[p] /\ toDial'[p] = toDial[p]
      BY <2>1 DEF BootInv
    <3>2. ASSUME NEW q \in Node, In(toDial[p], q), HasSocket(p, q)' \/ HasSocket(q, p)'
          PROVE  HasSocket(p, q) \/ HasSocket(q, p)
      <4>1. Before(q, p)
        BY <3>1, <3>2 DEF Dialing
      <4>2. QED BY <1>1, <1>4, <2>1, <3>2, <4>1
    <3>3. QED BY <1>2, <1>3, <3>1, <3>2 DEF Dialing
  <2>2. CASE p = n /\ Stopped(n) /\ UNCHANGED <<phase, toDial>>
    <3>1. Dialing(n)
      BY DEF BootInv
    <3>2. Stopped(n)'
      BY <1>3, <2>2
    <3>3. QED BY <1>2, <2>2, <3>1, <3>2 DEF Dialing
  <2>3. CASE /\ p = n /\ phase[n] = "exchange" /\ phase'[n] = "dialing"
             /\ toDial[n] # <<>> /\ m = Head(toDial[n]) /\ toDial'[n] = Tail(toDial[n])
    <3>1. Dialing(n) /\ ~Stopped(n)
      BY <2>3 DEF BootInv, Stopped
    <3>2. Distinct(toDial'[n]) /\ \A q : In(toDial'[n], q) => In(toDial[n], q) /\ q # m
      BY <2>3, NextDialed
    <3>3. \A q \in Node : In(toDial'[n], q) =>
            Before(q, n) /\ ~HasSocket(n, q) /\ ~HasSocket(q, n) /\ ~In(accepting'[q], n)
      BY <2>3, <3>1, <3>2 DEF Dialing
    <3>4. \A q \in Node : In(toDial'[n], q) => ~HasSocket(n, q)' /\ ~HasSocket(q, n)'
      BY <1>1, <1>4, <3>2, <3>3
    <3>5. QED BY <1>2, <2>3, <3>2, <3>3, <3>4 DEF Dialing
  <2>4. QED BY <2>1, <2>2, <2>3
<1>10. QED BY <1>5, <1>6, <1>7, <1>8, <1>9 DEF BootInv

LEMMA SocketType ==
  ASSUME NEW n \in Node
  PROVE  \A id \in IdReceived(n) \cup {n} :
           LET s == Socket(n, id)
           IN /\ s \in [peer : Node, id : Node] /\ s.peer = n
              /\ s.id = n \/ (Stopped(n) /\ s.id = NodeZero)
  BY BootstrapAssumption DEF Socket, IdReceived

\* What a node that accepts takes from its queue.
LEMMA NextAccepted ==
  ASSUME BootInv, NEW m \in Node, accepting[m] # <<>>, NEW n \in Node, Head(accepting[m]) = n
  PROVE  /\ In(accepting[m], n) /\ Before(m, n) /\ ~HasSocket(m, n)
         /\ Tail(accepting[m]) \in Seq(Node) /\ Distinct(Tail(accepting[m]))
         /\ ~In(Tail(accepting[m]), n)
         /\ \A q : In(Tail(accepting[m]), q) => In(accepting[m], q)
<1>1. accepting[m] \in Seq(Node) /\ Distinct(accepting[m])
  BY DEF BootInv, BootShape, Accepting
<1>2. /\ In(accepting[m], n) /\ Tail(accepting[m]) \in Seq(Node)
      /\ Distinct(Tail(accepting[m])) /\ ~In(Tail(accepting[m]), n)
      /\ \A q : In(Tail(accepting[m]), q) => In(accepting[m], q)
  BY <1>1, TailIn
<1>3. QED BY <1>2 DEF BootInv, Accepting

LEMMA ExchangeIdKeeps ==
  ASSUME BootInv, NEW n \in Node, NEW m \in Node, ExchangeId(n, m)
  PROVE  BootInv'
<1>1. /\ phase[n] = "exchange" /\ Head(toDial[n]) = m
      /\ accepting[m] # <<>> /\ Head(accepting[m]) = n
      /\ socks' = [socks EXCEPT ![n] = @ \cup {Socket(m, m)}, ![m] = @ \cup {Socket(n, n)}]
      /\ accepting' = [accepting EXCEPT ![m] = Tail(@)]
      /\ toDial' = [toDial EXCEPT ![n] = Tail(@)]
      /\ phase' = [phase EXCEPT ![n] = "dialing"]
      /\ UNCHANGED <<listAddr, queue>>
  BY DEF ExchangeId
<1>2. toDial[n] # <<>> /\ ~Stopped(n)
  BY <1>1 DEF BootInv, Dialing, Stopped
<1>3. Before(m, n) /\ In(toDial[n], m) /\ Tail(toDial[n]) \in Seq(Node) /\ m # n
  BY <1>1, <1>2, NextDialed
<1>4. ~HasSocket(n, m) /\ ~HasSocket(m, n)
  BY <1>2, <1>3 DEF BootInv, Dialing
<1>5. /\ Tail(accepting[m]) \in Seq(Node) /\ Distinct(Tail(accepting[m]))
      /\ ~In(Tail(accepting[m]), n) /\ \A q : In(Tail(accepting[m]), q) => In(accepting[m], q)
  BY <1>1, NextAccepted
<1>6. /\ \A p \in Node : phase'[p] = IF p = n THEN "dialing" ELSE phase[p]
      /\ \A p \in Node : toDial'[p] = IF p = n THEN Tail(toDial[n]) ELSE toDial[p]
      /\ \A p \in Node : accepting'[p] = IF p = m THEN Tail(accepting[m]) ELSE accepting[p]
      /\ socks'[n] = socks[n] \cup {Socket(m, m)} /\ socks'[m] = socks[m] \cup {Socket(n, n)}
      /\ \A p \in Node \ {n, m} : socks'[p] = socks[p] \cup {}
  BY <1>1, <1>3 DEF BootInv, BootShape
<1>7. BootShape'
  <2> DEFINE Socks == SUBSET [peer : Node, id : Node]
  <2>1. /\ socks \in [Node -> Socks] /\ {Socket(m, m)} \in Socks /\ {Socket(n, n)} \in Socks
        /\ \A s, t \in Socks : s \cup t \in Socks
    BY SocketType DEF BootInv, BootShape
  <2> HIDE DEF Socks
  <2>2. socks' \in [Node -> Socks]
    BY <1>1, <1>3, <2>1
  <2>3. QED BY <1>1, <1>3, <1>5, <2>2 DEF BootInv, BootShape, Phases, Socks
<1>8. ASSUME NEW p \in Node PROVE \E new : New(n, m, p, new)
  <2>1. CASE p = n
    <3>1. New(n, m, n, {Socket(m, m)})
      BY <1>4, <1>6, SocketType DEF New
    <3>2. QED BY <2>1, <3>1
  <2>2. CASE p = m
    <3>1. New(n, m, m, {Socket(n, n)})
      BY <1>4, <1>5, <1>6, SocketType DEF New
    <3>2. QED BY <2>2, <3>1
  <2>3. CASE p \notin {n, m}
    <3>1. New(n, m, p, {})
      BY <1>6, <2>3 DEF New
    <3>2. QED BY <3>1
  <2>4. QED BY <2>1, <2>2, <2>3
<1>9. \A p \in Node : /\ Distinct(accepting'[p])
                      /\ \A q : In(accepting'[p], q) => In(accepting[p], q)
  BY <1>5, <1>6 DEF BootInv, Accepting
<1>10. QED BY <1>1, <1>2, <1>3, <1>6, <1>7, <1>8, <1>9, Connects

LEMMA ExchangeAloneKeeps ==
  ASSUME BootInv, NEW n \in Node, NEW m \in Node, ExchangeAlone(n, m)
  PROVE  BootInv'
<1>0. PICK id \in IdReceived(m) : socks' = [socks EXCEPT ![n] = @ \cup {Socket(m, id)}]
  BY DEF ExchangeAlone
<1>1. /\ phase[n] = "exchange" /\ Head(toDial[n]) = m
      /\ socks' = [socks EXCEPT ![n] = @ \cup {Socket(m, id)}]
      /\ toDial' = [toDial EXCEPT ![n] = Tail(@)]
      /\ phase' = [phase EXCEPT ![n] = "dialing"]
      /\ UNCHANGED <<listAddr, queue, accepting>>
  BY <1>0 DEF ExchangeAlone
<1>2. toDial[n] # <<>> /\ ~Stopped(n)
  BY <1>1 DEF BootInv, Dialing, Stopped
<1>3. Before(m, n) /\ In(toDial[n], m) /\ Tail(toDial[n]) \in Seq(Node) /\ m # n
  BY <1>1, <1>2, NextDialed
<1>4. ~HasSocket(n, m)
  BY <1>2, <1>3 DEF BootInv, Dialing
<1>5. /\ \A p \in Node : phase'[p] = IF p = n THEN "dialing" ELSE phase[p]
      /\ \A p \in Node : toDial'[p] = IF p = n THEN Tail(toDial[n]) ELSE toDial[p]
      /\ socks'[n] = socks[n] \cup {Socket(m, id)}
      /\ \A p \in Node \ {n} : socks'[p] = socks[p] \cup {}
  BY <1>1 DEF BootInv, BootShape
<1>6. BootShape'
  <2>1. socks' \in [Node -> SUBSET [peer : Node, id : Node]]
    BY <1>1, SocketType DEF BootInv, BootShape
  <2>2. QED BY <1>1, <1>3, <2>1 DEF BootInv, BootShape, Phases
<1>7. ASSUME NEW p \in Node PROVE \E new : New(n, m, p, new)
  <2>1. CASE p = n
    <3>1. New(n, m, n, {Socket(m, id)})
      BY <1>4, <1>5, SocketType DEF New
    <3>2. QED BY <2>1, <3>1
  <2>2. CASE p # n
    <3>1. New(n, m, p, {})
      BY <1>5, <2>2 DEF New
    <3>2. QED BY <3>1
  <2>3. QED BY <2>1, <2>2
<1>8. \A p \in Node : /\ Distinct(accepting'[p])
                      /\ \A q : In(accepting'[p], q) => In(accepting[p], q)
  BY <1>1 DEF BootInv, Accepting
<1>9. QED BY <1>1, <1>2, <1>3, <1>5, <1>6, <1>7, <1>8, Connects

LEMMA AcceptStoppedKeeps ==
  ASSUME BootInv, NEW n \in Node, NEW m \in Node, AcceptStopped(n, m)
  PROVE  BootInv'
<1>0. PICK id \in IdReceived(n) : socks' = [socks EXCEPT ![m] = @ \cup {Socket(n, id)}]
  BY DEF AcceptStopped
<1>1. /\ accepting[m] # <<>> /\ Head(accepting[m]) = n /\ Stopped(n)
      /\ socks' = [socks EXCEPT ![m] = @ \cup {Socket(n, id)}]
      /\ accepting' = [accepting EXCEPT ![m] = Tail(@)]
      /\ UNCHANGED <<listAddr, queue, phase, toDial>>
  BY <1>0 DEF AcceptStopped
<1>2. /\ Before(m, n) /\ ~HasSocket(m, n)
      /\ Tail(accepting[m]) \in Seq(Node) /\ Distinct(Tail(accepting[m]))
      /\ ~In(Tail(accepting[m]), n) /\ \A q : In(Tail(accepting[m]), q) => In(accepting[m], q)
  BY <1>1, NextAccepted
<1>3. /\ \A p \in Node : accepting'[p] = IF p = m THEN Tail(accepting[m]) ELSE accepting[p]
      /\ socks'[m] = socks[m] \cup {Socket(n, id)}
      /\ \A p \in Node \ {m} : socks'[p] = socks[p] \cup {}
  BY <1>1 DEF BootInv, BootShape
<1>4. BootShape'
  <2>1. socks' \in [Node -> SUBSET [peer : Node, id : Node]]
    BY <1>1, SocketType DEF BootInv, BootShape
  <2>2. QED BY <1>1, <1>2, <2>1 DEF BootInv, BootShape
<1>5. ASSUME NEW p \in Node PROVE \E new : New(n, m, p, new)
  <2>1. CASE p = m
    <3>1. New(n, m, m, {Socket(n, id)})
      BY <1>2, <1>3, SocketType DEF New
    <3>2. QED BY <2>1, <3>1
  <2>2. CASE p # m
    <3>1. New(n, m, p, {})
      BY <1>3, <2>2 DEF New
    <3>2. QED BY <3>1
  <2>3. QED BY <2>1, <2>2
<1>6. \A p \in Node : /\ Distinct(accepting'[p])
                      /\ \A q : In(accepting'[p], q) => In(accepting[p], q)
  BY <1>2, <1>3 DEF BootInv, Accepting
<1>7. QED BY <1>1, <1>2, <1>4, <1>5, <1>6, Connects

LEMMA BootInitial == BootInit => BootInv
<1> SUFFICES ASSUME BootInit PROVE BootInv
  OBVIOUS
<1>1. /\ listAddr = <<>> /\ queue = <<>> /\ phase = [n \in Node |-> "off"]
      /\ toDial = [n \in Node |-> <<>>] /\ accepting = toDial /\ socks = [n \in Node |-> {}]
  BY DEF BootInit
<1>2. BootShape
  BY <1>1 DEF BootShape, Phases
<1>3. \A x : ~In(<<>>, x)
  BY DEF In
<1>4. Distinct(<<>>)
  BY DEF Distinct
<1>5. Registering
  BY <1>1, <1>3, <1>4 DEF Registering
<1>6. RightIds
  BY <1>1 DEF RightIds
<1>7. ASSUME NEW n \in Node PROVE Dialing(n) /\ Accepting(n) /\ Socketed(n)
  BY <1>1, <1>3, <1>4 DEF Dialing, Accepting, Socketed
<1>8. QED BY <1>2, <1>5, <1>6, <1>7 DEF BootInv

LEMMA BootStep == ASSUME BootInv, BootNext PROVE BootInv'
<1>1. ASSUME NEW n \in Node, Booting(n) \/ Register(n) \/ ServeStopped(n) \/ Crash(n) PROVE BootInv'
  BY <1>1, PhaseMoves, DialPeerKeeps, RegisterKeeps, ServeStoppedKeeps DEF Booting
<1>2. ASSUME NEW n \in Node, NEW m \in Node, Meet(n, m) PROVE BootInv'
  BY <1>2, ExchangeIdKeeps, ExchangeAloneKeeps, AcceptStoppedKeeps DEF Meet
<1>3. CASE StartServer
  BY <1>3, PhaseMoves, BootstrapAssumption
<1>4. QED BY <1>1, <1>2, <1>3 DEF BootNext

LEMMA BootInvIsRight == BootInv => SocketsRight
<1> SUFFICES ASSUME BootInv PROVE SocketsRight
  OBVIOUS
<1>1. ASSUME NEW n \in Node, NEW s \in socks[n], NEW t \in socks[n]
      PROVE  s.peer # n /\ (s.peer = t.peer => s = t)
  <2>1. Before(s.peer, n) \/ Before(n, s.peer)
    BY DEF BootInv, Socketed
  <2>2. s.peer # n
    BY <2>1, BeforeOnce DEF BootInv, Registering
  <2>3. QED BY <2>2 DEF BootInv, Socketed
<1>2. QED BY <1>1 DEF SocketsRight, OneSocketPerPair, BootInv
-----------------------------------------------------------------------------
(***************************************************************************)
(* The dealer.  What it decodes goes from started to sending, to the loop, *)
(* to a channel, to a contact.                                             *)
(***************************************************************************)
Early == {"start", "asked", "connect", "fatal"}
Mains == Early \cup {"connected", "ended", "noContact", "noChoice", "negative", "outOfRange",
                     "chanMsg"}

DealShape ==
  /\ start \in Starts /\ main \in Mains
  /\ nbAsked \in 0..MaxAsk /\ (main = "start" => nbAsked < MaxAsk)
  /\ contacts \in Seq(Node)
  /\ nbDecoded \in 0..Len(input) /\ prio \in BOOLEAN
  /\ started \subseteq 1..nbDecoded /\ sending \subseteq Message /\ IsFiniteSet(sending)
  /\ \A m \in sending : m.tx \notin started /\ m.tx \in 1..nbDecoded
  /\ loop = Idle \/ loop \in [step : {"hand"}, msg : Message, to : 1..Len(contacts)]
  /\ waiter \in Int
  /\ main \in Early =>
       /\ channel = <<>> /\ sock = <<>> /\ delivered = <<>>
       /\ started = {} /\ sending = {} /\ loop = Idle /\ waiter = 0
  /\ main \notin Early =>
       /\ channel \in [DOMAIN contacts -> Seq(Message)]
       /\ sock \in [DOMAIN contacts -> {"select", "remove", "drain"}]
       /\ delivered \in [DOMAIN contacts -> Seq(Message)]
  /\ \A i \in DOMAIN channel : Len(channel[i]) <= NbMessChan
  /\ In(queue, Client) => main = "asked" \/ (main = "fatal" /\ server = "fatal")

\* Where the priority that the client gave a message is.
Kept(m) == input[m.tx] => m.priority
DealPriority ==
  /\ \A t \in 1..nbDecoded : input[t] => prio
  /\ \A m \in sending : Kept(m)
  /\ loop # Idle => Kept(loop.msg)
  /\ \A i \in DOMAIN channel : \A j \in DOMAIN channel[i] : Kept(channel[i][j])
  /\ \A i \in DOMAIN delivered : \A j \in DOMAIN delivered[i] : Kept(delivered[i][j])

\* With as many contacts as it asked for, the WaitGroup is what it still has to
\* hand over; with fewer it is that at least, as each message adds more than it
\* is handed over.
Load ==
  (Cardinality(started) + Cardinality(sending)) * Copies + NbHanding + Cardinality(InChannels)
DealCount ==
  /\ Copies <= Added => waiter >= Load
  /\ Copies = Added => waiter = Load
  /\ main = "negative" => Copies > Added

\* Only the sockets of contacts that have stopped ask to be removed.
DealStops == FirstHarmless /\ \A i \in DOMAIN sock : sock[i] # "select" => Stopped(contacts[i])

DealIInv == DealShape /\ DealPriority /\ DealCount /\ DealStops

LEMMA StartType ==
  ASSUME DealShape
  PROVE  /\ nbOfNode \in Nat /\ randomDistrib \in BOOLEAN /\ input \in Seq(BOOLEAN)
         /\ Messages = 1..Len(input) /\ Len(input) \in Nat
         /\ Added \in Nat /\ Copies \in Nat /\ Len(contacts) \in Nat
         /\ NbMessChan \in Nat /\ NbMessChan > 0
<1>1. start \in [nbOfNode : Nat, randomDistrib : BOOLEAN, input : Seq(BOOLEAN)]
  BY DealerAssumption DEF DealShape
<1>2. contacts \in Seq(Node)
  BY DEF DealShape
<1>3. QED
  BY <1>1, <1>2, DealerAssumption
  DEF nbOfNode, randomDistrib, input, Messages, Added, Copies

\* The sizes that Load adds up.
LEMMA LoadType ==
  ASSUME DealShape
  PROVE  /\ IsFiniteSet(started) /\ Cardinality(started) \in Nat
         /\ Cardinality(sending) \in Nat /\ NbHanding \in Nat
         /\ IsFiniteSet(InChannels) /\ Cardinality(InChannels) \in Nat
         /\ Load \in Nat
<1>1. nbDecoded \in Nat /\ IsFiniteSet(1..nbDecoded)
  BY StartType, FS_Interval DEF DealShape
<1>2. IsFiniteSet(started) /\ Cardinality(started) \in Nat
  BY <1>1, FS_Subset, FS_CardinalityType DEF DealShape
<1>3. Cardinality(sending) \in Nat
  BY FS_CardinalityType DEF DealShape
<1>4. NbHanding \in Nat
  <2>1. CASE loop = Idle
    BY <2>1 DEF NbHanding
  <2>2. CASE loop # Idle
    <3>1. loop.to \in 1..Len(contacts)
      BY <2>2 DEF DealShape
    <3>2. QED BY <2>2, <3>1, StartType DEF NbHanding
  <2>3. QED BY <2>1, <2>2
<1>5. IsFiniteSet(DOMAIN channel)
  <2>1. IsFiniteSet(1..Len(contacts)) /\ DOMAIN contacts = 1..Len(contacts)
    BY StartType, FS_Interval DEF DealShape
  <2>2. IsFiniteSet({})
    BY FS_EmptySet
  <2>3. DOMAIN channel = DOMAIN contacts \/ DOMAIN channel = {}
    BY DEF DealShape
  <2>4. QED BY <2>1, <2>2, <2>3
<1>6. IsFiniteSet((DOMAIN channel) \X (1..NbMessChan))
  <2>1. IsFiniteSet(1..NbMessChan)
    BY StartType, FS_Interval
  <2>2. QED BY <1>5, <2>1, FS_Product
<1>7. IsFiniteSet(InChannels) /\ Cardinality(InChannels) \in Nat
  BY <1>6, FS_Subset, FS_CardinalityType DEF InChannels
<1>8. \A a, b, c \in Nat : (a + b) * c \in Nat
  OBVIOUS
<1>9. Load \in Nat
  <2>1. (Cardinality(started) + Cardinality(sending)) * Copies \in Nat
    BY <1>2, <1>3, <1>8, StartType
  <2>2. QED BY <1>4, <1>7, <2>1 DEF Load
<1>10. QED BY <1>2, <1>3, <1>4, <1>7, <1>9

LEMMA ChannelGrows ==
  ASSUME DealShape, NEW i \in DOMAIN channel, NEW m, channel[i] \in Seq(Message), HasPlace(i),
         channel' = [channel EXCEPT ![i] = Append(@, m)]
  PROVE  Cardinality(InChannels') = Cardinality(InChannels) + 1
<1> DEFINE last == <<i, Len(channel[i]) + 1>>
<1>1. /\ DOMAIN channel' = DOMAIN channel
      /\ DOMAIN channel[i] = 1..Len(channel[i]) /\ Len(channel[i]) \in Nat
      /\ DOMAIN channel'[i] = 1..Len(channel[i]) + 1
      /\ \A k \in DOMAIN channel \ {i} : channel'[k] = channel[k]
      /\ Len(channel[i]) + 1 \in 1..NbMessChan
  BY StartType DEF HasPlace
<1>2. last \notin InChannels
  BY <1>1 DEF InChannels
<1>3. InChannels' = InChannels \cup {last}
  <2>1. ASSUME NEW p \in (DOMAIN channel) \X (1..NbMessChan)
        PROVE  p[2] \in DOMAIN channel'[p[1]] <=> p[2] \in DOMAIN channel[p[1]] \/ p = last
    BY <1>1
  <2>2. last \in (DOMAIN channel) \X (1..NbMessChan)
    BY <1>1
  <2>3. InChannels' = {p \in (DOMAIN channel) \X (1..NbMessChan) : p[2] \in DOMAIN channel'[p[1]]}
    BY <1>1 DEF InChannels
  <2> HIDE DEF last
  <2>4. QED BY <2>1, <2>2, <2>3 DEF InChannels
<1>4. QED BY <1>2, <1>3, LoadType, FS_AddElement

LEMMA ChannelShrinks ==
  ASSUME DealShape, NEW i \in DOMAIN channel, channel[i] \in Seq(Message), channel[i] # <<>>,
         channel' = [channel EXCEPT ![i] = Tail(@)]
  PROVE  Cardinality(InChannels') = Cardinality(InChannels) - 1
<1> DEFINE last == <<i, Len(channel[i])>>
<1>1. /\ DOMAIN channel' = DOMAIN channel
      /\ DOMAIN channel[i] = 1..Len(channel[i]) /\ Len(channel[i]) \in Nat /\ Len(channel[i]) > 0
      /\ DOMAIN channel'[i] = 1..Len(channel[i]) - 1
      /\ \A k \in DOMAIN channel \ {i} : channel'[k] = channel[k]
      /\ Len(channel[i]) \in 1..NbMessChan
  <2>1. /\ DOMAIN channel[i] = 1..Len(channel[i]) /\ Len(channel[i]) \in Nat
        /\ Len(channel[i]) > 0 /\ DOMAIN Tail(channel[i]) = 1..Len(channel[i]) - 1
    OBVIOUS
  <2>2. /\ DOMAIN channel' = DOMAIN channel /\ channel'[i] = Tail(channel[i])
        /\ \A k \in DOMAIN channel \ {i} : channel'[k] = channel[k]
    OBVIOUS
  <2>3. Len(channel[i]) <= NbMessChan
    BY DEF DealShape
  <2>4. QED BY <2>1, <2>2, <2>3, StartType
<1>2. last \in InChannels
  BY <1>1 DEF InChannels
<1>3. InChannels' = InChannels \ {last}
  <2>1. ASSUME NEW p \in (DOMAIN channel) \X (1..NbMessChan)
        PROVE  p[2] \in DOMAIN channel'[p[1]] <=> p[2] \in DOMAIN channel[p[1]] /\ p # last
    BY <1>1
  <2>3. InChannels' = {p \in (DOMAIN channel) \X (1..NbMessChan) : p[2] \in DOMAIN channel'[p[1]]}
    BY <1>1 DEF InChannels
  <2> HIDE DEF last
  <2>4. QED BY <2>1, <2>3 DEF InChannels
<1>4. QED BY <1>2, <1>3, LoadType, FS_RemoveElement

\* What the dealer sees of the bootstrap: who has stopped, and its place in the queue.
LEMMA BootStable ==
  ASSUME BootInv, BootNext
  PROVE  /\ \A n \in Node : Stopped(n) => Stopped(n)'
         /\ In(queue', Client) => In(queue, Client)
         /\ server = "fatal" => server' = "fatal"
<1>1. queue \in Seq(Node \cup {Client}) /\ phase \in [Node -> Phases]
  BY DEF BootInv, BootShape
<1>2. ASSUME NEW n \in Node, NEW next, phase' = [phase EXCEPT ![n] = next], ~Stopped(n)
      PROVE  \A m \in Node : Stopped(m) => Stopped(m)'
  BY <1>1, <1>2 DEF Stopped
<1>3. ASSUME queue # <<>>, queue' = Tail(queue) PROVE In(queue', Client) => In(queue, Client)
  BY <1>1, <1>3, TailIn
<1>4. ASSUME NEW n \in Node, queue' = Append(queue, n) PROVE In(queue', Client) => In(queue, Client)
  BY <1>1, <1>4, AppendIn, BootstrapAssumption
<1>5. CASE StartServer
  BY <1>5 DEF StartServer, Stopped
<1>6. ASSUME NEW n \in Node, Booting(n) \/ Register(n) \/ ServeStopped(n) \/ Crash(n)
      PROVE  /\ \A m \in Node : Stopped(m) => Stopped(m)'
             /\ In(queue', Client) => In(queue, Client)
             /\ server = "fatal" => server' = "fatal"
  <2>1. CASE DialServer(n)
    BY <1>2, <1>4, <2>1 DEF DialServer, Stopped
  <2>2. CASE GiveUp(n) \/ Listen(n) \/ DialPeer(n) \/ Crash(n)
    <3>1. UNCHANGED <<server, queue>> /\ (UNCHANGED phase \/ (~Stopped(n) /\ \E next : phase' = [phase EXCEPT ![n] = next]))
      BY <2>2 DEF GiveUp, Listen, DialPeer, Crash, Stopped
    <3>2. QED BY <1>2, <3>1 DEF Stopped
  <2>3. CASE Register(n)
    BY <1>2, <1>3, <2>3 DEF Register, Stopped
  <2>4. CASE ServeStopped(n)
    BY <1>3, <2>4 DEF ServeStopped, Stopped
  <2>5. QED BY <1>6, <2>1, <2>2, <2>3, <2>4 DEF Booting
<1>7. ASSUME NEW n \in Node, NEW m \in Node, Meet(n, m)
      PROVE  /\ \A p \in Node : Stopped(p) => Stopped(p)'
             /\ In(queue', Client) => In(queue, Client)
             /\ server = "fatal" => server' = "fatal"
  <2>1. UNCHANGED <<server, queue>> /\ (UNCHANGED phase \/ (~Stopped(n) /\ phase' = [phase EXCEPT ![n] = "dialing"]))
    BY <1>7 DEF Meet, ExchangeId, ExchangeAlone, AcceptStopped, Stopped
  <2>2. QED BY <1>2, <2>1 DEF Stopped
<1>8. QED BY <1>5, <1>6, <1>7 DEF BootNext

\* A step that leaves what the dealer holds alone.
LEMMA DealStays ==
  ASSUME DealIInv, UNCHANGED <<mainVars, dealVars, loopVars>>,
         \A n \in Node : Stopped(n) => Stopped(n)', In(queue', Client) => In(queue, Client),
         server = "fatal" => server' = "fatal"
  PROVE  DealIInv'
<1>1. DealShape' /\ DealPriority'
  BY DEF DealIInv, DealShape, DealPriority, Kept, mainVars, dealVars, loopVars, nbOfNode,
         randomDistrib, input, Message, Messages
<1>2. DealCount'
  BY DEF DealIInv, DealCount, Load, Copies, Added, NbHanding, InChannels, mainVars, dealVars,
         loopVars, nbOfNode, randomDistrib
<1>3. DealStops'
  <2>1. \A i \in DOMAIN contacts : contacts[i] \in Node
    BY DEF DealIInv, DealShape
  <2>2. DOMAIN sock = {} \/ DOMAIN sock = DOMAIN contacts
    BY DEF DealIInv, DealShape
  <2>3. UNCHANGED <<main, contacts, sock>>
    BY DEF mainVars, loopVars
  <2>4. \A i \in 2..Len(contacts) : i \in DOMAIN contacts
    BY DEF DealIInv, DealShape
  <2>5. QED BY <2>1, <2>2, <2>3, <2>4 DEF DealIInv, DealStops, FirstHarmless
<1>4. QED BY <1>1, <1>2, <1>3 DEF DealIInv

LEMMA AskKeeps == ASSUME DealIInv, BootShape, Ask PROVE DealIInv'
<1>1. /\ main = "start" /\ main' = "asked" /\ queue' = Append(queue, Client)
      /\ nbAsked' = nbAsked + 1 /\ UNCHANGED <<phase, start, contacts, dealVars, loopVars>>
  BY DEF Ask
<1>2. nbAsked' \in 0..MaxAsk
  BY <1>1, DealerAssumption DEF DealIInv, DealShape
<1>3. DealShape'
  BY <1>1, <1>2 DEF DealIInv, DealShape, dealVars, loopVars, input, Message, Messages, Mains, Early
<1>4. DealPriority'
  BY <1>1 DEF DealIInv, DealPriority, Kept, dealVars, loopVars, input
<1>5. DealCount'
  BY <1>1 DEF DealIInv, DealCount, Load, Copies, Added, NbHanding, InChannels, dealVars,
             loopVars, nbOfNode, randomDistrib
<1>6. DealStops'
  BY <1>1 DEF DealIInv, DealStops, DealShape, FirstHarmless, loopVars, Early
<1>7. QED BY <1>3, <1>4, <1>5, <1>6 DEF DealIInv

LEMMA AskFailsKeeps == ASSUME DealIInv, AskFails PROVE DealIInv'
<1>1. /\ main \in {"start", "asked"} /\ main' = "fatal"
      /\ main = "start" => ~In(queue, Client)
      /\ main = "asked" => server = "fatal"
      /\ UNCHANGED <<queue, server, phase, start, nbAsked, contacts, dealVars, loopVars>>
  BY DEF AskFails, bootVars, DealIInv, DealShape
<1>2. DealShape'
  BY <1>1 DEF DealIInv, DealShape, In, dealVars, loopVars, input, Message, Messages, Mains, Early
<1>3. DealPriority'
  BY <1>1 DEF DealIInv, DealPriority, Kept, dealVars, loopVars, input
<1>4. DealCount'
  BY <1>1 DEF DealIInv, DealCount, Load, Copies, Added, NbHanding, InChannels, dealVars,
             loopVars, nbOfNode, randomDistrib
<1>5. DealStops'
  BY <1>1 DEF DealIInv, DealStops, DealShape, FirstHarmless, loopVars, Early, Stopped
<1>6. QED BY <1>2, <1>3, <1>4, <1>5 DEF DealIInv

LEMMA AnswerKeeps == ASSUME DealIInv, BootInv, Answer PROVE DealIInv'
<1>1. /\ queue # <<>> /\ Head(queue) = Client /\ queue' = Tail(queue) /\ contacts' = listAddr
      /\ server = "on"
      /\ main' \in {"connect", "fatal", "start"} /\ (main' = "start" => nbAsked # MaxAsk)
      /\ UNCHANGED <<phase, start, nbAsked, dealVars, loopVars>>
  BY DEF Answer
<1>2. main = "asked" /\ ~In(queue', Client)
  <2>1. queue \in Seq(Node \cup {Client}) /\ Distinct(queue)
    BY DEF BootInv, BootShape, Registering
  <2>2. In(queue, Client) /\ ~In(Tail(queue), Client)
    BY <1>1, <2>1, TailIn
  <2>3. QED BY <1>1, <2>2 DEF DealIInv, DealShape
<1>3. /\ channel = <<>> /\ sock = <<>> /\ delivered = <<>> /\ started = {} /\ sending = {}
      /\ loop = Idle /\ waiter = 0
  BY <1>2 DEF DealIInv, DealShape, Early
<1>4. DealShape'
  BY <1>1, <1>2, <1>3, DealerAssumption
  DEF DealIInv, DealShape, BootInv, BootShape, dealVars, loopVars, input, Message, Messages, Mains,
      Early
<1>5. DealPriority'
  BY <1>1 DEF DealIInv, DealPriority, Kept, dealVars, loopVars, input
<1>6. DealCount'
  <2>1. Load' = 0
    <3>1. Copies' \in Nat
      BY <1>1 DEF Copies, randomDistrib, BootInv, BootShape
    <3>2. channel' = <<>> /\ started' = {} /\ sending' = {} /\ loop' = Idle
      BY <1>1, <1>3 DEF dealVars, loopVars
    <3>3. InChannels' = {} /\ NbHanding' = 0 /\ Cardinality({}) = 0
      BY <3>2, FS_EmptySet DEF InChannels, NbHanding
    <3>4. QED BY <3>1, <3>2, <3>3 DEF Load
  <2>2. waiter' = 0 /\ main' # "negative"
    BY <1>1, <1>3 DEF loopVars
  <2>3. QED BY <2>1, <2>2 DEF DealCount
<1>7. DealStops'
  BY <1>1, <1>3 DEF DealStops, FirstHarmless, loopVars
<1>8. QED BY <1>4, <1>5, <1>6, <1>7 DEF DealIInv

LEMMA ConnectKeeps == ASSUME DealIInv, Connect PROVE DealIInv'
<1>1. /\ main = "connect" /\ main' \in {"connected", "noContact"}
      /\ channel' = [i \in DOMAIN contacts |-> <<>>]
      /\ sock' = [i \in DOMAIN contacts |-> "select"]
      /\ delivered' = [i \in DOMAIN contacts |-> <<>>]
      /\ UNCHANGED <<bootVars, start, nbAsked, contacts, dealVars, loop, waiter>>
  BY DEF Connect
<1>2. channel = <<>> /\ started = {} /\ sending = {} /\ loop = Idle /\ waiter = 0
  BY <1>1 DEF DealIInv, DealShape, Early
<1>3. DealShape'
  <2>1. ~In(queue', Client)
    BY <1>1 DEF DealIInv, DealShape, bootVars
  <2>2. \A i \in DOMAIN channel' : Len(channel'[i]) <= NbMessChan
    BY <1>1, DealerAssumption
  <2>3. QED BY <1>1, <1>2, <2>1, <2>2
        DEF DealIInv, DealShape, dealVars, input, Message, Messages, Mains, Early
<1>4. DealPriority'
  BY <1>1, <1>2 DEF DealIInv, DealPriority, Kept, dealVars, input
<1>5. DealCount'
  <2>1. InChannels' = {} /\ InChannels = {}
    BY <1>1, <1>2 DEF InChannels
  <2>2. Load' = Load
    BY <1>1, <2>1 DEF Load, Copies, NbHanding, dealVars, randomDistrib
  <2>3. QED BY <1>1, <2>2 DEF DealIInv, DealCount, Copies, Added, nbOfNode, randomDistrib
<1>6. DealStops'
  BY <1>1 DEF DealStops, FirstHarmless
<1>7. QED BY <1>3, <1>4, <1>5, <1>6 DEF DealIInv

\* A connected dealer has a channel and a goroutine for each contact.
LEMMA OpenShape ==
  ASSUME DealShape, Open
  PROVE  /\ channel \in [DOMAIN contacts -> Seq(Message)]
         /\ sock \in [DOMAIN contacts -> {"select", "remove", "drain"}]
         /\ delivered \in [DOMAIN contacts -> Seq(Message)]
         /\ DOMAIN contacts = 1..Len(contacts) /\ main \notin Early /\ ~In(queue, Client)
  BY DEF DealShape, Open, Early

LEMMA Distributes == \A a, c \in Nat : (a + 1) * c = a * c + c /\ a * c \in Nat
  OBVIOUS

LEMMA DecodeKeeps == ASSUME DealIInv, Decode PROVE DealIInv'
<1>1. /\ Open /\ nbDecoded < Len(input) /\ nbDecoded' = nbDecoded + 1
      /\ prio' = (prio \/ input[nbDecoded + 1]) /\ started' = started \cup {nbDecoded + 1}
      /\ waiter' = waiter + Added
      /\ UNCHANGED <<bootVars, mainVars, sending, loop, channel, sock, delivered>>
  BY DEF Decode, DecodedPriority
<1>2. /\ nbDecoded \in Nat /\ nbDecoded + 1 \in 1..Len(input) /\ nbDecoded + 1 \notin started
      /\ input \in Seq(BOOLEAN) /\ started \subseteq 1..nbDecoded /\ prio \in BOOLEAN
      /\ Len(input) \in Nat
  BY <1>1, StartType DEF DealIInv, DealShape
<1>3. DealShape'
  <2>1. nbDecoded' \in 0..Len(input) /\ started' \subseteq 1..nbDecoded'
    BY <1>1, <1>2
  <2>2. prio' \in BOOLEAN
    BY <1>1, <1>2
  <2>3. \A m \in sending : m.tx \notin started' /\ m.tx \in 1..nbDecoded'
    BY <1>1, <1>2 DEF DealIInv, DealShape
  <2>4. waiter' \in Int
    BY <1>1, StartType DEF DealIInv, DealShape
  <2>5. UNCHANGED <<server, queue, start, main, nbAsked, contacts, sending, loop, channel, sock, delivered>>
    BY <1>1 DEF bootVars, mainVars
  <2>6. main \notin Early
    BY <1>1 DEF Open, Early
  <2>7. QED BY <2>1, <2>2, <2>3, <2>4, <2>5, <2>6 DEF DealIInv, DealShape, input, Message, Messages
<1>4. DealPriority'
  <2>1. UNCHANGED <<start, sending, loop, channel, delivered>>
    BY <1>1 DEF mainVars
  <2>2. ASSUME NEW t \in 1..nbDecoded', input[t] PROVE prio'
    <3>1. CASE t = nbDecoded + 1
      BY <1>1, <2>2, <3>1
    <3>2. CASE t \in 1..nbDecoded
      BY <1>1, <2>2, <3>2 DEF DealIInv, DealPriority
    <3>3. QED BY <1>1, <1>2, <3>1, <3>2
  <2>3. QED BY <2>1, <2>2 DEF DealIInv, DealPriority, Kept, input
<1>5. DealCount'
  <2>1. Cardinality(started') = Cardinality(started) + 1
    BY <1>1, <1>2, LoadType, FS_AddElement DEF DealIInv
  <2>2. /\ Copies' = Copies /\ Added' = Added /\ NbHanding' = NbHanding /\ InChannels' = InChannels
        /\ UNCHANGED <<sending, main>>
    BY <1>1 DEF Copies, Added, NbHanding, InChannels, mainVars, nbOfNode, randomDistrib
  <2> DEFINE k == Cardinality(started) + Cardinality(sending)
  <2>3. k \in Nat /\ Cardinality(started') + Cardinality(sending) = k + 1
    BY <2>1, LoadType DEF DealIInv
  <2>4. Load = k * Copies + NbHanding + Cardinality(InChannels)
    BY DEF Load
  <2>5. Load' = (Cardinality(started') + Cardinality(sending)) * Copies + NbHanding + Cardinality(InChannels)
    BY <2>2 DEF Load
  <2> HIDE DEF k
  <2>6. Load' = Load + Copies
    <3>1. (k + 1) * Copies = k * Copies + Copies /\ k * Copies \in Nat
      BY <2>3, Distributes, StartType DEF DealIInv
    <3>2. NbHanding \in Nat /\ Cardinality(InChannels) \in Nat /\ Copies \in Nat
      BY LoadType, StartType DEF DealIInv
    <3>3. QED BY <2>3, <2>4, <2>5, <3>1, <3>2
  <2>7. Added \in Nat /\ Copies \in Nat /\ Load \in Nat /\ waiter \in Int
    BY StartType, LoadType DEF DealIInv, DealShape
  <2>8. main # "negative"
    BY <1>1 DEF Open
  <2>9. QED BY <1>1, <2>2, <2>6, <2>7, <2>8 DEF DealIInv, DealCount
<1>6. DealStops'
  BY <1>1 DEF DealIInv, DealStops, FirstHarmless, Stopped, bootVars, mainVars
<1>7. QED BY <1>3, <1>4, <1>5, <1>6 DEF DealIInv

LEMMA StartSendKeeps == ASSUME DealIInv, NEW t \in started, StartSend(t) PROVE DealIInv'
<1> DEFINE m == [tx |-> t, priority |-> prio]
<1>1. /\ Open /\ started' = started \ {t} /\ sending' = sending \cup {m}
      /\ UNCHANGED <<bootVars, mainVars, nbDecoded, prio, loopVars>>
  BY DEF StartSend
<1>2. /\ m \in Message /\ m \notin sending /\ t \in 1..nbDecoded /\ m.tx = t /\ m.priority = prio
      /\ started \subseteq 1..nbDecoded
  <2>1. m.tx = t /\ m.priority = prio /\ t \in 1..nbDecoded /\ started \subseteq 1..nbDecoded
    BY DEF DealIInv, DealShape
  <2>2. m \notin sending
    BY <2>1 DEF DealIInv, DealShape
  <2>3. t \in Messages /\ prio \in BOOLEAN
    BY <2>1, StartType DEF DealIInv, DealShape
  <2>4. QED BY <2>1, <2>2, <2>3 DEF Message
<1> HIDE DEF m
<1>3. DealShape'
  <2>1. sending' \subseteq Message /\ IsFiniteSet(sending')
    BY <1>1, <1>2, FS_AddElement DEF DealIInv, DealShape
  <2>2. /\ \A p \in sending' : p.tx \notin started' /\ p.tx \in 1..nbDecoded
        /\ started' \subseteq 1..nbDecoded
    BY <1>1, <1>2 DEF DealIInv, DealShape
  <2>3. UNCHANGED <<server, queue, start, main, nbAsked, contacts, nbDecoded, prio, loop, channel, sock,
                    delivered, waiter>>
    BY <1>1 DEF bootVars, mainVars, loopVars
  <2>4. main \notin Early
    BY <1>1 DEF Open, Early
  <2>5. QED BY <2>1, <2>2, <2>3, <2>4 DEF DealIInv, DealShape, input, Message, Messages
<1>4. DealPriority'
  <2>1. UNCHANGED <<start, nbDecoded, prio, loop, channel, delivered>>
    BY <1>1 DEF mainVars, loopVars
  <2>2. Kept(m)
    BY <1>2 DEF DealIInv, DealPriority, Kept
  <2>3. QED BY <1>1, <2>1, <2>2 DEF DealIInv, DealPriority, Kept, input
<1>5. DealCount'
  <2>1. /\ Cardinality(started') = Cardinality(started) - 1
        /\ Cardinality(sending') = Cardinality(sending) + 1
    BY <1>1, <1>2, LoadType, FS_AddElement, FS_RemoveElement DEF DealIInv, DealShape
  <2>2. Cardinality(started') + Cardinality(sending') = Cardinality(started) + Cardinality(sending)
    BY <2>1, LoadType DEF DealIInv
  <2>3. /\ Copies' = Copies /\ Added' = Added /\ NbHanding' = NbHanding /\ InChannels' = InChannels
        /\ UNCHANGED <<main, waiter>>
    BY <1>1 DEF Copies, Added, NbHanding, InChannels, mainVars, loopVars, nbOfNode, randomDistrib
  <2>4. QED BY <2>2, <2>3 DEF DealIInv, DealCount, Load
<1>6. DealStops'
  BY <1>1 DEF DealIInv, DealStops, FirstHarmless, Stopped, bootVars, mainVars, loopVars
<1>7. QED BY <1>3, <1>4, <1>5, <1>6 DEF DealIInv

\* A message leaves those that are being sent.
LEMMA SendingLess ==
  ASSUME DealShape, NEW m \in sending, sending' = sending \ {m}, UNCHANGED started
  PROVE  /\ (Cardinality(started') + Cardinality(sending')) * Copies
              = (Cardinality(started) + Cardinality(sending)) * Copies - Copies
         /\ (Cardinality(started) + Cardinality(sending)) * Copies \in Nat
<1> DEFINE k == Cardinality(started) + Cardinality(sending')
<1>1. Cardinality(sending') = Cardinality(sending) - 1 /\ Cardinality(sending') \in Nat
  <2>1. IsFiniteSet(sending) /\ IsFiniteSet(sending')
    BY FS_RemoveElement DEF DealShape
  <2>2. QED BY <2>1, FS_RemoveElement, FS_CardinalityType
<1>2. k \in Nat /\ Cardinality(started) + Cardinality(sending) = k + 1
  BY <1>1, LoadType
<1>3. (k + 1) * Copies = k * Copies + Copies /\ k * Copies \in Nat /\ Copies \in Nat
  BY <1>2, Distributes, StartType
<1> HIDE DEF k
<1>4. (k + 1) * Copies - Copies = k * Copies /\ (k + 1) * Copies \in Nat
  BY <1>3
<1>5. QED BY <1>2, <1>4 DEF k

LEMMA LoopTakeKeeps == ASSUME DealIInv, NEW m \in sending, LoopTake(m) PROVE DealIInv'
<1>1. /\ Open /\ loop = Idle /\ contacts # <<>> /\ sending' = sending \ {m}
      /\ UNCHANGED <<bootVars, mainVars, nbDecoded, prio, started, channel, sock, waiter, delivered>>
  BY DEF LoopTake
<1>2. PICK to \in IF randomDistrib THEN DOMAIN contacts ELSE {1} :
        loop' = [step |-> "hand", msg |-> m, to |-> to]
  BY DEF LoopTake
<1>3. /\ to \in 1..Len(contacts) /\ loop'.msg = m /\ loop'.to = to
      /\ loop' \in [step : {"hand"}, msg : Message, to : 1..Len(contacts)]
      /\ loop' # Idle /\ (~randomDistrib => to = 1)
  <2>1. 1 \in 1..Len(contacts) /\ DOMAIN contacts = 1..Len(contacts) /\ m \in Message
    BY <1>1 DEF DealIInv, DealShape
  <2>2. to \in 1..Len(contacts)
    BY <2>1
  <2>3. loop'.step = "hand"
    BY <1>2
  <2>4. loop' # Idle
    BY <2>3 DEF Idle
  <2>5. QED BY <1>2, <2>1, <2>2, <2>4
<1>4. UNCHANGED <<server, queue, start, main, nbAsked, contacts>>
  BY <1>1 DEF bootVars, mainVars
<1>5. DealShape'
  <2>1. /\ sending' \subseteq Message /\ IsFiniteSet(sending')
        /\ \A p \in sending' : p.tx \notin started /\ p.tx \in 1..nbDecoded
    BY <1>1, FS_RemoveElement DEF DealIInv, DealShape
  <2>2. main \notin Early
    BY <1>1 DEF Open, Early
  <2>3. QED BY <1>1, <1>3, <1>4, <2>1, <2>2 DEF DealIInv, DealShape, input, Message, Messages
<1>6. DealPriority'
  BY <1>1, <1>3, <1>4 DEF DealIInv, DealPriority, Kept, input
<1>7. DealCount'
  <2>1. Copies' = Copies /\ Added' = Added /\ InChannels' = InChannels /\ NbHanding = 0
    BY <1>1, <1>4 DEF Copies, Added, NbHanding, InChannels, nbOfNode, randomDistrib
  <2>2. NbHanding' = Copies
    <3>1. NbHanding' = IF randomDistrib THEN 1 ELSE Len(contacts) - to + 1
      BY <1>3, <1>4 DEF NbHanding, randomDistrib
    <3>2. QED BY <1>3, <3>1, StartType DEF Copies, DealIInv
  <2> DEFINE size == (Cardinality(started) + Cardinality(sending)) * Copies
             after == (Cardinality(started') + Cardinality(sending')) * Copies
             held == Cardinality(InChannels)
  <2>3. /\ after = size - Copies /\ size \in Nat /\ held \in Nat /\ Copies \in Nat
        /\ Load = size + 0 + held /\ Load' = after + Copies + held
    BY <1>1, <2>1, <2>2, SendingLess, LoadType, StartType DEF Load, DealIInv
  <2> HIDE DEF size, after, held
  <2>5. Load' = Load
    BY <2>3
  <2>6. QED BY <1>1, <1>4, <2>1, <2>5 DEF DealIInv, DealCount
<1>8. DealStops'
  BY <1>1, <1>4 DEF DealIInv, DealStops, FirstHarmless, Stopped, bootVars
<1>9. QED BY <1>5, <1>6, <1>7, <1>8 DEF DealIInv

LEMMA LoopNoContactKeeps == ASSUME DealIInv, NEW m \in sending, LoopNoContact(m) PROVE DealIInv'
<1>1. /\ Open /\ loop = Idle /\ contacts = <<>>
      /\ UNCHANGED <<bootVars, start, nbAsked, contacts, nbDecoded, prio, started, loopVars>>
      /\ \/ main' = "noChoice" /\ UNCHANGED sending
         \/ ~randomDistrib /\ sending' = sending \ {m} /\ UNCHANGED main
  BY DEF LoopNoContact
<1>2. UNCHANGED <<queue, channel, sock, delivered, loop, waiter>> /\ main # "negative"
  BY <1>1 DEF bootVars, loopVars, Open
<1>3. DealShape'
  <2>1. /\ sending' \subseteq Message /\ IsFiniteSet(sending')
        /\ \A p \in sending' : p.tx \notin started /\ p.tx \in 1..nbDecoded
    BY <1>1, FS_RemoveElement DEF DealIInv, DealShape
  <2>2. main \notin Early /\ main' \notin Early /\ main' \in Mains /\ main' # "start"
    BY <1>1 DEF Open, Early, Mains
  <2>3. ~In(queue, Client)
    BY <1>1, OpenShape DEF DealIInv
  <2>4. QED BY <1>1, <1>2, <2>1, <2>2, <2>3 DEF DealIInv, DealShape, input, Message, Messages
<1>4. DealPriority'
  BY <1>1, <1>2 DEF DealIInv, DealPriority, Kept, input
<1>5. DealCount'
  <2>1. Copies' = Copies /\ Added' = Added /\ InChannels' = InChannels /\ NbHanding' = NbHanding
    BY <1>1, <1>2 DEF Copies, Added, NbHanding, InChannels, nbOfNode, randomDistrib
  <2>2. main' # "negative"
    BY <1>1, <1>2
  <2>3. CASE UNCHANGED sending
    BY <1>1, <1>2, <2>1, <2>2, <2>3 DEF DealIInv, DealCount, Load
  <2>4. CASE ~randomDistrib /\ sending' = sending \ {m}
    <3>1. Copies = 0
      BY <1>1, <2>4 DEF Copies
    <3>2. (Cardinality(started') + Cardinality(sending')) * Copies
            = (Cardinality(started) + Cardinality(sending)) * Copies
      <4> DEFINE size == (Cardinality(started) + Cardinality(sending)) * Copies
                 after == (Cardinality(started') + Cardinality(sending')) * Copies
      <4>1. after = size - Copies /\ size \in Nat
        BY <1>1, <2>4, SendingLess DEF DealIInv
      <4> HIDE DEF size, after
      <4>2. after = size
        BY <3>1, <4>1
      <4>3. QED BY <4>2 DEF size, after
    <3>3. Load' = Load
      BY <2>1, <3>2 DEF Load
    <3>4. QED BY <1>1, <1>2, <2>1, <2>2, <3>3 DEF DealIInv, DealCount
  <2>5. QED BY <1>1, <2>3, <2>4
<1>6. DealStops'
  BY <1>1, <1>2 DEF DealIInv, DealStops, FirstHarmless, Stopped, bootVars, Open
<1>7. QED BY <1>3, <1>4, <1>5, <1>6 DEF DealIInv

LEMMA LoopHandKeeps == ASSUME DealIInv, LoopHand PROVE DealIInv'
<1> DEFINE to == loop.to
<1>1. /\ Open /\ loop.step = "hand" /\ HasPlace(to)
      /\ channel' = [channel EXCEPT ![to] = Append(@, loop.msg)]
      /\ loop' = IF randomDistrib \/ to = Len(contacts) THEN Idle ELSE [loop EXCEPT !.to = @ + 1]
      /\ UNCHANGED <<bootVars, mainVars, dealVars, sock, waiter, delivered>>
  BY DEF LoopHand, Handed
<1>2. UNCHANGED <<server, queue, start, main, nbAsked, contacts, nbDecoded, prio, started, sending>>
  BY <1>1 DEF bootVars, mainVars, dealVars
<1>3. /\ loop # Idle /\ loop.msg \in Message /\ to \in 1..Len(contacts) /\ Len(contacts) \in Nat
      /\ loop \in [step : {"hand"}, msg : Message, to : 1..Len(contacts)]
  <2>1. loop # Idle
    BY <1>1 DEF Idle
  <2>2. loop \in [step : {"hand"}, msg : Message, to : 1..Len(contacts)]
    BY <2>1 DEF DealIInv, DealShape
  <2>3. QED BY <2>1, <2>2, StartType DEF DealIInv
<1>4. /\ channel \in [DOMAIN contacts -> Seq(Message)] /\ DOMAIN contacts = 1..Len(contacts)
      /\ main \notin Early
  BY <1>1, OpenShape DEF DealIInv
<1>5. /\ channel' \in [DOMAIN contacts -> Seq(Message)] /\ to \in DOMAIN channel
      /\ \A i \in DOMAIN channel : channel'[i] = IF i = to THEN Append(channel[to], loop.msg) ELSE channel[i]
  BY <1>1, <1>3, <1>4
<1>6. \/ loop' = Idle /\ (randomDistrib \/ to = Len(contacts))
      \/ /\ ~randomDistrib /\ loop' # Idle /\ loop'.to = to + 1 /\ loop'.msg = loop.msg
         /\ to + 1 \in 1..Len(contacts)
         /\ loop' \in [step : {"hand"}, msg : Message, to : 1..Len(contacts)]
  <2>1. CASE ~(randomDistrib \/ to = Len(contacts))
    <3>1. to + 1 \in 1..Len(contacts)
      BY <1>3, <2>1
    <3>2. loop' = [loop EXCEPT !.to = to + 1]
      BY <1>1, <2>1
    <3>3. /\ loop' \in [step : {"hand"}, msg : Message, to : 1..Len(contacts)]
          /\ loop'.to = to + 1 /\ loop'.msg = loop.msg /\ loop'.step = "hand"
      BY <1>3, <3>1, <3>2
    <3>4. loop' # Idle
      BY <3>3 DEF Idle
    <3>5. QED BY <2>1, <3>1, <3>3, <3>4
  <2>2. QED BY <1>1, <2>1
<1> HIDE DEF to
<1>7. DealShape'
  <2>1. \A i \in DOMAIN channel' : Len(channel'[i]) <= NbMessChan
    BY <1>1, <1>4, <1>5, StartType DEF DealIInv, DealShape, HasPlace
  <2>2. loop' = Idle \/ loop' \in [step : {"hand"}, msg : Message, to : 1..Len(contacts)]
    BY <1>6
  <2>3. QED BY <1>1, <1>2, <1>4, <1>5, <2>1, <2>2 DEF DealIInv, DealShape, input, Message, Messages
<1>8. DealPriority'
  <2>1. Kept(loop.msg)
    BY <1>3 DEF DealIInv, DealPriority
  <2>2. ASSUME NEW i \in DOMAIN channel, NEW j \in DOMAIN channel'[i] PROVE Kept(channel'[i][j])
    <3>1. CASE i = to
      <4>1. channel'[i] = Append(channel[to], loop.msg) /\ channel[to] \in Seq(Message)
        BY <1>4, <1>5, <3>1
      <4>2. channel'[i][j] = loop.msg \/ (j \in DOMAIN channel[to] /\ channel'[i][j] = channel[to][j])
        BY <4>1
      <4>3. QED BY <1>5, <2>1, <4>2 DEF DealIInv, DealPriority
    <3>2. CASE i # to
      BY <1>5, <3>2 DEF DealIInv, DealPriority
    <3>3. QED BY <3>1, <3>2
  <2>3. DOMAIN channel' = DOMAIN channel
    BY <1>4, <1>5
  <2>4. QED BY <1>1, <1>2, <1>6, <2>1, <2>2, <2>3 DEF DealIInv, DealPriority, Kept, input
<1>9. DealCount'
  <2>1. Cardinality(InChannels') = Cardinality(InChannels) + 1
    BY <1>1, <1>4, <1>5, ChannelGrows DEF DealIInv
  <2>2. NbHanding' = NbHanding - 1 /\ NbHanding \in Nat
    <3>1. NbHanding = IF randomDistrib THEN 1 ELSE Len(contacts) - to + 1
      BY <1>3 DEF NbHanding, to
    <3>2. CASE loop' = Idle /\ (randomDistrib \/ to = Len(contacts))
      BY <1>3, <3>1, <3>2 DEF NbHanding
    <3>3. CASE ~randomDistrib /\ loop' # Idle /\ loop'.to = to + 1
      BY <1>2, <1>3, <3>1, <3>3 DEF NbHanding, randomDistrib
    <3>4. QED BY <1>6, <3>2, <3>3, LoadType DEF DealIInv
  <2>3. Copies' = Copies /\ Added' = Added
    BY <1>2 DEF Copies, Added, nbOfNode, randomDistrib
  <2> DEFINE size == (Cardinality(started) + Cardinality(sending)) * Copies
  <2>4. /\ Load = size + NbHanding + Cardinality(InChannels)
        /\ Load' = size + NbHanding' + Cardinality(InChannels')
    BY <1>2, <2>3 DEF Load
  <2>5. Cardinality(InChannels) \in Nat /\ Load \in Nat /\ size \in Nat
    <3>1. Cardinality(started) + Cardinality(sending) \in Nat /\ Copies \in Nat
      BY LoadType, StartType DEF DealIInv
    <3>2. QED BY <3>1, LoadType, Distributes DEF DealIInv
  <2> HIDE DEF size
  <2>6. Load' = Load
    BY <2>1, <2>2, <2>4, <2>5
  <2>7. QED BY <1>1, <1>2, <2>3, <2>6 DEF DealIInv, DealCount
<1>10. DealStops'
  BY <1>1, <1>2 DEF DealIInv, DealStops, FirstHarmless, Stopped, bootVars
<1>11. QED BY <1>7, <1>8, <1>9, <1>10 DEF DealIInv

\* A message leaves a channel, and the WaitGroup counts one less.
LEMMA TakenFromChannel ==
  ASSUME DealIInv, Open, NEW i \in DOMAIN contacts, channel[i] # <<>>,
         channel' = [channel EXCEPT ![i] = Tail(@)], waiter' = waiter - 1, NegativeCounter,
         UNCHANGED <<bootVars, start, nbAsked, contacts, dealVars, loop>>,
         sock' \in [DOMAIN contacts -> {"select", "remove", "drain"}],
         \A k \in DOMAIN contacts : sock'[k] # "select" => sock[k] # "select" \/ Stopped(contacts[k]),
         delivered' \in [DOMAIN contacts -> Seq(Message)],
         \A k \in DOMAIN contacts : \A j \in DOMAIN delivered'[k] : Kept(delivered'[k][j])
  PROVE  DealIInv'
<1>1. UNCHANGED <<server, queue, start, nbAsked, contacts, nbDecoded, prio, started, sending, loop>>
  BY DEF bootVars, dealVars
<1>2. /\ channel \in [DOMAIN contacts -> Seq(Message)] /\ i \in DOMAIN channel
      /\ main \notin Early /\ main = "connected" /\ ~In(queue, Client)
  BY OpenShape DEF DealIInv, Open
<1>3. main' = "connected" \/ (main' = "negative" /\ waiter' < 0)
  BY <1>2 DEF NegativeCounter
<1>4. /\ channel' \in [DOMAIN contacts -> Seq(Message)]
      /\ \A k \in DOMAIN channel : channel'[k] = IF k = i THEN Tail(channel[i]) ELSE channel[k]
      /\ DOMAIN channel' = DOMAIN channel
  BY <1>2
<1>5. DealShape'
  <2>1. \A k \in DOMAIN channel' : Len(channel'[k]) <= NbMessChan
    <3>1. channel[i] \in Seq(Message) /\ Len(Tail(channel[i])) = Len(channel[i]) - 1
      BY <1>2
    <3>2. Len(channel[i]) \in Nat /\ Len(channel[i]) <= NbMessChan /\ NbMessChan \in Nat
      BY <1>2, <3>1, StartType DEF DealIInv, DealShape
    <3>3. QED BY <1>4, <3>1, <3>2 DEF DealIInv, DealShape
  <2>2. main' \in Mains /\ main' \notin Early /\ main' # "start" /\ waiter' \in Int
    BY <1>3 DEF Mains, Early, DealIInv, DealShape
  <2>3. QED BY <1>1, <1>2, <1>4, <2>1, <2>2 DEF DealIInv, DealShape, input, Message, Messages
<1>6. DealPriority'
  <2>1. ASSUME NEW k \in DOMAIN channel, NEW j \in DOMAIN channel'[k] PROVE Kept(channel'[k][j])
    <3>1. CASE k = i
      <4>1. channel'[k] = Tail(channel[i]) /\ channel[i] \in Seq(Message) /\ channel[i] # <<>>
        BY <1>2, <1>4, <3>1
      <4>2. /\ DOMAIN Tail(channel[i]) = 1..Len(channel[i]) - 1 /\ Len(channel[i]) \in Nat
            /\ DOMAIN channel[i] = 1..Len(channel[i])
            /\ \A n \in 1..Len(channel[i]) - 1 : Tail(channel[i])[n] = channel[i][n + 1]
        BY <4>1
      <4>3. j \in 1..Len(channel[i]) - 1
        BY <4>1, <4>2
      <4>4. j + 1 \in DOMAIN channel[i] /\ channel'[k][j] = channel[i][j + 1]
        <5>1. channel'[k][j] = Tail(channel[i])[j]
          BY <4>1
        <5>2. Tail(channel[i])[j] = channel[i][j + 1]
          BY <4>2, <4>3
        <5>3. j + 1 \in DOMAIN channel[i]
          BY <4>2, <4>3
        <5>4. QED BY <5>1, <5>2, <5>3
      <4>5. QED BY <1>2, <4>4 DEF DealIInv, DealPriority
    <3>2. CASE k # i
      BY <1>4, <3>2 DEF DealIInv, DealPriority
    <3>3. QED BY <3>1, <3>2
  <2>2. DOMAIN delivered' = DOMAIN contacts
    OBVIOUS
  <2>3. QED BY <1>1, <1>4, <2>1, <2>2 DEF DealIInv, DealPriority, Kept, input
<1>7. DealCount'
  <2>1. Cardinality(InChannels') = Cardinality(InChannels) - 1
    BY <1>2, ChannelShrinks DEF DealIInv
  <2>2. Copies' = Copies /\ Added' = Added /\ NbHanding' = NbHanding
    BY <1>1 DEF Copies, Added, NbHanding, nbOfNode, randomDistrib
  <2> DEFINE size == (Cardinality(started) + Cardinality(sending)) * Copies
  <2>3. /\ Load = size + NbHanding + Cardinality(InChannels)
        /\ Load' = size + NbHanding + Cardinality(InChannels')
    BY <1>1, <2>2 DEF Load
  <2>4. /\ Cardinality(InChannels) \in Nat /\ Cardinality(InChannels) > 0
        /\ NbHanding \in Nat /\ size \in Nat
    <3>1. Cardinality(started) + Cardinality(sending) \in Nat /\ Copies \in Nat
      <4>1. Cardinality(started) \in Nat /\ Cardinality(sending) \in Nat
        BY LoadType DEF DealIInv
      <4>2. Copies \in Nat
        BY StartType DEF DealIInv
      <4>3. QED BY <4>1, <4>2
    <3>2. channel[i] \in Seq(Message) /\ Len(channel[i]) <= NbMessChan /\ Len(channel[i]) > 0
      BY <1>2 DEF DealIInv, DealShape
    <3>3. <<i, 1>> \in InChannels
      BY <1>2, <3>2, StartType DEF InChannels, DealIInv
    <3>4. Cardinality(InChannels) # 0
      BY <3>3, LoadType, FS_EmptySet DEF DealIInv
    <3>5. QED BY <3>1, <3>4, LoadType, Distributes DEF DealIInv
  <2> HIDE DEF size
  <2>5. Load' = Load - 1 /\ Load' >= 0 /\ Load \in Nat
    BY <2>1, <2>3, <2>4
  <2>6. Copies \in Nat /\ Added \in Nat /\ waiter \in Int
    BY StartType DEF DealIInv, DealShape
  <2>7. QED BY <1>3, <2>2, <2>5, <2>6 DEF DealIInv, DealCount
<1>8. DealStops'
  <2>1. FirstHarmless'
    BY <1>3 DEF FirstHarmless
  <2>2. DOMAIN sock = DOMAIN contacts /\ DOMAIN sock' = DOMAIN contacts
    BY <1>2, OpenShape DEF DealIInv
  <2>3. UNCHANGED <<phase, contacts>>
    BY DEF bootVars
  <2>4. \A k \in DOMAIN contacts : sock'[k] # "select" => Stopped(contacts[k])
    BY <2>2 DEF DealIInv, DealStops
  <2>5. QED BY <2>1, <2>2, <2>3, <2>4 DEF DealStops, Stopped
<1>9. QED BY <1>5, <1>6, <1>7, <1>8 DEF DealIInv

LEMMA SocketSendKeeps ==
  ASSUME DealIInv, NEW i \in DOMAIN contacts, SocketSend(i)
  PROVE  DealIInv'
<1>1. /\ Open /\ channel[i] # <<>> /\ channel' = [channel EXCEPT ![i] = Tail(@)]
      /\ waiter' = waiter - 1 /\ NegativeCounter
      /\ UNCHANGED <<bootVars, start, nbAsked, contacts, dealVars, loop>>
  BY DEF SocketSend, Done
<1>2. /\ channel \in [DOMAIN contacts -> Seq(Message)]
      /\ sock \in [DOMAIN contacts -> {"select", "remove", "drain"}]
      /\ delivered \in [DOMAIN contacts -> Seq(Message)]
  BY <1>1, OpenShape DEF DealIInv
<1>3. CASE Stopped(contacts[i])
  <2>1. UNCHANGED delivered /\ \E next \in {"select", "remove"} : sock' = [sock EXCEPT ![i] = next]
    BY <1>3 DEF SocketSend
  <2>2. /\ sock' \in [DOMAIN contacts -> {"select", "remove", "drain"}]
        /\ \A k \in DOMAIN contacts : sock'[k] # "select" => sock[k] # "select" \/ Stopped(contacts[k])
    BY <1>2, <1>3, <2>1
  <2>3. QED BY <1>1, <1>2, <2>1, <2>2, TakenFromChannel DEF DealIInv, DealPriority
<1>4. CASE ~Stopped(contacts[i])
  <2>1. UNCHANGED sock /\ delivered' = [delivered EXCEPT ![i] = Append(@, Head(channel[i]))]
    BY <1>4 DEF SocketSend
  <2>2. channel[i] \in Seq(Message) /\ delivered[i] \in Seq(Message)
    BY <1>2
  <2>3. /\ Head(channel[i]) \in Message /\ Head(channel[i]) = channel[i][1] /\ 1 \in DOMAIN channel[i]
        /\ Kept(Head(channel[i]))
    BY <1>1, <1>2, <2>2 DEF DealIInv, DealPriority
  <2>4. delivered' \in [DOMAIN contacts -> Seq(Message)]
    BY <1>2, <2>1, <2>2, <2>3
  <2>5. ASSUME NEW k \in DOMAIN contacts, NEW j \in DOMAIN delivered'[k] PROVE Kept(delivered'[k][j])
    <3>1. CASE k = i
      <4>1. delivered'[k] = Append(delivered[i], Head(channel[i]))
        BY <1>2, <2>1, <3>1
      <4>2. \/ delivered'[k][j] = Head(channel[i])
            \/ j \in DOMAIN delivered[i] /\ delivered'[k][j] = delivered[i][j]
        BY <2>2, <2>3, <4>1
      <4>3. QED BY <1>2, <2>3, <4>2 DEF DealIInv, DealPriority
    <3>2. CASE k # i
      BY <1>2, <2>1, <2>5, <3>2 DEF DealIInv, DealPriority
    <3>3. QED BY <3>1, <3>2
  <2>6. QED BY <1>1, <1>2, <2>1, <2>4, <2>5, TakenFromChannel
<1>5. QED BY <1>3, <1>4

LEMMA DrainKeeps == ASSUME DealIInv, NEW i \in DOMAIN contacts, Drain(i) PROVE DealIInv'
<1>1. /\ Open /\ channel[i] # <<>> /\ channel' = [channel EXCEPT ![i] = Tail(@)]
      /\ waiter' = waiter - 1 /\ NegativeCounter
      /\ UNCHANGED <<bootVars, start, nbAsked, contacts, dealVars, loop, sock, delivered>>
  BY DEF Drain, Done
<1>2. /\ sock \in [DOMAIN contacts -> {"select", "remove", "drain"}]
      /\ delivered \in [DOMAIN contacts -> Seq(Message)]
  BY <1>1, OpenShape DEF DealIInv
<1>3. QED BY <1>1, <1>2, TakenFromChannel DEF DealIInv, DealPriority

LEMMA RemoveKeeps == ASSUME DealIInv, NEW i \in DOMAIN contacts, Remove(i) PROVE DealIInv'
<1>1. /\ Open /\ sock[i] = "remove" /\ sock' = [sock EXCEPT ![i] = "drain"]
      /\ main' = IF i > 1 THEN "outOfRange" ELSE main
      /\ UNCHANGED <<bootVars, start, nbAsked, contacts, dealVars, loop, channel, waiter, delivered>>
  BY DEF Remove, Removable
<1>2. UNCHANGED <<queue, nbDecoded, prio, started, sending>> /\ main = "connected"
  BY <1>1 DEF bootVars, dealVars, Open
<1>3. /\ sock \in [DOMAIN contacts -> {"select", "remove", "drain"}] /\ main \notin Early
      /\ DOMAIN contacts = 1..Len(contacts) /\ ~In(queue, Client)
  BY <1>1, OpenShape DEF DealIInv
<1>4. /\ sock' \in [DOMAIN contacts -> {"select", "remove", "drain"}]
      /\ \A k \in DOMAIN contacts : sock'[k] = IF k = i THEN "drain" ELSE sock[k]
  BY <1>1, <1>3
<1>5. DealShape'
  <2>1. main' \in Mains /\ main' \notin Early /\ main' # "start"
    BY <1>1, <1>2 DEF Mains, Early
  <2>2. QED BY <1>1, <1>2, <1>3, <1>4, <2>1 DEF DealIInv, DealShape, input, Message, Messages
<1>6. DealPriority'
  BY <1>1, <1>2 DEF DealIInv, DealPriority, Kept, input
<1>7. DealCount'
  BY <1>1, <1>2 DEF DealIInv, DealCount, Load, Copies, Added, NbHanding, InChannels, nbOfNode,
                    randomDistrib
<1>8. DealStops'
  <2>1. Stopped(contacts[i]) /\ (i > 1 => i \in 2..Len(contacts)) /\ DOMAIN sock = DOMAIN contacts
    BY <1>1, <1>3, StartType DEF DealIInv, DealStops
  <2>2. QED BY <1>1, <1>2, <1>4, <2>1 DEF DealIInv, DealStops, FirstHarmless, Stopped, bootVars
<1>9. QED BY <1>5, <1>6, <1>7, <1>8 DEF DealIInv

LEMMA CloseKeeps == ASSUME DealIInv, Close PROVE DealIInv'
<1>1. /\ Open /\ main' \in {"ended", "chanMsg"}
      /\ UNCHANGED <<bootVars, start, nbAsked, contacts, dealVars, loopVars>>
  BY DEF Close
<1>2. /\ UNCHANGED <<queue, nbDecoded, prio, started, sending, loop, channel, sock, waiter, delivered>>
      /\ main \notin Early /\ main' \notin Early /\ main' \in Mains /\ main' # "start"
      /\ ~In(queue, Client)
  BY <1>1, OpenShape DEF bootVars, dealVars, loopVars, Mains, Early, DealIInv
<1>3. DealShape'
  BY <1>1, <1>2 DEF DealIInv, DealShape, input, Message, Messages
<1>4. DealPriority'
  BY <1>1, <1>2 DEF DealIInv, DealPriority, Kept, input
<1>5. DealCount'
  BY <1>1, <1>2 DEF DealIInv, DealCount, Load, Copies, Added, NbHanding, InChannels, nbOfNode,
                    randomDistrib
<1>6. DealStops'
  BY <1>1, <1>2 DEF DealIInv, DealStops, FirstHarmless, Stopped, bootVars
<1>7. QED BY <1>3, <1>4, <1>5, <1>6 DEF DealIInv
-----------------------------------------------------------------------------
\* Most steps of the dealer leave the bootstrap alone.
LEMMA BootUnchanged == ASSUME BootInv, UNCHANGED bootVars PROVE BootInv'
<1>1. UNCHANGED <<server, listAddr, queue, phase, toDial, accepting, socks>>
  BY DEF bootVars
<1>2. BootShape' /\ Registering' /\ RightIds'
  BY <1>1 DEF BootInv, BootShape, Registering, RightIds, Stopped
<1>3. ASSUME NEW n \in Node PROVE Dialing(n)' /\ Accepting(n)' /\ Socketed(n)'
  BY <1>1 DEF BootInv, Dialing, Accepting, Socketed, Before, HasSocket, Stopped
<1>4. QED BY <1>2, <1>3 DEF BootInv

LEMMA DealInitial == Init => BootInv /\ DealIInv
<1> SUFFICES ASSUME Init PROVE BootInv /\ DealIInv
  OBVIOUS
<1>1. BootInv
  BY BootInitial DEF Init
<1>2. /\ start \in Starts /\ main = "start" /\ nbAsked = 0 /\ contacts = <<>> /\ queue = <<>>
      /\ nbDecoded = 0 /\ prio = FALSE /\ started = {} /\ sending = {}
      /\ loop = Idle /\ channel = <<>> /\ sock = <<>> /\ waiter = 0 /\ delivered = <<>>
  BY DEF Init, BootInit
<1>3. DOMAIN channel = {} /\ DOMAIN sock = {} /\ DOMAIN delivered = {} /\ Len(contacts) = 0
  BY <1>2
<1>4. Len(input) \in Nat /\ MaxAsk \in Nat \ {0}
  <2>1. start \in [nbOfNode : Nat, randomDistrib : BOOLEAN, input : Seq(BOOLEAN)]
    BY <1>2, DealerAssumption
  <2>2. QED BY <2>1, DealerAssumption DEF input
<1>5. DealShape
  <2>1. IsFiniteSet(sending) /\ ~In(queue, Client)
    BY <1>2, FS_EmptySet DEF In
  <2>2. /\ \A m \in sending : m.tx \notin started /\ m.tx \in 1..nbDecoded
        /\ \A i \in DOMAIN channel : Len(channel[i]) <= NbMessChan
        /\ started \subseteq 1..nbDecoded /\ sending \subseteq Message
    BY <1>2, <1>3
  <2>3. nbDecoded \in 0..Len(input) /\ nbAsked \in 0..MaxAsk /\ nbAsked < MaxAsk
    BY <1>2, <1>4
  <2>4. contacts \in Seq(Node) /\ prio \in BOOLEAN /\ waiter \in Int
    <3>1. <<>> \in Seq(Node) /\ 0 \in Int
      OBVIOUS
    <3>2. contacts \in Seq(Node) /\ waiter \in Int
      BY <1>2, <3>1
    <3>3. prio \in BOOLEAN
      BY <1>2
    <3>4. QED BY <3>2, <3>3
  <2>5. main \in Mains /\ main \in Early
    BY <1>2 DEF Mains, Early
  <2>6. QED BY <1>2, <2>1, <2>2, <2>3, <2>4, <2>5 DEF DealShape
<1>6. DealPriority
  BY <1>2, <1>3 DEF DealPriority
<1>7. DealCount
  <2>1. InChannels = {} /\ NbHanding = 0 /\ Copies \in Nat
    BY <1>2, <1>3, <1>5, StartType DEF InChannels, NbHanding
  <2>2. Load = 0
    BY <1>2, <2>1, FS_EmptySet DEF Load
  <2>3. QED BY <1>2, <2>2 DEF DealCount
<1>8. DealStops
  BY <1>2, <1>3 DEF DealStops, FirstHarmless
<1>9. QED BY <1>1, <1>5, <1>6, <1>7, <1>8 DEF DealIInv

LEMMA DealStep ==
  ASSUME BootInv, DealIInv, [Next]_vars
  PROVE  BootInv' /\ DealIInv'
<1>1. CASE BootNext /\ UNCHANGED <<mainVars, dealVars, loopVars>>
  BY <1>1, BootStep, BootStable, DealStays
<1>2. CASE UNCHANGED vars
  <2>1. UNCHANGED bootVars /\ UNCHANGED <<mainVars, dealVars, loopVars>>
    BY <1>2 DEF vars
  <2>2. UNCHANGED <<server, phase, queue>>
    BY <2>1 DEF bootVars
  <2>3. /\ \A n \in Node : Stopped(n) => Stopped(n)'
        /\ In(queue', Client) => In(queue, Client)
        /\ server = "fatal" => server' = "fatal"
    BY <2>2 DEF Stopped
  <2>4. QED BY <2>1, <2>3, BootUnchanged, DealStays
<1>3. CASE Ask
  <2>1. ~In(queue, Client)
    BY <1>3 DEF Ask, DealIInv, DealShape
  <2>2. QED BY <1>3, <2>1, AskKeepsBoot, AskKeeps DEF BootInv
<1>4. CASE Answer
  BY <1>4, AnswerKeepsBoot, AnswerKeeps
<1>5. CASE AskFails \/ Connect \/ Decode
  BY <1>5, BootUnchanged, AskFailsKeeps, ConnectKeeps, DecodeKeeps DEF AskFails, Connect, Decode
<1>6. ASSUME NEW t \in started, StartSend(t) PROVE BootInv' /\ DealIInv'
  BY <1>6, BootUnchanged, StartSendKeeps DEF StartSend
<1>7. ASSUME NEW m \in sending, LoopTake(m) \/ LoopNoContact(m) PROVE BootInv' /\ DealIInv'
  BY <1>7, BootUnchanged, LoopTakeKeeps, LoopNoContactKeeps DEF LoopTake, LoopNoContact
<1>8. CASE LoopHand
  BY <1>8, BootUnchanged, LoopHandKeeps DEF LoopHand
<1>9. ASSUME NEW i \in DOMAIN contacts, Remove(i) PROVE BootInv' /\ DealIInv'
  BY <1>9, BootUnchanged, RemoveKeeps DEF Remove
<1>10. ASSUME NEW i \in DOMAIN contacts, SocketSend(i) \/ Drain(i) PROVE BootInv' /\ DealIInv'
  BY <1>10, BootUnchanged, SocketSendKeeps, DrainKeeps DEF SocketSend, Drain
<1>11. CASE Close
  BY <1>11, BootUnchanged, CloseKeeps DEF Close
<1>12. CASE Next
  BY <1>1, <1>3, <1>4, <1>5, <1>6, <1>7, <1>8, <1>9, <1>10, <1>11, <1>12
  DEF Next, Dealing, LoopStep, SocketStep
<1>13. QED BY <1>2, <1>12

LEMMA DealIInvIsRight == DealIInv => DealerInv /\ PriorityHeld
<1> SUFFICES ASSUME DealIInv PROVE DealerInv /\ PriorityHeld
  OBVIOUS
<1>1. TypeOK
  <2>1. nbDecoded \in 0..Len(input) /\ Messages = 1..Len(input) /\ Len(input) \in Nat
    BY StartType DEF DealIInv, DealShape
  <2>2. started \subseteq Messages
    BY <2>1 DEF DealIInv, DealShape
  <2>3. ASSUME NEW i \in DOMAIN sock
        PROVE  /\ channel[i] \in Seq(Message) /\ Len(channel[i]) <= NbMessChan
               /\ sock[i] \in {"select", "remove", "drain"} /\ delivered[i] \in Seq(Message)
    <3>1. main \notin Early
      BY DEF DealIInv, DealShape
    <3>2. QED BY <3>1 DEF DealIInv, DealShape
  <2>4. QED BY <2>2, <2>3 DEF TypeOK, DealIInv, DealShape, Mains, Early
<1>2. WaiterCounts
  BY DEF DealIInv, DealCount, WaiterCounts, Load
<1>3. FirstHarmless /\ PriorityHeld
  BY DEF DealIInv, DealStops, DealPriority, PriorityHeld, Kept
<1>4. QED BY <1>1, <1>2, <1>3 DEF DealerInv

\* In whatever order the nodes start, register, dial each other, accept and stop,
\* no two of them are connected twice, none with itself, and the number by which
\* a socket is known is that of its other end, unless that one stopped in the
\* exchange of the numbers and is taken for node 0.
THEOREM DealerSockets == Spec => []SocketsRight
<1>1. BootInv /\ DealIInv /\ [Next]_vars => (BootInv /\ DealIInv)'
  BY DealStep
<1>2. QED BY <1>1, DealInitial, BootInvIsRight, PTL DEF Spec

\* A message that the client gave priority arrives with it at every contact,
\* however the decoding of later messages and the goroutines interleave.
THEOREM DealerPriority == Spec => []PriorityHeld
<1>1. BootInv /\ DealIInv /\ [Next]_vars => (BootInv /\ DealIInv)'
  BY DealStep
<1>2. QED BY <1>1, DealInitial, DealIInvIsRight, PTL DEF Spec

\* With as many contacts as it waited for, the WaitGroup counts the copies that
\* goroutines, loop and channels hold; the dealer can only end below zero when more nodes
\* had registered, and never because of its first contact.
THEOREM DealerCounts == Spec => []DealerInv
<1>1. BootInv /\ DealIInv /\ [Next]_vars => (BootInv /\ DealIInv)'
  BY DealStep
<1>2. QED BY <1>1, DealInitial, DealIInvIsRight, PTL DEF Spec
=============================================================================
