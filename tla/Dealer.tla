------------------------------- MODULE Dealer -------------------------------
(***************************************************************************)
(* The dealer (dealer.go) on top of the bootstrap: it asks the boot server *)
(* for the nodes until there are enough, connects to all of them and hands *)
(* them what a client sends (multiSend, senderFct.go).                     *)
(*                                                                         *)
(*   - createSocker decodes the client's messages, and starts a goroutine  *)
(*     for each, that sends it to loopSendTxMulti;                         *)
(*   - loopSendTxMulti puts it into the channel of one socket (random) or  *)
(*     of all of them, one after the other (uniform);                      *)
(*   - loopSocket sends what its channel holds to its contact.             *)
(***************************************************************************)
EXTENDS Bootstrap

CONSTANTS
  Starts,         \* how it may be started: how many nodes to wait for, to send
                  \* to one contact or to all, the priorities of the messages
                  \* that a client will send
  NbMessChan,     \* the capacity of a socket's channel (128 in the code)
  MaxAsk          \* how often it asks the boot server (180 in the code)

ASSUME DealerAssumption ==
  /\ Starts \subseteq [nbOfNode : Nat, randomDistrib : BOOLEAN, input : Seq(BOOLEAN)]
  /\ NbMessChan \in Nat \ {0} /\ MaxAsk \in Nat \ {0}

VARIABLES
  start,          \* how it is started
  main,           \* Dealer: asking, connected, closing, ended, or what ended it
  nbAsked,
  contacts,       \* listSocket: the nodes it is connected to
  nbDecoded,      \* the client's messages decoded
  prio,           \* message.Priority, the variable all of them are decoded into
  started,        \* goroutines that have not read it yet
  sending,        \* those that send their message to the loop
  loop,           \* the loop: the message it hands over and to whom next
  channel, sock,  \* the channel and the goroutine of each socket
  waiter,         \* the WaitGroup
  delivered       \* what each contact has received, in order

dealVars == <<nbDecoded, prio, started, sending>>
loopVars == <<loop, channel, sock, waiter, delivered>>
mainVars == <<start, main, nbAsked, contacts>>
vars == <<bootVars, mainVars, dealVars, loopVars>>

nbOfNode == start.nbOfNode
randomDistrib == start.randomDistrib
input == start.input
Idle == [step |-> "select"]
Messages == DOMAIN input
Open == main = "connected"
-----------------------------------------------------------------------------
\* getAContact: a connection to the boot server.
Ask ==
  /\ main = "start" /\ server = "on"
  /\ main' = "asked" /\ queue' = Append(queue, Client) /\ nbAsked' = nbAsked + 1
  /\ UNCHANGED <<server, listAddr, phase, toDial, accepting, socks, start, contacts, dealVars, loopVars>>

\* No server to dial, however often it tries, or none to decode an answer of.
AskFails ==
  /\ \/ main = "start" /\ server # "on"
     \/ main = "asked" /\ server = "fatal"
  /\ main' = "fatal"
  /\ UNCHANGED <<bootVars, start, nbAsked, contacts, dealVars, loopVars>>

\* The server sends it the addresses and registers nothing.  Not enough of
\* them: it asks again, a number of times.
Answer ==
  /\ server = "on" /\ queue # <<>> /\ Head(queue) = Client
  /\ queue' = Tail(queue) /\ contacts' = listAddr
  /\ main' = IF nbOfNode = 0 \/ Len(listAddr) >= nbOfNode THEN "connect"
             ELSE IF nbAsked = MaxAsk THEN "fatal" ELSE "start"
  /\ UNCHANGED <<server, listAddr, phase, toDial, accepting, socks, start, nbAsked,
                 dealVars, loopVars>>

\* newMultiSend: a socket per contact.  A contact that cannot be dialed gives
\* a nil connection, which panics.
Connect ==
  /\ main = "connect"
  /\ main' = IF \A i \in DOMAIN contacts : Listening(contacts[i]) THEN "connected" ELSE "noContact"
  /\ channel' = [i \in DOMAIN contacts |-> <<>>]
  /\ sock' = [i \in DOMAIN contacts |-> "select"]
  /\ delivered' = [i \in DOMAIN contacts |-> <<>>]
  /\ UNCHANGED <<bootVars, start, nbAsked, contacts, dealVars, loop, waiter>>
-----------------------------------------------------------------------------
\* How much a message adds to the WaitGroup.
Added == IF randomDistrib THEN 1 ELSE nbOfNode

\* Mutant: the variable is made anew for each message.
DecodedPriorityAnew(p) == p
\* gob does not send a FALSE: it leaves the variable as it is.
DecodedPriority(p) == prio \/ p

Decode ==
  /\ Open /\ nbDecoded < Len(input)
  /\ nbDecoded' = nbDecoded + 1
  /\ prio' = DecodedPriority(input[nbDecoded + 1])
  /\ started' = started \cup {nbDecoded + 1}
  /\ waiter' = waiter + Added
  /\ UNCHANGED <<bootVars, mainVars, sending, loop, channel, sock, delivered>>

\* A goroutine reads message.Priority, perhaps that of a later message.
StartSend(t) ==
  /\ Open /\ t \in started
  /\ started' = started \ {t}
  /\ sending' = sending \cup {[tx |-> t, priority |-> prio]}
  /\ UNCHANGED <<bootVars, mainVars, nbDecoded, prio, loopVars>>

\* No node had registered, and the dealer waited for none: rand.Intn(0) panics.
LoopNoContact(m) ==
  /\ Open /\ loop = Idle /\ m \in sending /\ contacts = <<>>
  /\ IF randomDistrib THEN main' = "noChoice" /\ UNCHANGED sending
                      ELSE sending' = sending \ {m} /\ UNCHANGED main
  /\ UNCHANGED <<bootVars, start, nbAsked, contacts, nbDecoded, prio, started, loopVars>>

LoopTake(m) ==
  /\ Open /\ loop = Idle /\ m \in sending /\ contacts # <<>>
  /\ sending' = sending \ {m}
  /\ \E to \in IF randomDistrib THEN DOMAIN contacts ELSE {1} :
       loop' = [step |-> "hand", msg |-> m, to |-> to]
  /\ UNCHANGED <<bootVars, mainVars, nbDecoded, prio, started, channel, sock, waiter, delivered>>

\* Mutant: the last contact is forgotten.
HandedEarly(to) == to + 1 >= Len(contacts)
\* A message is out of the loop's hands.
Handed(to) == to = Len(contacts)

HasPlace(i) == Len(channel[i]) < NbMessChan

\* randomDistribution, uniformDistribution: the next channel, once it has a place.
LoopHand ==
  /\ Open /\ loop.step = "hand" /\ HasPlace(loop.to)
  /\ channel' = [channel EXCEPT ![loop.to] = Append(@, loop.msg)]
  /\ loop' = IF randomDistrib \/ Handed(loop.to) THEN Idle
             ELSE [loop EXCEPT !.to = @ + 1]
  /\ UNCHANGED <<bootVars, mainVars, dealVars, sock, waiter, delivered>>

\* Mutant: a message the contact did not take is not counted as done.
DoneIfSent(sent) == waiter' = IF sent THEN waiter - 1 ELSE waiter
\* wait.Done(), which panics below zero.
Done(sent) == waiter' = waiter - 1

NegativeCounter == IF waiter' < 0 THEN main' = "negative" ELSE UNCHANGED main

\* loopSocket sends a message.  To a contact that has stopped the first
\* messages may be lost without an error; an error has the socket removed.
SocketSend(i) ==
  /\ Open /\ sock[i] = "select" /\ channel[i] # <<>>
  /\ channel' = [channel EXCEPT ![i] = Tail(@)]
  /\ IF Stopped(contacts[i])
       THEN /\ \E next \in {"select", "remove"} : sock' = [sock EXCEPT ![i] = next]
            /\ Done(sock'[i] = "select")
            /\ UNCHANGED delivered
       ELSE /\ delivered' = [delivered EXCEPT ![i] = Append(@, Head(channel[i]))]
            /\ Done(TRUE)
            /\ UNCHANGED sock
  /\ NegativeCounter
  /\ UNCHANGED <<bootVars, start, nbAsked, contacts, dealVars, loop>>

\* The loop takes contacts away at an index past the end, which panics, but
\* never the first one.
Removable(i) == i > 1

\* The loop answers none of them: the socket drops its messages from now on.
Remove(i) ==
  /\ Open /\ loop = Idle /\ sock[i] = "remove"
  /\ sock' = [sock EXCEPT ![i] = "drain"]
  /\ main' = IF Removable(i) THEN "outOfRange" ELSE main
  /\ UNCHANGED <<bootVars, start, nbAsked, contacts, dealVars, loop, channel, waiter, delivered>>

Drain(i) ==
  /\ Open /\ sock[i] = "drain" /\ channel[i] # <<>>
  /\ channel' = [channel EXCEPT ![i] = Tail(@)]
  /\ Done(FALSE)
  /\ NegativeCounter
  /\ UNCHANGED <<bootVars, start, nbAsked, contacts, dealVars, loop, sock, delivered>>
-----------------------------------------------------------------------------
\* An interrupt: multiSend.close waits for the loop, then closes chanMsg under
\* the goroutines that are sending.  The program ends with what it still holds.
Close ==
  /\ Open /\ loop = Idle
  /\ main' = IF sending = {} THEN "ended" ELSE "chanMsg"
  /\ UNCHANGED <<bootVars, start, nbAsked, contacts, dealVars, loopVars>>

Init ==
  /\ BootInit
  /\ start \in Starts
  /\ main = "start" /\ nbAsked = 0 /\ contacts = <<>>
  /\ nbDecoded = 0 /\ prio = FALSE /\ started = {} /\ sending = {}
  /\ loop = Idle /\ channel = <<>> /\ sock = <<>> /\ waiter = 0 /\ delivered = <<>>

SocketStep(i) == i \in DOMAIN contacts /\ (SocketSend(i) \/ Drain(i))
LoopStep ==
  \/ \E m \in sending : LoopTake(m) \/ LoopNoContact(m)
  \/ LoopHand
  \/ \E i \in DOMAIN contacts : Remove(i)
Dealing == Ask \/ AskFails \/ Answer \/ Connect \/ Decode \/ \E t \in started : StartSend(t)

Next ==
  \/ BootNext /\ UNCHANGED <<mainVars, dealVars, loopVars>>
  \/ Dealing
  \/ LoopStep
  \/ \E i \in 1..Cardinality(Node) : SocketStep(i)
  \/ Close

Spec == Init /\ [][Next]_vars

\* Every goroutine and every program that can go on will.
Fairness ==
  /\ WF_vars(StartServer /\ UNCHANGED <<mainVars, dealVars, loopVars>>)
  /\ \A n \in Node :
       /\ WF_vars((Booting(n) \/ \E m \in Node : Meet(n, m))
                    /\ UNCHANGED <<mainVars, dealVars, loopVars>>)
       /\ WF_vars((Register(n) \/ ServeStopped(n)) /\ UNCHANGED <<mainVars, dealVars, loopVars>>)
  /\ WF_vars(Dealing)
  /\ WF_vars(LoopStep)
  /\ \A i \in 1..Cardinality(Node) : WF_vars(SocketStep(i))
FairSpec == Spec /\ Fairness
-----------------------------------------------------------------------------
Message == [tx : Messages, priority : BOOLEAN]

\* Every variable of the dealer has its type; no channel holds more than its
\* capacity.
TypeOK ==
  /\ start \in Starts
  /\ main \in {"start", "asked", "connect", "connected", "ended", "fatal",
               "noContact", "noChoice", "negative", "outOfRange", "chanMsg"}
  /\ nbAsked \in 0..MaxAsk /\ contacts \in Seq(Node)
  /\ nbDecoded \in 0..Len(input) /\ prio \in BOOLEAN
  /\ started \subseteq Messages /\ sending \subseteq Message
  /\ loop = Idle \/ loop \in [step : {"hand"}, msg : Message, to : 1..Len(contacts)]
  /\ \A i \in DOMAIN sock :
       /\ channel[i] \in Seq(Message) /\ Len(channel[i]) <= NbMessChan
       /\ sock[i] \in {"select", "remove", "drain"}
       /\ delivered[i] \in Seq(Message)

\* The WaitGroup counts the copies that are still on their way, through the
\* goroutines, the loop and the channels, if the dealer has as many contacts as
\* it asked for.  It falls below zero, and the dealer with it, only when more
\* nodes had registered.
Copies == IF randomDistrib THEN 1 ELSE Len(contacts)
InChannels == {p \in (DOMAIN channel) \X (1..NbMessChan) : p[2] \in DOMAIN channel[p[1]]}
NbHanding ==
  IF loop = Idle THEN 0 ELSE IF randomDistrib THEN 1 ELSE Len(contacts) - loop.to + 1
WaiterCounts ==
  IF Copies = Added
    THEN waiter = (Cardinality(started) + Cardinality(sending)) * Copies
                    + NbHanding + Cardinality(InChannels)
    ELSE main = "negative" => Copies > Added

\* A first contact that has stopped costs the others nothing: it is never what
\* ends the dealer.
FirstHarmless ==
  main = "outOfRange" => \E i \in 2..Len(contacts) : Stopped(contacts[i])

\* These three: what the dealer holds is counted, within the limits, and what
\* ends it is one of the two panics in the two cases in which they can happen.
DealerInv == TypeOK /\ WaiterCounts /\ FirstHarmless

\* A message that the client sent with priority is handed over with priority,
\* whatever is decoded before its goroutine runs.  (The others may be, too.)
PriorityHeld ==
  \A i \in DOMAIN delivered : \A j \in DOMAIN delivered[i] :
    input[delivered[i][j].tx] => delivered[i][j].priority

\* The loop waits for a place in the channel of a socket that waits for the loop.
LoopStuck ==
  loop # Idle /\ sock[loop.to] = "remove" /\ Len(channel[loop.to]) = NbMessChan

\* What the dealer decodes reaches every contact, or one if it chooses at
\* random, unless the contact or the dealer stops, or the loop and a socket
\* wait for each other.
Receives(i, t) == \E j \in DOMAIN delivered[i] : delivered[i][j].tx = t
Reached(t) ==
  LET ok == {i \in DOMAIN contacts : Receives(i, t) \/ Stopped(contacts[i])}
  IN IF randomDistrib THEN ok # {} ELSE ok = DOMAIN contacts
MaxMessages == UNION {DOMAIN s.input : s \in Starts}
ReachesAll ==
  \A t \in MaxMessages : (Open /\ t \in started) ~> (~Open \/ LoopStuck \/ Reached(t))
=============================================================================
