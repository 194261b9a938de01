--------------------------- MODULE Sockets_proofs ---------------------------
(***************************************************************************)
(* Proofs about the sockets, for any number of connections and messages:   *)
(* a socket the killer has finished is finished whole, and the order of    *)
(* the closing steps keeps the panics away that it is there for.           *)
(*                                                                         *)
(* The invariant says of each socket where it is between being made and    *)
(* being finished: with who opened it, in the list, with the killer, done. *)
(***************************************************************************)
EXTENDS Sockets, Functions, FiniteSetTheorems, SequenceTheorems, WellFoundedInduction, TLAPS

Ended == {"close", "done"}
\* The steps of the killer once it has closed the socket, and once it has
\* had it removed from the list.
Closed == {"remove", "delay", "loops"}
Gone == {"delay", "loops"}
Appended(s) == once[s] # "none" /\ \A o \in Opener : opener[o] # s
Killing(s, steps) == contract.sock = s /\ contract.step \in steps
Left(s) == \E i \in DOMAIN toKill : toKill[i] = s

Shape ==
  /\ list \in Seq(Conn \cup {NoConn})
  /\ opener \in [Opener -> Conn \cup {NoConn}]
  /\ peerUp \in [Conn -> BOOLEAN] /\ connOpen \in [Conn -> BOOLEAN]
  /\ pending \in [Conn -> Nat] /\ nbError \in [Conn -> Nat] /\ loopChan \in [Conn -> Nat]
  /\ reader \in [Conn -> {"none", "decode", "pass", "close", "done"}]
  /\ writer \in [Conn -> {"none", "range", "close", "done"}]
  /\ outClosed \in [Conn -> BOOLEAN] /\ delayClosed \in [Conn -> BOOLEAN]
  /\ once \in [Conn -> {"none", "no", "running", "done"}]
  /\ contract \in [sock : Conn \cup {NoConn}, by : Caller \cup {"nobody"},
                   step : {"idle", "exist", "wait", "close", "remove", "delay", "loops"}]
  /\ sender \in {"idle", "inMessage", "inMessageNV", "inTransac"}

\* How the closing has gone: what is closed under whom.
ClosingInv ==
  /\ stop \in BOOLEAN /\ listClosed \in BOOLEAN
  /\ incomingClosed \in BOOLEAN /\ contractClosed \in BOOLEAN
  /\ closer \in {"run", "list", "sockets", "handler", "accept", "listener", "closed"}
  /\ stop <=> closer # "run"
  /\ listClosed \/ contractClosed \/ incomingClosed =>
       closer \notin {"run", "list", "sockets"}
  /\ DOMAIN toKill # {} => closer = "sockets"
  /\ \A i \in DOMAIN toKill : i \in Nat
  /\ closer \in {"run", "list"} => snapshot = {}
  /\ \A s \in snapshot : s \in Conn /\ (once[s] = "done" \/ Left(s))

\* Where a socket is.
Place(s) ==
  /\ once[s] = "none" =>
       /\ reader[s] = "none" /\ writer[s] = "none" /\ nbError[s] = 0
       /\ ~outClosed[s] /\ \A o \in Opener : opener[o] # s
  /\ \A o \in Opener :
       opener[o] = s => o = IF s \in Dialed THEN "InitialiseConnection" ELSE "serverLoop"
  /\ Listed(s) => Appended(s)
  /\ Appended(s) => Listed(s) \/ once[s] = "done" \/ Killing(s, Gone)
  /\ pending[s] > 0 \/ writer[s] = "close" \/ Left(s) => Appended(s)
  /\ once[s] = "running" <=> contract.sock = s
  /\ Killing(s, {"wait", "close"} \cup Closed) => Appended(s)

\* How far its end is.
Ending(s) ==
  /\ loopChan[s] = (IF reader[s] \in Ended THEN 1 ELSE 0) + (IF writer[s] = "done" THEN 1 ELSE 0)
  /\ outClosed[s] => once[s] = "done" \/ Killing(s, Closed)
  /\ once[s] # "none" => (connOpen[s] <=> ~outClosed[s])
  /\ Killing(s, Closed) => outClosed[s]
  /\ Killing(s, Gone) => ~Listed(s)
  /\ delayClosed[s] => /\ outClosed[s] /\ ~Listed(s) /\ Appended(s)
                       /\ once[s] = "done" \/ Killing(s, {"loops"})
  /\ once[s] = "done" => reader[s] \in Ended /\ (delayClosed[s] => writer[s] = "done")
  /\ Killing(s, {"exist"}) /\ ~Appended(s) => reader[s] \in Ended
  /\ stop \/ ~peerUp[s]
     \/ /\ once[s] \notin {"running", "done"} /\ reader[s] \notin Ended
        /\ writer[s] # "close" /\ nbError[s] = 0

SocketsInv ==
  /\ Shape /\ ClosingInv /\ CloseOrder
  /\ contract = NoContract \/ contract.sock \in Conn
  /\ \A s \in Conn : Place(s) /\ Ending(s)
-----------------------------------------------------------------------------
LEMMA SocketsInit == Init => SocketsInv
<1> SUFFICES ASSUME Init PROVE SocketsInv
  OBVIOUS
<1> USE SocketsAssumption DEF Init
<1>1. Shape
  BY DEF Shape, NoContract, Caller
<1>2. DOMAIN toKill = {} /\ DOMAIN list = {}
  OBVIOUS
<1>3. ClosingInv
  BY <1>2 DEF ClosingInv
<1>4. CloseOrder
  BY DEF CloseOrder, NoPanic, Running
<1>5. ASSUME NEW s \in Conn PROVE Place(s) /\ Ending(s)
  BY <1>2 DEF Place, Ending, Listed, Appended, Killing, Left, NoContract, Ended, Closed, Gone,
     Opener
<1>6. QED BY <1>1, <1>3, <1>4, <1>5 DEF SocketsInv

\* What the invariant speaks of, but for the panic.
LEMMA SocketsStay ==
  ASSUME SocketsInv, CloseOrder',
         UNCHANGED <<list, opener, peerUp, connOpen, sockVars, killVars, closeVars, sender>>
  PROVE  SocketsInv'
<1>1. Shape' /\ ClosingInv'
  BY DEF SocketsInv, Shape, ClosingInv, Left, sockVars, killVars, closeVars
<1>2. ASSUME NEW s \in Conn PROVE Place(s)' /\ Ending(s)'
  BY DEF SocketsInv, Place, Ending, Listed, Appended, Killing, Left, sockVars, killVars,
     closeVars
<1>3. QED BY <1>1, <1>2 DEF SocketsInv, killVars

\* A step after which nobody has panicked keeps the closing in order.
LEMMA StillRunning == ASSUME panic' = NoPanic PROVE CloseOrder'
  BY DEF CloseOrder, NoPanic, Running

\* A panic of somebody who does not send a new delay, or pass a message on, or
\* call a killer that has stopped, once stop is set or a peer has left.
LEMMA LatePanic ==
  ASSUME NEW what, NEW s, Panic(what, s), what \notin {"delay", "incoming", "contract"},
         stop' \/ \E c \in Conn : once'[c] # "none" /\ ~peerUp'[c]
  PROVE  CloseOrder'
  BY DEF CloseOrder, Panic

\* Before it, nothing is closed under anybody while all the peers stay.
LEMMA ClosedForReason ==
  ASSUME SocketsInv,
  listClosed \/ incomingClosed \/ contractClosed \/ \E s \in Conn : outClosed[s]
  PROVE  stop \/ \E s \in Conn : once[s] # "none" /\ ~peerUp[s]
<1>1. CASE listClosed \/ incomingClosed \/ contractClosed
  BY <1>1 DEF SocketsInv, ClosingInv
<1>2. ASSUME NEW s \in Conn, outClosed[s], ~stop PROVE once[s] # "none" /\ ~peerUp[s]
  <2>1. once[s] # "none"
    BY <1>2 DEF SocketsInv, Place
  <2>2. once[s] \in {"running", "done"}
    BY <1>2 DEF SocketsInv, Ending, Place, Killing
  <2>3. QED BY <1>2, <2>1, <2>2 DEF SocketsInv, Ending
<1>3. QED BY <1>1, <1>2

\* What is the same of a socket after a step that is not about it.
Same(c) ==
  /\ peerUp'[c] = peerUp[c] /\ connOpen'[c] = connOpen[c] /\ pending'[c] = pending[c]
  /\ nbError'[c] = nbError[c] /\ loopChan'[c] = loopChan[c] /\ reader'[c] = reader[c]
  /\ writer'[c] = writer[c] /\ outClosed'[c] = outClosed[c]
  /\ delayClosed'[c] = delayClosed[c] /\ once'[c] = once[c]

\* A step that is not about a socket leaves it where it is.
LEMMA SamePlace ==
  ASSUME SocketsInv, NEW c \in Conn, Same(c), Listed(c)' <=> Listed(c),
         \A o \in Opener : opener'[o] = c <=> opener[o] = c,
         Left(c)' => Left(c), stop => stop',
         contract' = contract \/ (contract.sock # c /\ contract'.sock # c)
  PROVE  Place(c)' /\ Ending(c)'
<1>1. Place(c) /\ Ending(c)
  BY DEF SocketsInv
<1>2. Appended(c)' <=> Appended(c)
  BY DEF Appended, Same
<1>3. Place(c)'
  BY <1>1, <1>2 DEF Place, Same, Killing
<1>4. Ending(c)'
  BY <1>1, <1>2 DEF Ending, Same, Killing
<1>5. QED BY <1>3, <1>4

\* A peer that leaves only gives others a reason.
LEMMA PeerLeavesKeeps == ASSUME SocketsInv, NEW s \in Conn, PeerLeaves(s) PROVE SocketsInv'
<1>1. Shape' /\ (contract' = NoContract \/ contract'.sock \in Conn)
  BY SocketsAssumption DEF PeerLeaves, sockVars, killVars, sendVars, SocketsInv, Shape
<1>2. ClosingInv'
  BY DEF PeerLeaves, sockVars, killVars, closeVars, SocketsInv, Shape, ClosingInv, Left
<1>3. CloseOrder'
  BY StillRunning DEF PeerLeaves, Running
<1>4. ASSUME NEW c \in Conn, c # s PROVE Place(c)' /\ Ending(c)'
  <2>1. Same(c)
    BY <1>4 DEF PeerLeaves, sockVars, SocketsInv, Shape, Same
  <2>2. QED
    BY <1>4, <2>1, SamePlace DEF PeerLeaves, killVars, closeVars, SocketsInv, Listed, Left
<1>5. Place(s)' /\ Ending(s)'
  <2>1. /\ ~peerUp'[s]
        /\ connOpen'[s] = connOpen[s] /\ pending'[s] = pending[s] /\ nbError'[s] = nbError[s]
        /\ loopChan'[s] = loopChan[s] /\ reader'[s] = reader[s] /\ writer'[s] = writer[s]
        /\ outClosed'[s] = outClosed[s] /\ delayClosed'[s] = delayClosed[s] /\ once'[s] = once[s]
        /\ UNCHANGED <<opener, contract, stop>>
    BY DEF PeerLeaves, sockVars, killVars, closeVars, SocketsInv, Shape
  <2>2. (Listed(s)' <=> Listed(s)) /\ (Appended(s)' <=> Appended(s)) /\ (Left(s)' <=> Left(s))
    BY <2>1 DEF PeerLeaves, sockVars, closeVars, Listed, Appended, Left
  <2>3. Place(s) /\ Ending(s)
    BY DEF SocketsInv
  <2>4. Place(s)'
    BY <2>1, <2>2, <2>3 DEF Place, Ending, Killing
  <2>5. Ending(s)'
    BY <2>1, <2>2, <2>3 DEF Place, Ending, Killing, Ended, Closed, Gone
  <2>6. QED BY <2>4, <2>5
<1>6. QED BY <1>1, <1>2, <1>3, <1>4, <1>5 DEF SocketsInv

\* A reader with a message in hand is still one that has not ended.
LEMMA ReadKeeps == ASSUME SocketsInv, NEW s \in Conn, Read(s) PROVE SocketsInv'
<1>1. Shape' /\ (contract' = NoContract \/ contract'.sock \in Conn)
  BY SocketsAssumption DEF Read, killVars, sendVars, SocketsInv, Shape
<1>2. ClosingInv'
  BY DEF Read, killVars, closeVars, SocketsInv, Shape, ClosingInv, Left
<1>3. CloseOrder'
  BY StillRunning DEF Read, Running
<1>4. ASSUME NEW c \in Conn, c # s PROVE Place(c)' /\ Ending(c)'
  <2>1. Same(c)
    BY <1>4 DEF Read, SocketsInv, Shape, Same
  <2>2. QED BY <1>4, <2>1, SamePlace DEF Read, killVars, closeVars, SocketsInv, Listed, Left
<1>5. Place(s)' /\ Ending(s)'
  <2>1. /\ reader[s] = "decode" /\ reader'[s] = "pass"
        /\ peerUp'[s] = peerUp[s] /\ connOpen'[s] = connOpen[s] /\ pending'[s] = pending[s]
        /\ nbError'[s] = nbError[s] /\ loopChan'[s] = loopChan[s] /\ writer'[s] = writer[s]
        /\ outClosed'[s] = outClosed[s] /\ delayClosed'[s] = delayClosed[s] /\ once'[s] = once[s]
        /\ UNCHANGED <<opener, contract, stop>>
    BY DEF Read, killVars, closeVars, SocketsInv, Shape
  <2>2. (Listed(s)' <=> Listed(s)) /\ (Appended(s)' <=> Appended(s)) /\ (Left(s)' <=> Left(s))
    BY <2>1 DEF Read, closeVars, Listed, Appended, Left
  <2>3. Place(s) /\ Ending(s)
    BY DEF SocketsInv
  <2>4. Place(s)'
    BY <2>1, <2>2, <2>3 DEF Place, Ending, Killing
  <2>5. Ending(s)'
    BY <2>1, <2>2, <2>3 DEF Place, Ending, Killing, Ended, Closed, Gone
  <2>6. QED BY <2>4, <2>5
<1>6. QED BY <1>1, <1>2, <1>3, <1>4, <1>5 DEF SocketsInv

\* The first of the two goroutines to end, or the second.
LEMMA ReadErrorKeeps == ASSUME SocketsInv, NEW s \in Conn, ReadError(s) PROVE SocketsInv'
<1>1. Shape' /\ (contract' = NoContract \/ contract'.sock \in Conn)
  BY SMTT(30), SocketsAssumption
  DEF ReadError, AfterError, connVars, killVars, sendVars, SocketsInv, Shape
<1>2. ClosingInv'
  BY DEF ReadError, AfterError, killVars, closeVars, SocketsInv, Shape, ClosingInv, Left
<1>3. CloseOrder'
  BY StillRunning DEF ReadError, AfterError, Running
<1>4. ASSUME NEW c \in Conn, c # s PROVE Place(c)' /\ Ending(c)'
  <2>1. Same(c)
    BY <1>4 DEF ReadError, AfterError, connVars, SocketsInv, Shape, Same
  <2>2. QED
    BY <1>4, <2>1, SamePlace
    DEF ReadError, AfterError, killVars, closeVars, SocketsInv, Listed, Left
<1>5. Place(s)' /\ Ending(s)'
  <2>1. /\ reader[s] = "decode" /\ reader'[s] \in {"close", "done"} 
        /\ loopChan[s] \in Nat /\ loopChan'[s] = loopChan[s] + 1 /\ (~peerUp[s] \/ ~connOpen[s])
        /\ peerUp'[s] = peerUp[s] /\ connOpen'[s] = connOpen[s] /\ pending'[s] = pending[s]
        /\ nbError'[s] = nbError[s] /\ writer'[s] = writer[s] /\ outClosed'[s] = outClosed[s]
        /\ delayClosed'[s] = delayClosed[s] /\ once'[s] = once[s]
        /\ UNCHANGED <<opener, contract, stop>>
    BY DEF ReadError, AfterError, connVars, killVars, closeVars, SocketsInv, Shape
  <2>2. (Listed(s)' <=> Listed(s)) /\ (Appended(s)' <=> Appended(s)) /\ (Left(s)' <=> Left(s))
    BY <2>1 DEF ReadError, AfterError, closeVars, Listed, Appended, Left
  <2>3. Place(s) /\ Ending(s)
    BY DEF SocketsInv
  <2>4. Place(s)'
    BY <2>1, <2>2, <2>3 DEF Place, Ending, Killing
  <2>5. Ending(s)'
    BY <2>1, <2>2, <2>3 DEF Place, Ending, Killing, Ended, Closed, Gone
  <2>6. QED BY <2>4, <2>5
<1>6. QED BY <1>1, <1>2, <1>3, <1>4, <1>5 DEF SocketsInv

\* An encoding that fails has a peer that left.
LEMMA WriteKeeps == ASSUME SocketsInv, NEW s \in Conn, Write(s) PROVE SocketsInv'
<1> DEFINE count == nbError'[s]
<1>1. PICK failed \in BOOLEAN :
        /\ failed => ~peerUp[s]
        /\ nbError' = [nbError EXCEPT ![s] = IF failed THEN @ + 1 ELSE 0]
  BY DEF Write
<1>2. /\ nbError' \in [Conn -> Nat] /\ pending' \in [Conn -> Nat]
      /\ peerUp[s] => nbError'[s] = 0
  BY <1>1 DEF Write, SocketsInv, Shape
<1>3. /\ writer' = [writer EXCEPT ![s] = IF count > MaxError THEN "close" ELSE "range"]
      /\ count \in Nat /\ (count = 0 \/ ~peerUp[s])
  BY <1>2 DEF Write
<1> HIDE DEF count
<1>4. /\ writer' \in [Conn -> {"none", "range", "close", "done"}]
      /\ writer[s] = "range" /\ writer'[s] \in {"range", "close"}
      /\ \A c \in Conn : c # s => writer'[c] = writer[c]
      /\ writer'[s] = "range" \/ ~peerUp[s]
  BY <1>3, SocketsAssumption DEF Write, SocketsInv, Shape
<1>5. Shape' /\ (contract' = NoContract \/ contract'.sock \in Conn)
  BY <1>2, <1>4 DEF Write, SocketsInv, Shape, connVars, killVars, sendVars
<1>6. ClosingInv'
  BY DEF Write, SocketsInv, ClosingInv, Left, killVars, closeVars
<1>7. CloseOrder'
  BY StillRunning DEF Write, Running
<1>8. ASSUME NEW c \in Conn, c # s PROVE Place(c)' /\ Ending(c)'
  <2>1. Same(c)
    BY <1>1, <1>4, <1>8 DEF Write, SocketsInv, Shape, Same, connVars
  <2>2. QED BY <1>8, <2>1, SamePlace DEF Write, Listed, Left, killVars, closeVars
<1>9. Place(s)' /\ Ending(s)'
  <2>1. /\ pending[s] > 0 /\ ~outClosed[s]
        /\ peerUp'[s] = peerUp[s] /\ connOpen'[s] = connOpen[s] /\ loopChan'[s] = loopChan[s]
        /\ reader'[s] = reader[s] /\ outClosed'[s] = outClosed[s]
        /\ delayClosed'[s] = delayClosed[s] /\ once'[s] = once[s]
        /\ UNCHANGED <<opener, contract, stop>>
    BY DEF Write, connVars, killVars, closeVars
  <2>2. (Listed(s)' <=> Listed(s)) /\ (Appended(s)' <=> Appended(s)) /\ (Left(s)' <=> Left(s))
    BY <2>1 DEF Write, Listed, Appended, Left, closeVars
  <2>3. Place(s) /\ Ending(s)
    BY DEF SocketsInv
  <2>4. Place(s)'
    BY <1>4, <2>1, <2>2, <2>3 DEF Place, Killing
  <2>5. nbError'[s] = 0 \/ ~peerUp'[s]
    BY <1>2, <2>1
  <2>6. Ending(s)'
    BY <1>4, <2>1, <2>2, <2>3, <2>5 DEF Place, Ending, Killing
  <2>7. QED BY <2>4, <2>6
<1>10. QED BY <1>5, <1>6, <1>7, <1>8, <1>9 DEF SocketsInv

\* A writer ends because its channel is closed.
LEMMA WriterEndsKeeps == ASSUME SocketsInv, NEW s \in Conn, WriterEnds(s) PROVE SocketsInv'
<1>1. Shape' /\ (contract' = NoContract \/ contract'.sock \in Conn)
  BY SMTT(30), SocketsAssumption
  DEF WriterEnds, connVars, killVars, sendVars, SocketsInv, Shape
<1>2. ClosingInv'
  BY DEF WriterEnds, killVars, closeVars, SocketsInv, Shape, ClosingInv, Left
<1>3. CloseOrder'
  BY StillRunning DEF WriterEnds, Running
<1>4. ASSUME NEW c \in Conn, c # s PROVE Place(c)' /\ Ending(c)'
  <2>1. Same(c)
    BY <1>4 DEF WriterEnds, connVars, SocketsInv, Shape, Same
  <2>2. QED
    BY <1>4, <2>1, SamePlace DEF WriterEnds, killVars, closeVars, SocketsInv, Listed, Left
<1>5. Place(s)' /\ Ending(s)'
  <2>1. /\ writer[s] = "range" /\ writer'[s] = "done" /\ loopChan'[s] = loopChan[s] + 1
        /\ loopChan[s] \in Nat /\ outClosed[s]
        /\ peerUp'[s] = peerUp[s] /\ connOpen'[s] = connOpen[s] /\ pending'[s] = pending[s]
        /\ nbError'[s] = nbError[s] /\ reader'[s] = reader[s] /\ outClosed'[s] = outClosed[s]
        /\ delayClosed'[s] = delayClosed[s] /\ once'[s] = once[s]
        /\ UNCHANGED <<opener, contract, stop>>
    BY DEF WriterEnds, connVars, killVars, closeVars, SocketsInv, Shape
  <2>2. (Listed(s)' <=> Listed(s)) /\ (Appended(s)' <=> Appended(s)) /\ (Left(s)' <=> Left(s))
    BY <2>1 DEF WriterEnds, closeVars, Listed, Appended, Left
  <2>3. Place(s) /\ Ending(s)
    BY DEF SocketsInv
  <2>4. Place(s)'
    BY <2>1, <2>2, <2>3 DEF Place, Ending, Killing
  <2>5. Ending(s)'
    BY <2>1, <2>2, <2>3 DEF Place, Ending, Killing, Ended, Closed, Gone
  <2>6. QED BY <2>4, <2>5
<1>6. QED BY <1>1, <1>2, <1>3, <1>4, <1>5 DEF SocketsInv

\* A socket that is not in the list is one whose reader failed before it was
\* appended, so that the reader has ended.
LEMMA KillExistKeeps == ASSUME SocketsInv, NEW s \in Conn, KillExist(s) PROVE SocketsInv'
<1>1. Shape' /\ (contract' = NoContract \/ contract'.sock \in Conn)
  <2>1. contract' \in [sock : Conn \cup {NoConn}, by : Caller \cup {"nobody"},
                   step : {"idle", "exist", "wait", "close", "remove", "delay", "loops"}]
    <3>1. CASE Listed(s)
      BY <3>1 DEF KillExist, SocketsInv, Shape
    <3>2. CASE ~Listed(s)
      BY <3>2 DEF KillExist, Terminate, NoContract
    <3>3. QED BY <3>1, <3>2
  <2>2. once' \in [Conn -> {"none", "no", "running", "done"}]
    BY DEF KillExist, Terminate, SocketsInv, Shape
  <2>3. contract' = NoContract \/ contract'.sock \in Conn
    BY DEF KillExist, KillerOn, Terminate, SocketsInv, Shape
  <2>4. QED BY <2>1, <2>2, <2>3 DEF KillExist, SocketsInv, Shape, connVars, sendVars
<1>2. ClosingInv'
  BY DEF KillExist, KillerOn, NoContract, Terminate, closeVars, SocketsInv, Shape, ClosingInv,
     Left
<1>3. CloseOrder'
  BY StillRunning DEF KillExist, KillerOn, NoContract, Terminate, Running
<1>4. ASSUME NEW c \in Conn, c # s PROVE Place(c)' /\ Ending(c)'
  <2>1. Same(c) /\ contract.sock # c /\ contract'.sock # c
    BY <1>4, SocketsAssumption
    DEF KillExist, KillerOn, NoContract, Terminate, connVars, SocketsInv, Shape, Same
  <2>2. Listed(c)' <=> Listed(c)
    BY <1>4, SocketsAssumption
    DEF KillExist, KillerOn, NoContract, Terminate, SocketsInv, Shape, Listed
  <2>3. QED
    BY <1>4, <2>1, <2>2, SamePlace
    DEF KillExist, KillerOn, NoContract, Terminate, closeVars, Left
<1>5. Place(s)' /\ Ending(s)'
  <2>1. Place(s) /\ Ending(s)
    BY DEF SocketsInv
  <2>2. /\ contract.sock = s /\ contract.step = "exist"
        /\ \/ Listed(s) /\ contract'.sock = s /\ contract'.step = "wait" /\ once'[s] = once[s]
           \/ ~Listed(s) /\ contract'.sock # s /\ once'[s] = "done"
        /\ peerUp'[s] = peerUp[s] /\ connOpen'[s] = connOpen[s] /\ pending'[s] = pending[s]
        /\ nbError'[s] = nbError[s] /\ loopChan'[s] = loopChan[s] /\ reader'[s] = reader[s]
        /\ writer'[s] = writer[s] /\ outClosed'[s] = outClosed[s]
        /\ delayClosed'[s] = delayClosed[s]
        /\ UNCHANGED <<opener, stop>>
    BY SocketsAssumption
    DEF KillExist, KillerOn, NoContract, Terminate, connVars, closeVars, SocketsInv, Shape
  <2>3. (Listed(s)' <=> Listed(s)) /\ (Appended(s)' <=> Appended(s)) /\ (Left(s)' <=> Left(s))
    BY <2>1, <2>2, SocketsAssumption
    DEF KillExist, KillerOn, NoContract, Terminate, closeVars, SocketsInv, Shape, Listed,
       Appended, Left, Place
  <2>4. Place(s)'
    BY <2>1, <2>2, <2>3 DEF Place, Ending, Killing, Ended, Closed, Gone
  <2>5. Ending(s)'
    BY <2>1, <2>2, <2>3 DEF Place, Ending, Killing, Ended, Closed, Gone
  <2>6. QED BY <2>4, <2>5
<1>6. QED BY <1>1, <1>2, <1>3, <1>4, <1>5 DEF SocketsInv

\* The killer goes on with a socket that is in the list.
LEMMA KillWaitKeeps == ASSUME SocketsInv, NEW s \in Conn, KillWait(s) PROVE SocketsInv'
<1>1. Shape' /\ (contract' = NoContract \/ contract'.sock \in Conn)
  BY SocketsAssumption
  DEF KillWait, KillerOn, NoContract, connVars, sockVars, sendVars, SocketsInv, Shape
<1>2. ClosingInv'
  BY DEF KillWait, KillerOn, NoContract, sockVars, closeVars, SocketsInv, Shape, ClosingInv, Left
<1>3. CloseOrder'
  BY StillRunning DEF KillWait, KillerOn, NoContract, Running
<1>4. ASSUME NEW c \in Conn, c # s PROVE Place(c)' /\ Ending(c)'
  <2>1. Same(c) /\ contract.sock # c /\ contract'.sock # c
    BY <1>4, SocketsAssumption
    DEF KillWait, KillerOn, NoContract, connVars, sockVars, SocketsInv, Shape, Same
  <2>2. Listed(c)' <=> Listed(c)
    BY <1>4, SocketsAssumption DEF KillWait, KillerOn, NoContract, SocketsInv, Shape, Listed
  <2>3. QED BY <1>4, <2>1, <2>2, SamePlace DEF KillWait, KillerOn, NoContract, closeVars, Left
<1>5. Place(s)' /\ Ending(s)'
  <2>1. Place(s) /\ Ending(s)
    BY DEF SocketsInv
  <2>2. /\ contract.sock = s /\ contract.step = "wait" /\ contract'.sock = s
        /\ contract'.step = "close"
        /\ peerUp'[s] = peerUp[s] /\ connOpen'[s] = connOpen[s] /\ pending'[s] = pending[s]
        /\ nbError'[s] = nbError[s] /\ loopChan'[s] = loopChan[s] /\ reader'[s] = reader[s]
        /\ writer'[s] = writer[s] /\ outClosed'[s] = outClosed[s]
        /\ delayClosed'[s] = delayClosed[s]
        /\ once'[s] = once[s]
        /\ UNCHANGED <<opener, stop>>
    BY SocketsAssumption
    DEF KillWait, KillerOn, NoContract, connVars, sockVars, closeVars, SocketsInv, Shape
  <2>3. (Listed(s)' <=> Listed(s)) /\ (Appended(s)' <=> Appended(s)) /\ (Left(s)' <=> Left(s))
    BY <2>1, <2>2, SocketsAssumption
    DEF KillWait, KillerOn, NoContract, sockVars, closeVars, SocketsInv, Shape, Listed, Appended,
       Left, Place
  <2>4. Place(s)'
    BY <2>1, <2>2, <2>3 DEF Place, Ending, Killing, Ended, Closed, Gone
  <2>5. Ending(s)'
    BY <2>1, <2>2, <2>3 DEF Place, Ending, Killing, Ended, Closed, Gone
  <2>6. QED BY <2>4, <2>5
<1>6. QED BY <1>1, <1>2, <1>3, <1>4, <1>5 DEF SocketsInv

\* From here on the socket is closed, and the killer has it.
LEMMA KillCloseKeeps == ASSUME SocketsInv, NEW s \in Conn, KillClose(s) PROVE SocketsInv'
<1>1. Shape' /\ (contract' = NoContract \/ contract'.sock \in Conn)
  BY SocketsAssumption
  DEF KillClose, KillerOn, NoContract, CloseSocket, sendVars, SocketsInv, Shape
<1>2. ClosingInv'
  BY DEF KillClose, KillerOn, NoContract, CloseSocket, closeVars, SocketsInv, Shape, ClosingInv,
     Left
<1>3. CloseOrder'
  BY StillRunning DEF KillClose, KillerOn, NoContract, CloseSocket, Running
<1>4. ASSUME NEW c \in Conn, c # s PROVE Place(c)' /\ Ending(c)'
  <2>1. Same(c) /\ contract.sock # c /\ contract'.sock # c
    BY <1>4, SocketsAssumption
    DEF KillClose, KillerOn, NoContract, CloseSocket, SocketsInv, Shape, Same
  <2>2. Listed(c)' <=> Listed(c)
    BY <1>4, SocketsAssumption
    DEF KillClose, KillerOn, NoContract, CloseSocket, SocketsInv, Shape, Listed
  <2>3. QED
    BY <1>4, <2>1, <2>2, SamePlace
    DEF KillClose, KillerOn, NoContract, CloseSocket, closeVars, Left
<1>5. Place(s)' /\ Ending(s)'
  <2>1. Place(s) /\ Ending(s)
    BY DEF SocketsInv
  <2>2. /\ contract.sock = s /\ contract.step = "close" /\ contract'.sock = s
        /\ contract'.step = "remove"
        /\ outClosed'[s] /\ ~connOpen'[s]
        /\ peerUp'[s] = peerUp[s] /\ pending'[s] = pending[s] /\ nbError'[s] = nbError[s]
        /\ loopChan'[s] = loopChan[s] /\ reader'[s] = reader[s] /\ writer'[s] = writer[s]
        /\ delayClosed'[s] = delayClosed[s] /\ once'[s] = once[s]
        /\ UNCHANGED <<opener, stop>>
    BY SocketsAssumption
    DEF KillClose, KillerOn, NoContract, CloseSocket, closeVars, SocketsInv, Shape
  <2>3. (Listed(s)' <=> Listed(s)) /\ (Appended(s)' <=> Appended(s)) /\ (Left(s)' <=> Left(s))
    BY <2>1, <2>2, SocketsAssumption
    DEF KillClose, KillerOn, NoContract, CloseSocket, closeVars, SocketsInv, Shape, Listed,
       Appended, Left, Place
  <2>4. Place(s)'
    BY <2>1, <2>2, <2>3 DEF Place, Ending, Killing, Ended, Closed, Gone
  <2>5. Ending(s)'
    BY <2>1, <2>2, <2>3 DEF Place, Ending, Killing, Ended, Closed, Gone
  <2>6. QED BY <2>4, <2>5
<1>6. QED BY <1>1, <1>2, <1>3, <1>4, <1>5 DEF SocketsInv

\* From here on the socket is in no slot; nobody will append it again.
LEMMA KillRemoveKeeps == ASSUME SocketsInv, NEW s \in Conn, KillRemove(s) PROVE SocketsInv'
<1>1. Shape' /\ (contract' = NoContract \/ contract'.sock \in Conn)
  <2>1. list' \in [1..Len(list) -> Conn \cup {NoConn}]
    BY DEF KillRemove, SocketsInv, Shape
  <2>2. list' \in Seq(Conn \cup {NoConn})
    <3>1. Len(list) \in Nat
      BY DEF SocketsInv, Shape
    <3>2. QED BY <2>1, <3>1, SeqDef
  <2>3. QED
    BY <2>2, SocketsAssumption
    DEF KillRemove, KillerOn, NoContract, SocketsInv, Shape, connVars, sockVars, sendVars
<1>2. ClosingInv'
  BY DEF KillRemove, KillerOn, NoContract, sockVars, closeVars, SocketsInv, Shape, ClosingInv,
     Left
<1>3. CloseOrder'
  BY StillRunning DEF KillRemove, KillerOn, NoContract, Running
<1>4. ASSUME NEW c \in Conn, c # s PROVE Place(c)' /\ Ending(c)'
  <2>1. Same(c) /\ contract.sock # c /\ contract'.sock # c
    BY <1>4, SocketsAssumption
    DEF KillRemove, KillerOn, NoContract, connVars, sockVars, SocketsInv, Shape, Same
  <2>2. Listed(c)' <=> Listed(c)
    BY <1>4, SocketsAssumption DEF KillRemove, KillerOn, NoContract, SocketsInv, Shape, Listed
  <2>3. QED BY <1>4, <2>1, <2>2, SamePlace DEF KillRemove, KillerOn, NoContract, closeVars, Left
<1>5. Place(s)' /\ Ending(s)'
  <2>1. Place(s) /\ Ending(s)
    BY DEF SocketsInv
  <2>2. /\ contract.sock = s /\ contract.step = "remove" /\ contract'.sock = s
        /\ contract'.step = "delay"
        /\ peerUp'[s] = peerUp[s] /\ connOpen'[s] = connOpen[s] /\ pending'[s] = pending[s]
        /\ nbError'[s] = nbError[s] /\ loopChan'[s] = loopChan[s] /\ reader'[s] = reader[s]
        /\ writer'[s] = writer[s] /\ outClosed'[s] = outClosed[s]
        /\ delayClosed'[s] = delayClosed[s]
        /\ once'[s] = once[s]
        /\ UNCHANGED <<opener, stop>>
    BY SocketsAssumption
    DEF KillRemove, KillerOn, NoContract, connVars, sockVars, closeVars, SocketsInv, Shape
  <2>3. ~Listed(s)' /\ (Appended(s)' <=> Appended(s)) /\ (Left(s)' <=> Left(s))
    BY <2>1, <2>2, SocketsAssumption
    DEF KillRemove, KillerOn, NoContract, sockVars, closeVars, SocketsInv, Shape, Listed,
       Appended, Left, Place
  <2>4. Place(s)'
    BY <2>1, <2>2, <2>3 DEF Place, Ending, Killing, Ended, Closed, Gone
  <2>5. Ending(s)'
    BY <2>1, <2>2, <2>3 DEF Place, Ending, Killing, Ended, Closed, Gone
  <2>6. QED BY <2>4, <2>5
<1>6. QED BY <1>1, <1>2, <1>3, <1>4, <1>5 DEF SocketsInv

\* No new delay reaches it: the list does not have it any more.
LEMMA KillDelayKeeps == ASSUME SocketsInv, NEW s \in Conn, KillDelay(s) PROVE SocketsInv'
<1>1. Shape' /\ (contract' = NoContract \/ contract'.sock \in Conn)
  BY SocketsAssumption DEF KillDelay, KillerOn, NoContract, connVars, sendVars, SocketsInv, Shape
<1>2. ClosingInv'
  BY DEF KillDelay, KillerOn, NoContract, closeVars, SocketsInv, Shape, ClosingInv, Left
<1>3. CloseOrder'
  BY StillRunning DEF KillDelay, KillerOn, NoContract, Running
<1>4. ASSUME NEW c \in Conn, c # s PROVE Place(c)' /\ Ending(c)'
  <2>1. Same(c) /\ contract.sock # c /\ contract'.sock # c
    BY <1>4, SocketsAssumption
    DEF KillDelay, KillerOn, NoContract, connVars, SocketsInv, Shape, Same
  <2>2. Listed(c)' <=> Listed(c)
    BY <1>4, SocketsAssumption DEF KillDelay, KillerOn, NoContract, SocketsInv, Shape, Listed
  <2>3. QED BY <1>4, <2>1, <2>2, SamePlace DEF KillDelay, KillerOn, NoContract, closeVars, Left
<1>5. Place(s)' /\ Ending(s)'
  <2>1. Place(s) /\ Ending(s)
    BY DEF SocketsInv
  <2>2. /\ contract.sock = s /\ contract.step = "delay" /\ contract'.sock = s
        /\ contract'.step = "loops"
        /\ delayClosed'[s]
        /\ peerUp'[s] = peerUp[s] /\ connOpen'[s] = connOpen[s] /\ pending'[s] = pending[s]
        /\ nbError'[s] = nbError[s] /\ loopChan'[s] = loopChan[s] /\ reader'[s] = reader[s]
        /\ writer'[s] = writer[s] /\ outClosed'[s] = outClosed[s] /\ once'[s] = once[s]
        /\ UNCHANGED <<opener, stop>>
    BY SocketsAssumption
    DEF KillDelay, KillerOn, NoContract, connVars, closeVars, SocketsInv, Shape
  <2>3. (Listed(s)' <=> Listed(s)) /\ (Appended(s)' <=> Appended(s)) /\ (Left(s)' <=> Left(s))
    BY <2>1, <2>2, SocketsAssumption
    DEF KillDelay, KillerOn, NoContract, closeVars, SocketsInv, Shape, Listed, Appended, Left,
       Place
  <2>4. Place(s)'
    BY <2>1, <2>2, <2>3 DEF Place, Ending, Killing, Ended, Closed, Gone
  <2>5. Ending(s)'
    BY <2>1, <2>2, <2>3 DEF Place, Ending, Killing, Ended, Closed, Gone
  <2>6. QED BY <2>4, <2>5
<1>6. QED BY <1>1, <1>2, <1>3, <1>4, <1>5 DEF SocketsInv

\* Both goroutines have ended.
LEMMA KillEndKeeps == ASSUME SocketsInv, NEW s \in Conn, KillEnd(s) PROVE SocketsInv'
<1>1. Shape' /\ (contract' = NoContract \/ contract'.sock \in Conn)
  BY SocketsAssumption
  DEF KillEnd, KillerOn, NoContract, Terminate, GoroutinesEnded, connVars, sendVars, SocketsInv,
     Shape
<1>2. ClosingInv'
  BY DEF KillEnd, KillerOn, NoContract, Terminate, GoroutinesEnded, closeVars, SocketsInv, Shape,
     ClosingInv, Left
<1>3. CloseOrder'
  BY StillRunning DEF KillEnd, KillerOn, NoContract, Terminate, GoroutinesEnded, Running
<1>4. ASSUME NEW c \in Conn, c # s PROVE Place(c)' /\ Ending(c)'
  <2>1. Same(c) /\ contract.sock # c /\ contract'.sock # c
    BY <1>4, SocketsAssumption
    DEF KillEnd, KillerOn, NoContract, Terminate, GoroutinesEnded, connVars, SocketsInv, Shape,
       Same
  <2>2. Listed(c)' <=> Listed(c)
    BY <1>4, SocketsAssumption
    DEF KillEnd, KillerOn, NoContract, Terminate, GoroutinesEnded, SocketsInv, Shape, Listed
  <2>3. QED
    BY <1>4, <2>1, <2>2, SamePlace
    DEF KillEnd, KillerOn, NoContract, Terminate, GoroutinesEnded, closeVars, Left
<1>5. Place(s)' /\ Ending(s)'
  <2>1. Place(s) /\ Ending(s)
    BY DEF SocketsInv
  <2>2. /\ contract.sock = s /\ contract.step = "loops" /\ contract'.sock # s
        /\ once'[s] = "done" /\ loopChan[s] = 2
        /\ peerUp'[s] = peerUp[s] /\ connOpen'[s] = connOpen[s] /\ pending'[s] = pending[s]
        /\ nbError'[s] = nbError[s] /\ loopChan'[s] = loopChan[s] /\ reader'[s] = reader[s]
        /\ writer'[s] = writer[s] /\ outClosed'[s] = outClosed[s]
        /\ delayClosed'[s] = delayClosed[s]
        /\ UNCHANGED <<opener, stop>>
    BY SocketsAssumption
    DEF KillEnd, KillerOn, NoContract, Terminate, GoroutinesEnded, connVars, closeVars,
       SocketsInv, Shape
  <2>3. (Listed(s)' <=> Listed(s)) /\ (Appended(s)' <=> Appended(s)) /\ (Left(s)' <=> Left(s))
    BY <2>1, <2>2, SocketsAssumption
    DEF KillEnd, KillerOn, NoContract, Terminate, GoroutinesEnded, closeVars, SocketsInv, Shape,
       Listed, Appended, Left, Place
  <2>4. Place(s)'
    BY <2>1, <2>2, <2>3 DEF Place, Ending, Killing, Ended, Closed, Gone
  <2>5. Ending(s)'
    BY <2>1, <2>2, <2>3 DEF Place, Ending, Killing, Ended, Closed, Gone
  <2>6. QED BY <2>4, <2>5
<1>6. QED BY <1>1, <1>2, <1>3, <1>4, <1>5 DEF SocketsInv

\* Close sets stop first.
LEMMA CloseBeginsKeeps == ASSUME SocketsInv, CloseBegins PROVE SocketsInv'
<1>1. Shape' /\ (contract' = NoContract \/ contract'.sock \in Conn)
  BY DEF CloseBegins, connVars, sockVars, killVars, sendVars, SocketsInv, Shape
<1>2. ClosingInv'
  BY DEF CloseBegins, sockVars, killVars, SocketsInv, ClosingInv, Left
<1>3. CloseOrder'
  BY StillRunning DEF CloseBegins, Running
<1>4. ASSUME NEW c \in Conn PROVE Place(c)' /\ Ending(c)'
  <2>1. Same(c) /\ (Listed(c)' <=> Listed(c)) /\ (Left(c)' => Left(c)) /\ (stop => stop')
    BY DEF CloseBegins, connVars, sockVars, killVars, sendVars, Same, Listed, Left
  <2>2. QED BY <2>1, SamePlace DEF CloseBegins, connVars, sockVars, killVars, sendVars
<1>5. QED BY <1>1, <1>2, <1>3, <1>4 DEF SocketsInv

\* Every socket of the copy is done when the killer is closed.
LEMMA CloseKillerKeeps == ASSUME SocketsInv, CloseKiller PROVE SocketsInv'
<1>1. Shape' /\ (contract' = NoContract \/ contract'.sock \in Conn)
  BY DEF CloseKiller, connVars, sockVars, sendVars, SocketsInv, Shape
<1>2. ClosingInv'
  BY DEF CloseKiller, sockVars, SocketsInv, ClosingInv, Left
<1>3. CloseOrder'
  BY StillRunning DEF CloseKiller, Running
<1>4. ASSUME NEW c \in Conn PROVE Place(c)' /\ Ending(c)'
  <2>1. Same(c) /\ (Listed(c)' <=> Listed(c)) /\ (Left(c)' => Left(c)) /\ (stop => stop')
    BY DEF CloseKiller, connVars, sockVars, sendVars, Same, Listed, Left
  <2>2. QED BY <2>1, SamePlace DEF CloseKiller, connVars, sockVars, sendVars
<1>5. QED BY <1>1, <1>2, <1>3, <1>4 DEF SocketsInv

\* The list is closed after the killer.
LEMMA CloseListKeeps == ASSUME SocketsInv, CloseList PROVE SocketsInv'
<1>1. Shape' /\ (contract' = NoContract \/ contract'.sock \in Conn)
  BY DEF CloseList, connVars, sockVars, killVars, sendVars, SocketsInv, Shape
<1>2. ClosingInv'
  BY DEF CloseList, sockVars, killVars, SocketsInv, ClosingInv, Left
<1>3. CloseOrder'
  BY StillRunning DEF CloseList, Running
<1>4. ASSUME NEW c \in Conn PROVE Place(c)' /\ Ending(c)'
  <2>1. Same(c) /\ (Listed(c)' <=> Listed(c)) /\ (Left(c)' => Left(c)) /\ (stop => stop')
    BY DEF CloseList, connVars, sockVars, killVars, sendVars, Same, Listed, Left
  <2>2. QED BY <2>1, SamePlace DEF CloseList, connVars, sockVars, killVars, sendVars
<1>5. QED BY <1>1, <1>2, <1>3, <1>4 DEF SocketsInv

\* Closing incoming comes after the sockets of the copy.
LEMMA CloseListenerKeeps == ASSUME SocketsInv, CloseListener PROVE SocketsInv'
<1>1. Shape' /\ (contract' = NoContract \/ contract'.sock \in Conn)
  BY DEF CloseListener, connVars, sockVars, killVars, sendVars, SocketsInv, Shape
<1>2. ClosingInv'
  BY DEF CloseListener, sockVars, killVars, SocketsInv, ClosingInv, Left
<1>3. CloseOrder'
  BY StillRunning DEF CloseListener, Running
<1>4. ASSUME NEW c \in Conn PROVE Place(c)' /\ Ending(c)'
  <2>1. Same(c) /\ (Listed(c)' <=> Listed(c)) /\ (Left(c)' => Left(c)) /\ (stop => stop')
    BY DEF CloseListener, connVars, sockVars, killVars, sendVars, Same, Listed, Left
  <2>2. QED BY <2>1, SamePlace DEF CloseListener, connVars, sockVars, killVars, sendVars
<1>5. QED BY <1>1, <1>2, <1>3, <1>4 DEF SocketsInv

\* The last step of Close.
LEMMA CloseEndKeeps == ASSUME SocketsInv, CloseEnd PROVE SocketsInv'
<1>1. Shape' /\ (contract' = NoContract \/ contract'.sock \in Conn)
  BY DEF CloseEnd, connVars, sockVars, killVars, sendVars, SocketsInv, Shape
<1>2. ClosingInv'
  BY DEF CloseEnd, sockVars, killVars, SocketsInv, ClosingInv, Left
<1>3. CloseOrder'
  BY StillRunning DEF CloseEnd, Running
<1>4. ASSUME NEW c \in Conn PROVE Place(c)' /\ Ending(c)'
  <2>1. Same(c) /\ (Listed(c)' <=> Listed(c)) /\ (Left(c)' => Left(c)) /\ (stop => stop')
    BY DEF CloseEnd, connVars, sockVars, killVars, sendVars, Same, Listed, Left
  <2>2. QED BY <2>1, SamePlace DEF CloseEnd, connVars, sockVars, killVars, sendVars
<1>5. QED BY <1>1, <1>2, <1>3, <1>4 DEF SocketsInv

\* A sender that has seen stop unset is on its way.
LEMMA SendKeeps == ASSUME SocketsInv, NEW channel \in {"inMessage", "inMessageNV", "inTransac"},
       Send(channel) PROVE SocketsInv'
<1>1. Shape' /\ (contract' = NoContract \/ contract'.sock \in Conn)
  BY DEF Send, connVars, sockVars, killVars, SocketsInv, Shape
<1>2. ClosingInv'
  BY DEF Send, sockVars, killVars, closeVars, SocketsInv, ClosingInv, Left
<1>3. CloseOrder'
  BY StillRunning DEF Send, Running
<1>4. ASSUME NEW c \in Conn PROVE Place(c)' /\ Ending(c)'
  <2>1. Same(c) /\ (Listed(c)' <=> Listed(c)) /\ (Left(c)' => Left(c)) /\ (stop => stop')
    BY DEF Send, connVars, sockVars, killVars, closeVars, Same, Listed, Left
  <2>2. QED BY <2>1, SamePlace DEF Send, connVars, sockVars, killVars, closeVars
<1>5. QED BY <1>1, <1>2, <1>3, <1>4 DEF SocketsInv

\* Close goes on to the next slot of its copy when the socket is done.
LEMMA LeaveCloseKeeps ==
  ASSUME SocketsInv, NEW s \in Conn, NEW who \in Caller, LeaveClose(who, s) PROVE SocketsInv'
<1>1. Shape' /\ (contract' = NoContract \/ contract'.sock \in Conn)
  BY DEF LeaveClose, SocketsInv, Shape, killVars, connVars, sendVars
<1>2. /\ DOMAIN toKill' = {j \in DOMAIN toKill : who = "closer" => ~Slot(j)}
      /\ \A j \in DOMAIN toKill' : toKill'[j] = toKill[j]
  BY DEF LeaveClose
<1>3. ASSUME NEW c \in Conn, c # s \/ who # "closer" PROVE Left(c)' <=> Left(c)
  <2>1. CASE who # "closer"
    BY <1>2, <2>1 DEF Left
  <2>2. CASE c # s /\ who = "closer"
    <3>1. PICK i \in DOMAIN toKill : Slot(i) /\ toKill[i] = s
      BY <2>2 DEF LeaveClose, InClose
    <3>2. ASSUME NEW j \in DOMAIN toKill, Slot(j) PROVE j = i
      <4>1. i \in Nat /\ j \in Nat
        BY <3>1, <3>2 DEF SocketsInv, ClosingInv
      <4>2. QED BY <3>1, <3>2, <4>1 DEF Slot
    <3>3. DOMAIN toKill' = DOMAIN toKill \ {i}
      BY <1>2, <2>2, <3>1, <3>2
    <3>4. QED BY <1>2, <2>2, <3>1, <3>3 DEF Left
  <2>3. QED BY <1>3, <2>1, <2>2
<1>4. Left(s)' => Left(s)
  BY <1>2 DEF Left
<1>5. ClosingInv'
  <2>1. ASSUME NEW c \in snapshot' PROVE c \in Conn /\ (once'[c] = "done" \/ Left(c)')
    <3>1. c \in Conn /\ (once[c] = "done" \/ Left(c))
      BY <2>1 DEF LeaveClose, SocketsInv, ClosingInv
    <3>2. CASE c = s
      BY <3>1, <3>2 DEF LeaveClose
    <3>3. CASE c # s
      BY <1>3, <3>1, <3>3 DEF LeaveClose
    <3>4. QED BY <3>2, <3>3
  <2>2. (DOMAIN toKill' # {} => closer' = "sockets") /\ \A i \in DOMAIN toKill' : i \in Nat
    BY <1>2 DEF LeaveClose, SocketsInv, ClosingInv
  <2>3. QED BY <2>1, <2>2 DEF LeaveClose, SocketsInv, ClosingInv, killVars
<1>6. CloseOrder'
  BY StillRunning DEF LeaveClose, Running
<1>7. ASSUME NEW c \in Conn, c # s PROVE Place(c)' /\ Ending(c)'
  <2>1. Same(c)
    BY <1>7 DEF LeaveClose, SocketsInv, Shape, Same, connVars
  <2>2. QED BY <1>3, <1>7, <2>1, SamePlace DEF LeaveClose, Listed, killVars
<1>8. Place(s)' /\ Ending(s)'
  <2>1. /\ reader'[s] = reader[s] \/ (reader[s] = "close" /\ reader'[s] = "done")
        /\ writer'[s] = writer[s] \/ (writer[s] = "close" /\ writer'[s] = "range")
        /\ peerUp'[s] = peerUp[s] /\ connOpen'[s] = connOpen[s] /\ pending'[s] = pending[s]
        /\ nbError'[s] = nbError[s] /\ loopChan'[s] = loopChan[s]
        /\ outClosed'[s] = outClosed[s] /\ delayClosed'[s] = delayClosed[s]
        /\ once'[s] = once[s] /\ UNCHANGED <<opener, contract, stop>>
    BY DEF LeaveClose, InClose, SocketsInv, Shape, connVars, killVars
  <2>2. (Listed(s)' <=> Listed(s)) /\ (Appended(s)' <=> Appended(s))
    BY <2>1 DEF LeaveClose, Listed, Appended
  <2>3. Place(s) /\ Ending(s)
    BY DEF SocketsInv
  <2>4. Place(s)'
    BY <1>4, <2>1, <2>2, <2>3 DEF Place, Killing
  <2>5. Ending(s)'
    BY <2>1, <2>2, <2>3 DEF Ending, Killing, Ended
  <2>6. QED BY <2>4, <2>5
<1>9. QED BY <1>1, <1>5, <1>6, <1>7, <1>8 DEF SocketsInv

\* Who calls the killer has a socket of the list, or is its reader; a contract
\* after the killer has stopped is not for a socket of Close's copy.
LEMMA CallKillKeeps ==
  ASSUME SocketsInv, NEW s \in Conn, NEW who \in Caller, CallKill(who, s) PROVE SocketsInv'
<1>1. Place(s) /\ Ending(s)
  BY DEF SocketsInv
<1>2. CASE contractClosed
  <2>1. s \notin snapshot
    BY <1>2 DEF CallKill, SocketsInv, ClosingInv, Left
  <2>2. stop
    BY <1>2 DEF SocketsInv, ClosingInv
  <2>3. CloseOrder'
    BY <1>2, <2>1, <2>2 DEF CallKill, Panic, CloseOrder, closeVars
  <2>4. QED BY <1>2, <2>3, SocketsStay DEF CallKill, connVars, sockVars, killVars, sendVars
<1>3. CASE ~contractClosed
  <2>0. contract.sock = NoConn /\ contract'.sock = s /\ contract'.step = "exist"
    BY <1>3 DEF CallKill, NoContract
  <2>1. /\ contract.sock = NoConn /\ contract'.sock = s /\ contract'.step = "exist"
        /\ once[s] = "no" /\ once'[s] = "running"
        /\ once' \in [Conn -> {"none", "no", "running", "done"}]
        /\ \A c \in Conn : c # s => once'[c] = once[c]
    BY <1>3, <2>0 DEF CallKill, SocketsInv, Shape
  <2>2. contract' \in [sock : Conn \cup {NoConn}, by : Caller \cup {"nobody"},
                       step : {"idle", "exist", "wait", "close", "remove", "delay", "loops"}]
    BY <1>3 DEF CallKill
  <2>3. Shape' /\ (contract' = NoContract \/ contract'.sock \in Conn)
    BY <2>1, <2>2 DEF CallKill, SocketsInv, Shape, connVars, sendVars
  <2>4. ClosingInv'
    BY <1>3, <2>1 DEF CallKill, SocketsInv, ClosingInv, Left, closeVars
  <2>5. CloseOrder'
    BY <1>3, StillRunning DEF CallKill, Running
  <2>6. ASSUME NEW c \in Conn, c # s PROVE Place(c)' /\ Ending(c)'
    <3>1. Same(c) /\ contract.sock # c /\ contract'.sock # c
      BY <2>1, <2>6, SocketsAssumption DEF CallKill, Same, connVars
    <3>2. QED BY <2>6, <3>1, SamePlace DEF CallKill, Listed, Left, closeVars
  <2>7. Place(s)' /\ Ending(s)'
    <3>1. /\ reader'[s] = reader[s] /\ writer'[s] = writer[s] /\ loopChan'[s] = loopChan[s]
          /\ peerUp'[s] = peerUp[s] /\ connOpen'[s] = connOpen[s] /\ pending'[s] = pending[s]
          /\ nbError'[s] = nbError[s] /\ outClosed'[s] = outClosed[s]
          /\ delayClosed'[s] = delayClosed[s] /\ UNCHANGED <<opener, stop>>
      BY DEF CallKill, connVars, closeVars
    <3>2. /\ Listed(s)' <=> Listed(s)
          /\ Appended(s)' <=> Appended(s)
          /\ Left(s)' <=> Left(s)
      BY <2>1, <3>1 DEF CallKill, Listed, Appended, Left, closeVars
    <3>3. reader[s] = "close" \/ writer[s] = "close" \/ (Left(s) /\ stop)
      BY DEF CallKill, InClose, Caller, Left, SocketsInv, ClosingInv
    <3>4. Place(s)'
      BY <1>1, <2>1, <3>1, <3>2 DEF Place, Killing, Closed, Gone
    <3>5. Ending(s)'
      BY <1>1, <2>1, <3>1, <3>2, <3>3, SocketsAssumption
      DEF Place, Ending, Killing, Ended, Closed, Gone
    <3>6. QED BY <3>4, <3>5
  <2>8. QED BY <2>3, <2>4, <2>5, <2>6, <2>7 DEF SocketsInv
<1>4. QED BY <1>2, <1>3

\* A reader that passes a message on when incoming is closed reads from a socket
\* that was not in Close's copy.
LEMMA PassKeeps == ASSUME SocketsInv, NEW s \in Conn, Pass(s) PROVE SocketsInv'
<1>1. Place(s) /\ Ending(s)
  BY DEF SocketsInv
<1>2. CASE incomingClosed
  <2>1. s \notin snapshot
    BY <1>1, <1>2 DEF Pass, SocketsInv, ClosingInv, Left, Ending, Ended
  <2>2. stop
    BY <1>2 DEF SocketsInv, ClosingInv
  <2>3. CloseOrder'
    BY <1>2, <2>1, <2>2 DEF Pass, Panic, CloseOrder, closeVars
  <2>4. QED BY <1>2, <2>3, SocketsStay DEF Pass, connVars, sockVars, sendVars
<1>3. CASE ~incomingClosed
  <2>1. /\ reader[s] = "pass" /\ reader'[s] = "decode"
        /\ \A c \in Conn : c # s => reader'[c] = reader[c]
    BY <1>3 DEF Pass, SocketsInv, Shape
  <2>2. Shape' /\ (contract' = NoContract \/ contract'.sock \in Conn)
    BY <1>3 DEF Pass, SocketsInv, Shape, connVars, killVars, sendVars
  <2>3. ClosingInv'
    BY DEF Pass, SocketsInv, ClosingInv, Left, killVars, closeVars
  <2>4. CloseOrder'
    BY <1>3, StillRunning DEF Pass, Running
  <2>5. ASSUME NEW c \in Conn, c # s PROVE Place(c)' /\ Ending(c)'
    <3>1. Same(c)
      BY <2>1, <2>5 DEF Pass, Same, connVars
    <3>2. QED BY <2>5, <3>1, SamePlace DEF Pass, Listed, Left, killVars, closeVars
  <2>6. Place(s)' /\ Ending(s)'
    <3>1. /\ once'[s] = once[s] /\ writer'[s] = writer[s] /\ loopChan'[s] = loopChan[s]
          /\ peerUp'[s] = peerUp[s] /\ connOpen'[s] = connOpen[s] /\ pending'[s] = pending[s]
          /\ nbError'[s] = nbError[s] /\ outClosed'[s] = outClosed[s]
          /\ delayClosed'[s] = delayClosed[s] /\ UNCHANGED <<opener, stop, contract>>
      BY DEF Pass, connVars, closeVars, killVars
    <3>2. /\ Listed(s)' <=> Listed(s)
          /\ Appended(s)' <=> Appended(s)
          /\ Left(s)' <=> Left(s)
      BY <3>1 DEF Pass, Listed, Appended, Left, closeVars
    <3>3. Place(s)'
      BY <1>1, <2>1, <3>1, <3>2 DEF Place, Killing
    <3>4. Ending(s)'
      BY <1>1, <2>1, <3>1, <3>2 DEF Ending, Killing, Ended
    <3>5. QED BY <3>3, <3>4
  <2>7. QED BY <2>2, <2>3, <2>4, <2>5, <2>6 DEF SocketsInv
<1>4. QED BY <1>2, <1>3

\* A closed channel is one the killer closed, for a reason.
LEMMA WriteClosedKeeps == ASSUME SocketsInv, NEW s \in Conn, WriteClosed(s) PROVE SocketsInv'
<1>1. stop \/ \E c \in Conn : once[c] # "none" /\ ~peerUp[c]
  BY ClosedForReason DEF WriteClosed
<1>2. CloseOrder'
  BY <1>1, LatePanic DEF WriteClosed, connVars, sockVars, closeVars
<1>3. QED BY <1>2, SocketsStay DEF WriteClosed, connVars, sendVars

\* The copy has the sockets of the list.
LEMMA GetListKeeps == ASSUME SocketsInv, GetList PROVE SocketsInv'
<1>1. /\ DOMAIN toKill' = {j \in DOMAIN list : list[j] # NoConn}
      /\ \A j \in DOMAIN toKill' : toKill'[j] = list[j]
  BY DEF GetList
<1>2. ASSUME NEW c \in Conn PROVE Left(c)' <=> Listed(c)
  BY <1>1, SocketsAssumption DEF Left, Listed
<1>3. Shape' /\ (contract' = NoContract \/ contract'.sock \in Conn)
  BY DEF GetList, SocketsInv, Shape, connVars, sockVars, killVars, sendVars
<1>4. ClosingInv'
  <2>1. \A c \in snapshot' : c \in Conn /\ Left(c)'
    BY <1>2 DEF GetList
  <2>2. \A i \in DOMAIN toKill' : i \in Nat
    BY <1>1 DEF SocketsInv, Shape
  <2>3. QED BY <2>1, <2>2 DEF GetList, SocketsInv, ClosingInv, killVars
<1>5. CloseOrder'
  BY StillRunning DEF GetList, Running
<1>6. ASSUME NEW c \in Conn PROVE Place(c)' /\ Ending(c)'
  <2>1. /\ Place(c) /\ Ending(c) /\ Same(c)
        /\ Listed(c)' <=> Listed(c)
        /\ Appended(c)' <=> Appended(c)
        /\ UNCHANGED <<opener, contract, stop>>
    BY DEF GetList, SocketsInv, Same, Listed, Appended, connVars, sockVars, killVars
  <2>2. Place(c)'
    BY <1>2, <2>1 DEF Place, Same, Killing
  <2>3. Ending(c)'
    BY <2>1 DEF Ending, Same, Killing
  <2>4. QED BY <2>2, <2>3
<1>7. QED BY <1>3, <1>4, <1>5, <1>6 DEF SocketsInv

\* Only sockets of the list are given messages.
LEMMA SendToKeeps ==
  ASSUME SocketsInv, NEW S, S \subseteq {c \in Conn : Listed(c)}, SendTo(S), panic' = NoPanic,
         UNCHANGED <<list, opener, connVars, reader, writer, nbError, loopChan, outClosed,
                     delayClosed, once, killVars, closeVars>>,
         sender' \in {"idle", "inMessage", "inMessageNV", "inTransac"}
  PROVE  SocketsInv'
<1>1. /\ pending' \in [Conn -> Nat]
      /\ \A c \in Conn : pending'[c] = pending[c] \/ (pending'[c] > 0 /\ Listed(c))
  BY DEF SendTo, SocketsInv, Shape
<1>2. Shape' /\ (contract' = NoContract \/ contract'.sock \in Conn)
  BY <1>1 DEF SocketsInv, Shape, connVars, killVars
<1>3. ClosingInv'
  BY DEF SocketsInv, ClosingInv, Left, killVars, closeVars
<1>4. ASSUME NEW c \in Conn PROVE Place(c)' /\ Ending(c)'
  <2>1. /\ reader'[c] = reader[c] /\ writer'[c] = writer[c] /\ loopChan'[c] = loopChan[c]
        /\ peerUp'[c] = peerUp[c] /\ connOpen'[c] = connOpen[c] /\ once'[c] = once[c]
        /\ nbError'[c] = nbError[c] /\ outClosed'[c] = outClosed[c]
        /\ delayClosed'[c] = delayClosed[c] /\ UNCHANGED <<opener, stop, contract>>
    BY DEF connVars, killVars, closeVars
  <2>2. /\ Listed(c)' <=> Listed(c)
        /\ Appended(c)' <=> Appended(c)
        /\ Left(c)' <=> Left(c)
    BY <2>1 DEF Listed, Appended, Left, closeVars
  <2>3. Place(c) /\ Ending(c)
    BY DEF SocketsInv
  <2>4. Place(c)'
    BY <1>1, <2>1, <2>2, <2>3 DEF Place, Killing
  <2>5. Ending(c)'
    BY <2>1, <2>2, <2>3 DEF Ending, Killing
  <2>6. QED BY <2>4, <2>5
<1>5. QED BY <1>2, <1>3, <1>4, StillRunning DEF SocketsInv

\* Who sends when the list is closed sends after Close began.
LEMMA HandleKeeps == ASSUME SocketsInv, Handle \/ HandleFallback PROVE SocketsInv'
<1>1. CASE listClosed
  <2>1. PICK what \in {"inMessage", "inMessageNV", "inTransac"} : Panic(what, NoConn)
    <3>1. CASE Handle
      <4>1. Panic(sender, NoConn) /\ sender \in {"inMessage", "inMessageNV", "inTransac"}
        BY <1>1, <3>1 DEF Handle, SocketsInv, Shape
      <4>2. QED BY <4>1
    <3>2. CASE HandleFallback
      BY <1>1, <3>2 DEF HandleFallback
    <3>3. QED BY <3>1, <3>2
  <2>2. stop'
    BY <1>1, ClosedForReason DEF Handle, HandleFallback, SocketsInv, ClosingInv, closeVars
  <2>3. CloseOrder'
    BY <2>1, <2>2, LatePanic
  <2>4. sender' \in {"idle", sender}
    BY DEF Handle, HandleFallback
  <2>5. pending' = pending
    BY <1>1 DEF Handle, HandleFallback
  <2>6. Shape'
    BY <2>4, <2>5 DEF Handle, HandleFallback, SocketsInv, Shape, connVars, killVars
  <2>7. ClosingInv'
    BY DEF Handle, HandleFallback, SocketsInv, ClosingInv, Left, killVars, closeVars
  <2>8. ASSUME NEW c \in Conn PROVE Place(c)' /\ Ending(c)'
    <3>1. Same(c) /\ (Listed(c)' <=> Listed(c)) /\ (Left(c)' <=> Left(c))
      BY <2>5 DEF Handle, HandleFallback, Same, Listed, Left, connVars, closeVars
    <3>2. QED BY <3>1, SamePlace DEF Handle, HandleFallback, killVars, closeVars
  <2>9. QED BY <2>3, <2>6, <2>7, <2>8 DEF Handle, HandleFallback, SocketsInv, killVars
<1>2. CASE ~listClosed
  <2>1. PICK channel : SendTo(Recipients(channel))
    BY <1>2 DEF Handle, HandleFallback
  <2>2. Recipients(channel) \subseteq {c \in Conn : Listed(c)}
    BY DEF Recipients
  <2>3. sender' \in {"idle", "inMessage", "inMessageNV", "inTransac"} /\ panic' = NoPanic
    BY <1>2 DEF Handle, HandleFallback, Running, SocketsInv, Shape
  <2>4. QED BY <2>1, <2>2, <2>3, SendToKeeps DEF Handle, HandleFallback
<1>3. QED BY <1>1, <1>2

\* The list has no socket whose delay channel is closed.
LEMMA UpdateDelayKeeps == ASSUME SocketsInv, UpdateDelay PROVE SocketsInv'
<1>1. ~\E c \in Conn : Listed(c) /\ delayClosed[c]
  BY DEF SocketsInv, Ending
<1>2. listClosed /\ Panic("inNewDelay", NoConn)
  BY <1>1 DEF UpdateDelay, Panic
<1>3. stop'
  BY <1>2 DEF UpdateDelay, SocketsInv, ClosingInv, closeVars
<1>4. CloseOrder'
  BY <1>2, <1>3, LatePanic
<1>5. QED BY <1>4, SocketsStay DEF UpdateDelay, connVars, sendVars

\* A new socket is with who opened it.
LEMMA NewSingleSocketKeeps ==
  ASSUME SocketsInv, NEW o \in Opener, NEW s \in Conn, NewSingleSocket(o, s) PROVE SocketsInv'
<1>1. CASE listClosed
  <2>1. Panic("inAddr", s) /\ stop'
    BY <1>1 DEF NewSingleSocket, SocketsInv, ClosingInv, closeVars
  <2>2. CloseOrder'
    BY <2>1, LatePanic
  <2>3. QED BY <1>1, <2>2, SocketsStay DEF NewSingleSocket, connVars, sendVars
<1>2. CASE ~listClosed
  <2>1. /\ opener' \in [Opener -> Conn \cup {NoConn}]
        /\ peerUp' \in [Conn -> BOOLEAN] /\ connOpen' \in [Conn -> BOOLEAN]
        /\ reader' \in [Conn -> {"none", "decode", "pass", "close", "done"}]
        /\ writer' \in [Conn -> {"none", "range", "close", "done"}]
        /\ once' \in [Conn -> {"none", "no", "running", "done"}]
    <3>1. opener' \in [Opener -> Conn \cup {NoConn}]
      <4>1. opener' = [opener EXCEPT ![o] = s]
        BY <1>2 DEF NewSingleSocket
      <4>2. QED BY <4>1 DEF SocketsInv, Shape
    <3>2. peerUp' \in [Conn -> BOOLEAN] /\ connOpen' \in [Conn -> BOOLEAN]
      BY <1>2 DEF NewSingleSocket, SocketsInv, Shape
    <3>3. /\ reader' \in [Conn -> {"none", "decode", "pass", "close", "done"}]
          /\ writer' \in [Conn -> {"none", "range", "close", "done"}]
      BY <1>2 DEF NewSingleSocket, SocketsInv, Shape
    <3>4. once' \in [Conn -> {"none", "no", "running", "done"}]
      BY <1>2 DEF NewSingleSocket, SocketsInv, Shape
    <3>5. QED BY <3>1, <3>2, <3>3, <3>4
  <2>2. Shape' /\ (contract' = NoContract \/ contract'.sock \in Conn)
    BY <1>2, <2>1 DEF NewSingleSocket, SocketsInv, Shape, killVars, sendVars
  <2>3. once[s] = "none" /\ once'[s] = "no" /\ \A c \in Conn : c # s => once'[c] = once[c]
    BY <1>2 DEF NewSingleSocket, SocketsInv, Shape
  <2>4. ClosingInv'
    BY <2>3 DEF NewSingleSocket, SocketsInv, ClosingInv, Left, killVars, closeVars
  <2>5. CloseOrder'
    BY <1>2, StillRunning DEF NewSingleSocket, Running
  <2>6. ASSUME NEW c \in Conn, c # s PROVE Place(c)' /\ Ending(c)'
    <3>1. Same(c)
      BY <1>2, <2>3, <2>6 DEF NewSingleSocket, SocketsInv, Shape, Same
    <3>2. \A p \in Opener : opener'[p] = c <=> opener[p] = c
      BY <1>2, <2>6, SocketsAssumption DEF NewSingleSocket, SocketsInv, Shape
    <3>3. QED
      BY <2>6, <3>1, <3>2, SamePlace DEF NewSingleSocket, Listed, Left, killVars, closeVars
  <2>7. Place(s)' /\ Ending(s)'
    <3>1. Place(s) /\ Ending(s)
      BY DEF SocketsInv
    <3>2. /\ reader'[s] = "decode" /\ writer'[s] = "range" /\ connOpen'[s]
          /\ loopChan'[s] = loopChan[s] /\ pending'[s] = pending[s] /\ nbError'[s] = nbError[s]
          /\ outClosed'[s] = outClosed[s] /\ delayClosed'[s] = delayClosed[s]
          /\ opener'[o] = s /\ \A p \in Opener : p # o => opener'[p] = opener[p]
          /\ o = (IF s \in Dialed THEN "InitialiseConnection" ELSE "serverLoop")
          /\ UNCHANGED <<stop, contract>>
      BY <1>2 DEF NewSingleSocket, SocketsInv, Shape, killVars, closeVars
    <3>3. ~Appended(s) /\ ~Listed(s) /\ ~Left(s)
      BY <2>3, <3>1 DEF Place, Appended
    <3>4. ~Appended(s)' /\ ~Listed(s)' /\ ~Left(s)'
      BY <1>2, <3>2, <3>3 DEF NewSingleSocket, Appended, Listed, Left, closeVars
    <3>5. Place(s)'
      BY <2>3, <3>1, <3>2, <3>3, <3>4 DEF Place, Killing
    <3>6. Ending(s)'
      BY <2>3, <3>1, <3>2, <3>3, <3>4 DEF Place, Ending, Killing, Ended
    <3>7. QED BY <3>5, <3>6
  <2>8. QED BY <2>2, <2>4, <2>5, <2>6, <2>7 DEF SocketsInv
<1>3. QED BY <1>1, <1>2

\* The first empty slot, or one more when there is none.
LEMMA PlacedWhere ==
  ASSUME list \in Seq(Conn \cup {NoConn}), NEW s, list' = Placed(s)
  PROVE  \/ list' = Append(list, s) /\ \A i \in DOMAIN list : list[i] # NoConn
         \/ \E i \in DOMAIN list : list[i] = NoConn /\ list' = [list EXCEPT ![i] = s]
<1> DEFINE free == {i \in DOMAIN list : list[i] = NoConn}
<1>1. CASE free = {}
  BY <1>1 DEF Placed
<1>2. CASE free # {}
  <2>1. \E i \in free : \A j \in free : i <= j
    <3>1. free \subseteq Nat
      OBVIOUS
    <3>2. PICK i \in free : \A j \in free : ~(<<j, i>> \in OpToRel(<, Nat))
      BY <1>2, <3>1, WFMin, NatLessThanWellFounded
    <3>3. ASSUME NEW j \in free, j < i PROVE FALSE
      <4>1. <<j, i>> \in OpToRel(<, Nat)
        BY <3>1, <3>3 DEF OpToRel
      <4>2. QED BY <3>2, <4>1
    <3>4. QED BY <3>1, <3>3
  <2>2. PICK i \in free : list' = [list EXCEPT ![i] = s]
    BY <1>2, <2>1 DEF Placed
  <2>3. QED BY <2>2
<1>3. QED BY <1>1, <1>2

\* Placed puts the socket in and takes no other out.
LEMMA PlacedList ==
  ASSUME list \in Seq(Conn \cup {NoConn}), NEW s \in Conn, list' = Placed(s)
  PROVE  /\ list' \in Seq(Conn \cup {NoConn})
         /\ \A c \in Conn : Listed(c)' <=> (Listed(c) \/ c = s)
<1>1. CASE list' = Append(list, s)
  <2>1. /\ list' \in Seq(Conn \cup {NoConn}) /\ DOMAIN list' = DOMAIN list \cup {Len(list) + 1}
        /\ list'[Len(list) + 1] = s /\ \A i \in DOMAIN list : list'[i] = list[i]
    BY <1>1
  <2>2. QED BY <2>1 DEF Listed
<1>2. ASSUME NEW i \in DOMAIN list, list[i] = NoConn, list' = [list EXCEPT ![i] = s]
      PROVE  /\ list' \in Seq(Conn \cup {NoConn})
             /\ \A c \in Conn : Listed(c)' <=> (Listed(c) \/ c = s)
  <2>1. /\ list' \in Seq(Conn \cup {NoConn}) /\ DOMAIN list' = DOMAIN list
        /\ list'[i] = s /\ \A j \in DOMAIN list : j # i => list'[j] = list[j]
    BY <1>2
  <2>2. QED BY <1>2, <2>1, SocketsAssumption DEF Listed
<1>3. QED BY <1>1, <1>2, PlacedWhere

\* It is in the list once it is appended, and no other socket leaves a slot.
LEMMA AppendSingleSocketKeeps ==
  ASSUME SocketsInv, NEW o \in Opener, AppendSingleSocket(o) PROVE SocketsInv'
<1>1. CASE listClosed
  <2>1. Panic("inAppendSock", opener[o]) /\ stop'
    BY <1>1 DEF AppendSingleSocket, SocketsInv, ClosingInv, closeVars
  <2>2. CloseOrder'
    BY <2>1, LatePanic
  <2>3. QED BY <1>1, <2>2, SocketsStay DEF AppendSingleSocket, connVars, sendVars
<1>2. CASE ~listClosed
  <2>1. opener[o] \in Conn
    BY DEF AppendSingleSocket, SocketsInv, Shape
  <2>2. PICK s \in Conn : s = opener[o]
    BY <2>1
  <2>3. /\ list' = Placed(s) /\ panic' = NoPanic /\ opener' \in [Opener -> Conn \cup {NoConn}]
        /\ opener'[o] = NoConn /\ \A p \in Opener : p # o => opener'[p] = opener[p]
    BY <1>2, <2>2 DEF AppendSingleSocket, SocketsInv, Shape, Running
  <2>4. /\ list' \in Seq(Conn \cup {NoConn})
        /\ \A c \in Conn : Listed(c)' <=> (Listed(c) \/ c = s)
    BY <2>3, PlacedList DEF SocketsInv, Shape
  <2>5. Shape' /\ (contract' = NoContract \/ contract'.sock \in Conn)
    BY <2>3, <2>4
    DEF AppendSingleSocket, SocketsInv, Shape, connVars, sockVars, killVars, sendVars
  <2>6. ClosingInv'
    BY DEF AppendSingleSocket, SocketsInv, ClosingInv, Left, sockVars, killVars, closeVars
  <2>7. ASSUME NEW c \in Conn PROVE Same(c) /\ (Left(c)' <=> Left(c))
    BY DEF AppendSingleSocket, Same, Left, connVars, sockVars, closeVars
  <2>8. ASSUME NEW c \in Conn, c # s PROVE Place(c)' /\ Ending(c)'
    <3>1. \A p \in Opener : opener'[p] = c <=> opener[p] = c
      BY <2>2, <2>3, <2>8, SocketsAssumption
    <3>2. QED BY <2>4, <2>7, <2>8, <3>1, SamePlace DEF AppendSingleSocket, killVars, closeVars
  <2>9. Place(s)' /\ Ending(s)'
    <3>1. Place(s) /\ Ending(s)
      BY DEF SocketsInv
    <3>2. ~Appended(s) /\ once[s] # "none"
      BY <2>2, <3>1 DEF Place, Appended
    <3>3. ~Listed(s) /\ ~Left(s) /\ ~Killing(s, {"wait", "close"} \cup Closed)
      BY <3>1, <3>2 DEF Place
    <3>4. \A p \in Opener : opener'[p] # s
      BY <2>2, <2>3, <3>1, SocketsAssumption DEF Place
    <3>5. Appended(s)' /\ Listed(s)' /\ Same(s) /\ ~Left(s)' /\ UNCHANGED <<contract, stop>>
      BY <2>4, <2>7, <3>2, <3>3, <3>4 DEF AppendSingleSocket, Appended, Same, killVars, closeVars
    <3>6. Place(s)'
      BY <3>1, <3>2, <3>3, <3>4, <3>5 DEF Place, Same, Killing
    <3>7. Ending(s)'
      BY <3>1, <3>2, <3>3, <3>5 DEF Ending, Same, Killing, Closed, Gone
    <3>8. QED BY <3>6, <3>7
  <2>10. QED BY <2>3, <2>5, <2>6, <2>8, <2>9, StillRunning DEF SocketsInv
<1>3. QED BY <1>1, <1>2

-----------------------------------------------------------------------------
\* One step after the other.
LEMMA SocketsStep == SocketsInv /\ [Next]_vars => SocketsInv'
<1> SUFFICES ASSUME SocketsInv, [Next]_vars PROVE SocketsInv'
  OBVIOUS
<1>1. CASE \E o \in Opener : AppendSingleSocket(o) \/ \E s \in Conn : NewSingleSocket(o, s)
  BY <1>1, AppendSingleSocketKeeps, NewSingleSocketKeeps
<1>2. ASSUME NEW s \in Conn, Reader(s) PROVE SocketsInv'
  BY <1>2, ReadKeeps, PassKeeps, ReadErrorKeeps DEF Reader
<1>3. ASSUME NEW s \in Conn, Writer(s) PROVE SocketsInv'
  BY <1>3, WriteKeeps, WriteClosedKeeps, WriterEndsKeeps DEF Writer
<1>4. ASSUME NEW s \in Conn, Kill(s) PROVE SocketsInv'
  BY <1>4, KillExistKeeps, KillWaitKeeps, KillCloseKeeps, KillRemoveKeeps, KillDelayKeeps,
     KillEndKeeps DEF Kill
<1>5. ASSUME NEW who \in Caller, NEW s \in Conn, Close(who, s) PROVE SocketsInv'
  BY <1>5, CallKillKeeps, LeaveCloseKeeps DEF Close
<1>6. CASE Closing
  BY <1>6, CloseBeginsKeeps, GetListKeeps, CloseKillerKeeps, CloseListKeeps, CloseListenerKeeps,
     CloseEndKeeps DEF Closing
<1>7. CASE \E channel \in {"inMessage", "inMessageNV", "inTransac"} : Send(channel)
  BY <1>7, SendKeeps
<1>8. CASE Handle \/ HandleFallback \/ UpdateDelay
  BY <1>8, HandleKeeps, UpdateDelayKeeps
<1>9. CASE UNCHANGED vars
  <2>1. CloseOrder'
    BY <1>9 DEF vars, SocketsInv, CloseOrder, Running, connVars, sockVars, closeVars
  <2>2. QED BY <1>9, <2>1, SocketsStay DEF vars, connVars, sendVars
<1>10. QED
  BY <1>1, <1>2, <1>3, <1>4, <1>5, <1>6, <1>7, <1>8, <1>9, PeerLeavesKeeps DEF Next

\* In every reachable state each socket is where the invariant says.
THEOREM SocketsInvariance == Spec => []SocketsInv
  BY SocketsInit, SocketsStep, PTL DEF Spec

\* A socket the killer has finished (killRoutine, socketKiller.go) is in no
\* slot of the list, its connection is closed, and neither of its goroutines
\* will use it again, whoever asked for it and whatever was sent meanwhile.
THEOREM SocketKilledWhole == Spec => []KilledWhole
<1>1. SocketsInv => KilledWhole
  <2> SUFFICES ASSUME SocketsInv, NEW s \in Conn, Finished(s)
               PROVE  /\ ~Listed(s) /\ ~connOpen[s]
                      /\ writer[s] = "done" /\ reader[s] \in {"close", "done"}
    BY DEF KilledWhole
  <2>1. QED BY DEF SocketsInv, Place, Ending, Finished, Ended
<1>2. QED BY <1>1, SocketsInvariance, PTL

\* No new delay reaches a socket that has been removed, NetSocket.Close closes
\* no channel under the reader of a socket it closed, and a node that nobody
\* leaves does not panic before it is closed.
THEOREM SocketCloseOrder == Spec => []CloseOrder
<1>1. SocketsInv => CloseOrder
  BY DEF SocketsInv
<1>2. QED BY <1>1, SocketsInvariance, PTL
-----------------------------------------------------------------------------
(***************************************************************************)
(* TypeOK.  No socket is in two slots, so that the list has at most one    *)
(* for each; and what a socket is still to send, and what it failed to,    *)
(* was sent once by the consensus.                                         *)
(***************************************************************************)
SlotInv ==
  /\ \A i, j \in DOMAIN list : list[i] = list[j] /\ list[i] # NoConn => i = j
  /\ Len(list) <= Cardinality(Conn)
  /\ \A i \in DOMAIN toKill : i \in DOMAIN list /\ toKill[i] \in Conn

Waiting == IF sender = "idle" THEN 0 ELSE 1
SentInv ==
  /\ unread \in [Conn -> 0..MaxRead]
  /\ nbSent \in 0..MaxSend /\ fallback \in Nat
  /\ \A s \in Conn : pending[s] + nbError[s] + fallback + Waiting <= nbSent

PanicInv == panic \in Panics \X (Conn \cup {NoConn})

\* A list of different sockets is no longer than there are sockets.
LEMMA AllDifferent ==
  ASSUME NEW l \in Seq(Conn), \A i, j \in DOMAIN l : l[i] = l[j] => i = j
  PROVE  Len(l) <= Cardinality(Conn)
<1> DEFINE n == Len(l)
<1>1. DOMAIN l = 1..n /\ n \in Nat /\ l \in [1..n -> Conn]
  BY LenProperties
<1>2. l \in Injection(1..n, Conn)
  BY <1>1 DEF Injection, IsInjective
<1>3. Cardinality(1..n) = n
  BY <1>1, FS_Interval
<1>4. Cardinality(1..n) <= Cardinality(Conn)
  BY <1>2, SocketsAssumption, FS_Injection DEF SocketsAssumption
<1>5. QED BY <1>3, <1>4

LEMMA SlotsStay == ASSUME SlotInv, UNCHANGED <<list, toKill>> PROVE SlotInv'
  BY DEF SlotInv

LEMMA SlotsAppend ==
  ASSUME SocketsInv, SlotInv, NEW o \in Opener, AppendSingleSocket(o) PROVE SlotInv'
<1>1. CASE listClosed
  BY <1>1, SlotsStay DEF AppendSingleSocket, closeVars
<1>2. CASE ~listClosed
  <2>1. PICK s \in Conn : s = opener[o]
    BY DEF AppendSingleSocket, SocketsInv, Shape
  <2>2. list' = Placed(s) /\ UNCHANGED toKill
    BY <1>2, <2>1 DEF AppendSingleSocket, closeVars
  <2>3. ~Listed(s)
    BY <2>1 DEF SocketsInv, Place, Appended
  <2>4. list \in Seq(Conn \cup {NoConn}) /\ s # NoConn
    BY SocketsAssumption DEF SocketsInv, Shape, SocketsAssumption
  <2>5. CASE list' = Append(list, s) /\ \A i \in DOMAIN list : list[i] # NoConn
    <3>1. /\ DOMAIN list' = 1..Len(list) + 1 /\ DOMAIN list = 1..Len(list) /\ Len(list) \in Nat
          /\ list'[Len(list) + 1] = s /\ \A i \in DOMAIN list : list'[i] = list[i]
          /\ Len(list') = Len(list) + 1
      BY <2>4, <2>5
    <3>2. ASSUME NEW i \in DOMAIN list', NEW j \in DOMAIN list', list'[i] = list'[j]
          PROVE  i = j
      <4>1. CASE i \in DOMAIN list /\ j \in DOMAIN list
        <5>1. list[i] = list[j] /\ list[i] # NoConn
          BY <2>5, <3>1, <3>2, <4>1
        <5>2. QED BY <4>1, <5>1 DEF SlotInv
      <4>2. CASE i \notin DOMAIN list \/ j \notin DOMAIN list
        <5>1. i \in DOMAIN list \/ i = Len(list) + 1
          BY <3>1
        <5>2. j \in DOMAIN list \/ j = Len(list) + 1
          BY <3>1
        <5>3. QED BY <2>3, <3>1, <3>2, <4>2, <5>1, <5>2 DEF Listed
      <4>3. QED BY <4>1, <4>2
    <3>3. list' \in Seq(Conn)
      <4>1. \A i \in DOMAIN list' : list'[i] \in Conn
        <5>1. \A i \in DOMAIN list : list[i] \in Conn
          BY <2>4, <2>5
        <5>2. QED BY <3>1, <5>1
      <4>2. list' \in Seq(Conn \cup {NoConn})
        BY <2>4, <2>5
      <4>3. list' \in [1..Len(list) + 1 -> Conn]
        BY <3>1, <4>1, <4>2
      <4>4. QED BY <3>1, <4>3
    <3>4. Len(list') <= Cardinality(Conn)
      <4> DEFINE l == list'
      <4>1. l \in Seq(Conn) /\ \A i, j \in DOMAIN l : l[i] = l[j] => i = j
        BY <3>2, <3>3
      <4> HIDE DEF l
      <4>2. Len(l) <= Cardinality(Conn)
        BY <4>1, AllDifferent
      <4>3. QED BY <4>2 DEF l
    <3>5. \A i \in DOMAIN toKill' : i \in DOMAIN list' /\ toKill'[i] \in Conn
      BY <2>2, <3>1 DEF SlotInv
    <3>6. QED BY <3>2, <3>4, <3>5 DEF SlotInv
  <2>6. ASSUME NEW k \in DOMAIN list, list[k] = NoConn, list' = [list EXCEPT ![k] = s]
        PROVE  SlotInv'
    <3>1. /\ DOMAIN list' = DOMAIN list /\ Len(list') = Len(list)
          /\ list'[k] = s /\ \A i \in DOMAIN list : i # k => list'[i] = list[i]
      BY <2>4, <2>6
    <3>2. ASSUME NEW i \in DOMAIN list', NEW j \in DOMAIN list', list'[i] = list'[j],
                 list'[i] # NoConn
          PROVE  i = j
      <4>1. CASE i # k /\ j # k
        BY <3>1, <3>2, <4>1 DEF SlotInv
      <4>2. CASE i = k \/ j = k
        BY <2>3, <3>1, <3>2, <4>2 DEF Listed
      <4>3. QED BY <4>1, <4>2
    <3>3. Len(list') <= Cardinality(Conn)
      BY <3>1 DEF SlotInv
    <3>4. \A i \in DOMAIN toKill' : i \in DOMAIN list' /\ toKill'[i] \in Conn
      BY <2>2, <3>1 DEF SlotInv
    <3>5. QED BY <3>2, <3>3, <3>4 DEF SlotInv
  <2>7. QED BY <2>2, <2>4, <2>5, <2>6, PlacedWhere
<1>3. QED BY <1>1, <1>2

LEMMA SlotsRemove == ASSUME SocketsInv, SlotInv, NEW s \in Conn, KillRemove(s) PROVE SlotInv'
<1>1. list' = [i \in DOMAIN list |-> IF list[i] = s THEN NoConn ELSE list[i]] /\ UNCHANGED toKill
  BY DEF KillRemove, closeVars
<1>2. /\ DOMAIN list' = DOMAIN list
      /\ \A i \in DOMAIN list : list'[i] = NoConn \/ list'[i] = list[i]
  BY <1>1
<1>3. Len(list') = Len(list)
  <2>1. list \in Seq(Conn \cup {NoConn})
    BY DEF SocketsInv, Shape
  <2>2. list' \in Seq(Conn \cup {NoConn})
    BY <1>1, <2>1
  <2>3. DOMAIN list = 1..Len(list) /\ DOMAIN list' = 1..Len(list')
    BY <2>1, <2>2
  <2>4. Len(list) \in Nat /\ Len(list') \in Nat
    BY <2>1, <2>2
  <2>5. QED BY <1>2, <2>3, <2>4
<1>4. QED BY <1>1, <1>2, <1>3 DEF SlotInv

LEMMA SlotsCopied == ASSUME SocketsInv, SlotInv, GetList PROVE SlotInv'
<1>1. /\ toKill' = [i \in {j \in DOMAIN list : list[j] # NoConn} |-> list[i]]
      /\ UNCHANGED list
  BY DEF GetList
<1>2. \A i \in DOMAIN list : list[i] \in Conn \cup {NoConn}
  BY DEF SocketsInv, Shape
<1>3. QED BY <1>1, <1>2 DEF SlotInv

LEMMA SlotsKilled ==
  ASSUME SlotInv, NEW who \in Caller, NEW s \in Conn, LeaveClose(who, s) PROVE SlotInv'
<1>1. /\ toKill' = [i \in {j \in DOMAIN toKill : who = "closer" => ~Slot(j)} |-> toKill[i]]
      /\ UNCHANGED list
  BY DEF LeaveClose
<1>2. \A i \in DOMAIN toKill' : i \in DOMAIN toKill /\ toKill'[i] = toKill[i]
  BY <1>1
<1>3. QED BY <1>1, <1>2 DEF SlotInv

LEMMA SlotsNext == ASSUME SocketsInv, SlotInv, [Next]_vars PROVE SlotInv'
<1>1. ASSUME NEW o \in Opener, AppendSingleSocket(o) \/ \E s \in Conn : NewSingleSocket(o, s)
      PROVE  SlotInv'
  BY <1>1, SlotsAppend, SlotsStay DEF NewSingleSocket, closeVars
<1>2. ASSUME NEW s \in Conn, PeerLeaves(s) \/ Reader(s) \/ Writer(s) PROVE SlotInv'
  BY <1>2, SlotsStay DEF PeerLeaves, Reader, Read, Pass, ReadError, Writer, Write, WriteClosed,
                         WriterEnds, closeVars
<1>3. ASSUME NEW s \in Conn, Kill(s) PROVE SlotInv'
  BY <1>3, SlotsRemove, SlotsStay DEF Kill, KillExist, KillWait, KillClose, KillDelay, KillEnd,
                                      closeVars
<1>4. ASSUME NEW who \in Caller, NEW s \in Conn, Close(who, s) PROVE SlotInv'
  BY <1>4, SlotsKilled, SlotsStay DEF Close, CallKill, closeVars
<1>5. CASE Closing
  BY <1>5, SlotsCopied, SlotsStay DEF Closing, CloseBegins, CloseKiller, CloseList, CloseListener,
                                      CloseEnd
<1>6. CASE \/ \E channel \in {"inMessage", "inMessageNV", "inTransac"} : Send(channel)
           \/ Handle \/ HandleFallback \/ UpdateDelay
  BY <1>6, SlotsStay DEF Send, Handle, HandleFallback, UpdateDelay, closeVars
<1>7. CASE UNCHANGED vars
  BY <1>7, SlotsStay DEF vars, closeVars
<1>8. QED BY <1>1, <1>2, <1>3, <1>4, <1>5, <1>6, <1>7 DEF Next

LEMMA SentStay ==
  ASSUME SentInv, UNCHANGED <<unread, nbSent, fallback, sender, pending, nbError>> PROVE SentInv'
  BY DEF SentInv, Waiting

\* A message that is encoded, or not, is pending no more.
LEMMA SentWrite == ASSUME SocketsInv, SentInv, NEW s \in Conn, Write(s) PROVE SentInv'
<1>1. /\ pending[s] > 0 /\ pending' = [pending EXCEPT ![s] = @ - 1]
      /\ nbError' = [nbError EXCEPT ![s] = nbError[s] + 1] \/ nbError' = [nbError EXCEPT ![s] = 0]
      /\ UNCHANGED <<unread, nbSent, fallback, sender>>
  BY DEF Write, connVars, sendVars
<1>2. pending \in [Conn -> Nat] /\ nbError \in [Conn -> Nat]
  BY DEF SocketsInv, Shape
<1>3. ASSUME NEW c \in Conn PROVE pending'[c] + nbError'[c] <= pending[c] + nbError[c]
  <2>1. pending[c] \in Nat /\ nbError[c] \in Nat
    BY <1>2
  <2>2. CASE c = s
    BY <1>1, <1>2, <2>1, <2>2
  <2>3. CASE c # s
    BY <1>1, <1>2, <2>1, <2>3
  <2>4. QED BY <2>2, <2>3
<1>4. pending' \in [Conn -> Int] /\ nbError' \in [Conn -> Int]
  BY <1>1, <1>2
<1>5. ASSUME NEW c \in Conn PROVE pending'[c] + nbError'[c] + fallback' + Waiting' <= nbSent'
  <2>1. pending[c] + nbError[c] + fallback + Waiting <= nbSent
    BY DEF SentInv
  <2>2. /\ pending[c] \in Int /\ nbError[c] \in Int /\ pending'[c] \in Int /\ nbError'[c] \in Int
        /\ fallback \in Int /\ nbSent \in Int /\ Waiting \in Int /\ Waiting' = Waiting
    BY <1>1, <1>2, <1>4 DEF SentInv, Waiting
  <2>3. QED BY <1>1, <1>3, <2>1, <2>2
<1>6. QED BY <1>1, <1>5 DEF SentInv

\* What the list takes was the sender's, or of one who found no proposer.
LEMMA SentHandled == ASSUME SocketsInv, SentInv, Handle \/ HandleFallback PROVE SentInv'
<1>1. UNCHANGED <<unread, nbSent, nbError>>
  BY DEF Handle, HandleFallback, connVars
<1>2. pending \in [Conn -> Nat] /\ nbError \in [Conn -> Nat]
  BY DEF SocketsInv, Shape
<1>3. /\ fallback' \in Nat
      /\ \A c \in Conn : /\ pending'[c] \in Nat
                         /\ pending'[c] + fallback' + Waiting' <= pending[c] + fallback + Waiting
  <2>1. CASE Handle
    <3>1. Waiting = 1 /\ Waiting' = 0
      BY <2>1 DEF Handle, Waiting
    <3>2. CASE listClosed
      BY <1>2, <2>1, <3>1, <3>2 DEF Handle, SentInv
    <3>3. CASE ~listClosed /\ sender = "inTransac" /\ ~Listed(ToProposer)
      <4>1. Recipients(sender) = {}
        BY <3>3 DEF Recipients
      <4>2. pending' = pending /\ fallback' = fallback + 1
        BY <1>2, <2>1, <3>3, <4>1 DEF Handle, SendTo
      <4>3. QED BY <1>2, <3>1, <4>2 DEF SentInv
    <3>4. CASE ~listClosed /\ ~(sender = "inTransac" /\ ~Listed(ToProposer))
      <4>1. /\ fallback' = fallback
            /\ \A c \in Conn : pending'[c] \in {pending[c], pending[c] + 1}
        BY <2>1, <3>4 DEF Handle, SendTo
      <4>2. QED BY <1>2, <3>1, <4>1 DEF SentInv
    <3>5. QED BY <3>2, <3>3, <3>4
  <2>2. CASE HandleFallback
    <3>1. fallback > 0 /\ fallback' = fallback - 1 /\ Waiting' = Waiting /\ Waiting \in Nat
      BY <2>2 DEF HandleFallback, Waiting
    <3>2. \A c \in Conn : pending'[c] \in {pending[c], pending[c] + 1}
      BY <2>2 DEF HandleFallback, SendTo
    <3>3. QED BY <1>2, <3>1, <3>2 DEF SentInv
  <2>3. QED BY <2>1, <2>2
<1>4. ASSUME NEW c \in Conn PROVE pending'[c] + nbError'[c] + fallback' + Waiting' <= nbSent'
  <2>1. pending[c] + nbError[c] + fallback + Waiting <= nbSent
    BY DEF SentInv
  <2>2. /\ pending[c] \in Int /\ nbError[c] \in Int /\ pending'[c] \in Int /\ fallback' \in Int
        /\ fallback \in Int /\ nbSent \in Int /\ Waiting \in Int /\ Waiting' \in Int
    BY <1>2, <1>3 DEF SentInv, Waiting
  <2>3. pending'[c] + fallback' + Waiting' <= pending[c] + fallback + Waiting
    BY <1>3
  <2>4. QED BY <1>1, <2>1, <2>2, <2>3
<1>5. QED BY <1>1, <1>3, <1>4 DEF SentInv

LEMMA SentNew ==
  ASSUME SocketsInv, SentInv, NEW channel \in {"inMessage", "inMessageNV", "inTransac"},
         Send(channel)
  PROVE  SentInv'
<1>1. /\ sender = "idle" /\ sender' = channel /\ nbSent < MaxSend /\ nbSent' = nbSent + 1
      /\ UNCHANGED <<unread, fallback, pending, nbError>>
  BY DEF Send, connVars, sockVars
<1>2. Waiting = 0 /\ Waiting' = 1
  BY <1>1 DEF Waiting
<1>3. nbSent' \in 0..MaxSend
  BY <1>1, SocketsAssumption DEF SentInv, SocketsAssumption
<1>4. ASSUME NEW c \in Conn PROVE pending'[c] + nbError'[c] + fallback' + Waiting' <= nbSent'
  <2>1. pending[c] \in Nat /\ nbError[c] \in Nat /\ fallback \in Nat /\ nbSent \in Nat
    BY DEF SocketsInv, Shape, SentInv
  <2>2. pending[c] + nbError[c] + fallback + 0 <= nbSent
    BY <1>2 DEF SentInv
  <2>3. QED BY <1>1, <1>2, <2>1, <2>2
<1>5. QED BY <1>1, <1>3, <1>4 DEF SentInv

LEMMA SentRead == ASSUME SentInv, NEW s \in Conn, Read(s) PROVE SentInv'
<1>1. /\ unread[s] > 0 /\ unread' = [unread EXCEPT ![s] = @ - 1]
      /\ UNCHANGED <<nbSent, fallback, sender, pending, nbError>>
  BY DEF Read, sendVars
<1>2. unread' \in [Conn -> 0..MaxRead]
  BY <1>1, SocketsAssumption DEF SentInv, SocketsAssumption
<1>3. QED BY <1>1, <1>2 DEF SentInv, Waiting

LEMMA SentNext == ASSUME SocketsInv, SentInv, [Next]_vars PROVE SentInv'
<1>1. ASSUME NEW o \in Opener, AppendSingleSocket(o) \/ \E s \in Conn : NewSingleSocket(o, s)
      PROVE  SentInv'
  BY <1>1, SentStay DEF AppendSingleSocket, NewSingleSocket, connVars, sockVars, sendVars
<1>2. ASSUME NEW s \in Conn, Reader(s) PROVE SentInv'
  BY <1>2, SentRead, SentStay DEF Reader, Pass, ReadError, connVars, sendVars
<1>3. ASSUME NEW s \in Conn, PeerLeaves(s) \/ Writer(s) PROVE SentInv'
  BY <1>3, SentWrite, SentStay DEF PeerLeaves, Writer, WriteClosed, WriterEnds, connVars, sockVars,
                                   sendVars
<1>4. ASSUME NEW s \in Conn, Kill(s) PROVE SentInv'
  BY <1>4, SentStay DEF Kill, KillExist, KillWait, KillClose, KillRemove, KillDelay, KillEnd,
                        connVars, sockVars, sendVars
<1>5. ASSUME NEW who \in Caller, NEW s \in Conn, Close(who, s) PROVE SentInv'
  BY <1>5, SentStay DEF Close, CallKill, LeaveClose, connVars, sendVars
<1>6. CASE Closing
  BY <1>6, SentStay DEF Closing, CloseBegins, GetList, CloseKiller, CloseList, CloseListener,
                        CloseEnd, connVars, sockVars, sendVars
<1>7. CASE \E channel \in {"inMessage", "inMessageNV", "inTransac"} : Send(channel)
  BY <1>7, SentNew
<1>8. CASE Handle \/ HandleFallback
  BY <1>8, SentHandled
<1>9. CASE UpdateDelay
  BY <1>9, SentStay DEF UpdateDelay, connVars, sockVars, sendVars
<1>10. CASE UNCHANGED vars
  BY <1>10, SentStay DEF vars, connVars, sockVars, sendVars
<1>11. QED BY <1>1, <1>2, <1>3, <1>4, <1>5, <1>6, <1>7, <1>8, <1>9, <1>10 DEF Next

LEMMA PanicNext == ASSUME SocketsInv, PanicInv, [Next]_vars PROVE PanicInv'
<1>1. ASSUME NEW what \in Panics, NEW s \in Conn \cup {NoConn}, Panic(what, s) PROVE PanicInv'
  BY <1>1 DEF PanicInv, Panic
<1>2. ASSUME NEW o \in Opener, AppendSingleSocket(o) \/ \E s \in Conn : NewSingleSocket(o, s)
      PROVE  PanicInv'
  <2>1. opener[o] \in Conn \cup {NoConn} /\ {"inAddr", "inAppendSock"} \subseteq Panics
    BY DEF SocketsInv, Shape, Panics
  <2>2. \/ UNCHANGED panic \/ Panic("inAppendSock", opener[o])
        \/ \E s \in Conn : Panic("inAddr", s)
    BY <1>2 DEF AppendSingleSocket, NewSingleSocket
  <2>3. QED BY <1>1, <2>1, <2>2 DEF PanicInv
<1>3. ASSUME NEW s \in Conn, PeerLeaves(s) \/ Reader(s) \/ Writer(s) \/ Kill(s) PROVE PanicInv'
  <2>1. {"incoming", "outcome"} \subseteq Panics
    BY DEF Panics
  <2>2. UNCHANGED panic \/ Panic("incoming", s) \/ Panic("outcome", s)
    BY <1>3 DEF PeerLeaves, Reader, Read, Pass, ReadError, Writer, Write, WriteClosed, WriterEnds,
                Kill, KillExist, KillWait, KillClose, KillRemove, KillDelay, KillEnd
  <2>3. QED BY <1>1, <2>1, <2>2 DEF PanicInv
<1>4. ASSUME NEW who \in Caller, NEW s \in Conn, Close(who, s) PROVE PanicInv'
  <2>1. UNCHANGED panic \/ Panic("contract", s)
    BY <1>4 DEF Close, CallKill, LeaveClose
  <2>2. QED BY <1>1, <2>1 DEF PanicInv, Panics
<1>5. CASE Closing \/ \E channel \in {"inMessage", "inMessageNV", "inTransac"} : Send(channel)
  BY <1>5 DEF Closing, CloseBegins, GetList, CloseKiller, CloseList, CloseListener, CloseEnd, Send,
              PanicInv
<1>6. CASE Handle \/ HandleFallback
  <2>1. UNCHANGED panic \/ Panic(sender, NoConn) \/ Panic("inMessage", NoConn)
    BY <1>6 DEF Handle, HandleFallback
  <2>2. sender # "idle" => sender \in Panics
    BY DEF SocketsInv, Shape, Panics
  <2>3. CASE Handle
    BY <1>1, <2>2, <2>3 DEF Handle, PanicInv
  <2>4. CASE HandleFallback
    BY <1>1, <2>4 DEF HandleFallback, PanicInv, Panics
  <2>5. QED BY <1>6, <2>3, <2>4
<1>7. CASE UpdateDelay
  <2>1. \/ panic' = <<"inNewDelay", NoConn>> \/ \E s \in Conn : panic' = <<"delay", s>>
    BY <1>7 DEF UpdateDelay
  <2>2. QED BY <2>1 DEF PanicInv, Panics
<1>8. CASE UNCHANGED vars
  BY <1>8 DEF vars, PanicInv
<1>9. QED BY <1>2, <1>3, <1>4, <1>5, <1>6, <1>7, <1>8 DEF Next

LEMMA TypesInit == Init => SlotInv /\ SentInv /\ PanicInv
<1> SUFFICES ASSUME Init PROVE SlotInv /\ SentInv /\ PanicInv
  OBVIOUS
<1>1. SlotInv
  <2>1. Cardinality(Conn) \in Nat
    BY SocketsAssumption, FS_CardinalityType DEF SocketsAssumption
  <2>2. list = <<>> /\ toKill = <<>>
    BY DEF Init
  <2>3. QED BY <2>1, <2>2 DEF SlotInv
<1>2. SentInv
  BY SocketsAssumption DEF Init, SentInv, Waiting, SocketsAssumption
<1>3. PanicInv
  BY DEF Init, NoPanic, PanicInv, Panics
<1>4. QED BY <1>1, <1>2, <1>3

LEMMA TypesCorrect ==
  ASSUME SocketsInv, SlotInv, SentInv, PanicInv PROVE TypeOK
<1>1. pending \in [Conn -> 0..MaxSend] /\ nbError \in [Conn -> 0..MaxSend] /\ fallback \in 0..MaxSend
  <2>1. pending \in [Conn -> Nat] /\ nbError \in [Conn -> Nat] /\ Waiting \in {0, 1}
    BY DEF SocketsInv, Shape, Waiting
  <2>2. nbSent \in Nat /\ nbSent <= MaxSend /\ MaxSend \in Nat /\ fallback \in Nat
    BY SocketsAssumption DEF SentInv, SocketsAssumption
  <2>3. ASSUME NEW s \in Conn
        PROVE  pending[s] \in 0..MaxSend /\ nbError[s] \in 0..MaxSend /\ fallback \in 0..MaxSend
    <3>1. pending[s] + nbError[s] + fallback + Waiting <= nbSent
      BY DEF SentInv
    <3>2. pending[s] \in Nat /\ nbError[s] \in Nat
      BY <2>1
    <3>3. QED BY <2>1, <2>2, <3>1, <3>2
  <2>4. QED BY <2>1, <2>3, SocketsAssumption DEF SocketsAssumption
<1>2. loopChan \in [Conn -> 0..2]
  <2>1. \A s \in Conn : loopChan[s] \in {0, 1, 2}
    BY DEF SocketsInv, Ending
  <2>2. loopChan \in [Conn -> Nat]
    BY DEF SocketsInv, Shape
  <2>3. QED BY <2>1, <2>2
<1>3. snapshot \subseteq Conn
  BY DEF SocketsInv, ClosingInv
<1>4. QED
  BY <1>1, <1>2, <1>3 DEF TypeOK, SocketsInv, Shape, ClosingInv, SlotInv, SentInv, PanicInv

\* The list has a slot for each socket at most, no socket is given more than
\* the consensus sends, and loopChan never holds more than its capacity.
THEOREM SocketTypes == Spec => []TypeOK
<1> DEFINE Inv == SlotInv /\ SentInv /\ PanicInv
<1>1. Init => Inv
  BY TypesInit
<1>2. SocketsInv /\ Inv /\ [Next]_vars => Inv'
  BY SlotsNext, SentNext, PanicNext
<1>3. SocketsInv /\ Inv => TypeOK
  BY TypesCorrect
<1> HIDE DEF Inv
<1>4. QED BY <1>1, <1>2, <1>3, SocketsInvariance, PTL DEF Spec
=============================================================================
