------------------------------ MODULE Sockets -------------------------------
(***************************************************************************)
(* The sockets of one node (source/Blockchain/Socket): NetSocket, its list *)
(* of sockets, the two goroutines of each socket and the killer.           *)
(*                                                                         *)
(*   - handleListSocket owns the list; everybody else asks it;             *)
(*   - a message is given to a socket by a goroutine of its own            *)
(*     (sendMessage), which sleeps and then hands it to the writer         *)
(*     (outcomeGoroutine) through a channel without places;                *)
(*   - the reader (incomeGoroutine) passes on what it decodes;             *)
(*   - a reader or writer that meets an error, and NetSocket.Close, have   *)
(*     the socket closed by handleContract, one socket after the other,    *)
(*     which waits for the pending messages and for the two goroutines.    *)
(* A panic, here a send on a closed channel, ends the node.                *)
(***************************************************************************)
EXTENDS Integers, FiniteSets, Sequences

CONSTANTS
  Conn,        \* the connections that are made, one socket each
  Dialed,      \* those InitialiseConnection makes, the others are accepted
  Leaving,     \* those whose peer may go away
  ToProposer,  \* the one to the proposer
  ToActive,    \* those to active validators
  Unnumbered,  \* those to programs that sent -1 for their number, the dealer's
  PoANV,       \* the consensus sends to the inactive nodes apart
  MaxError,    \* encoding errors in a row a writer accepts (3 in the code)
  MaxSend,     \* bound: messages the consensus sends
  MaxRead,     \* bound: messages a peer sends
  NoConn

ASSUME SocketsAssumption ==
  /\ IsFiniteSet(Conn) /\ Dialed \subseteq Conn /\ Leaving \subseteq Conn
  /\ ToProposer \in Conn /\ ToActive \subseteq Conn /\ Unnumbered \subseteq Conn \ ToActive
  /\ PoANV \in BOOLEAN
  /\ MaxError \in Nat /\ MaxSend \in Nat /\ MaxRead \in Nat
  /\ NoConn \notin Conn

Opener == {"serverLoop", "InitialiseConnection"}

VARIABLES
  list,          \* listSocket: a socket or nil per slot
  opener,        \* what serverLoop and InitialiseConnection are doing
  peerUp, connOpen, unread,                  \* the connection, at both ends
  pending, reader, writer, nbError,          \* the goroutines of a socket
  loopChan, outClosed, delayClosed, once,    \* and what they share
  contract, contractClosed,                  \* the killer
  closer, stop, snapshot, toKill,            \* NetSocket.Close
  listClosed, incomingClosed,
  sender, nbSent, fallback,                  \* who hands messages over
  panic

connVars == <<peerUp, connOpen, unread>>
sockVars == <<pending, reader, writer, nbError, loopChan, outClosed, delayClosed, once>>
killVars == <<contract, contractClosed>>
closeVars == <<closer, stop, snapshot, toKill, listClosed, incomingClosed>>
sendVars == <<sender, nbSent, fallback>>
vars == <<list, opener, connVars, sockVars, killVars, closeVars, sendVars, panic>>

NoPanic == <<"none", NoConn>>
Running == panic = NoPanic
Panic(what, s) == panic' = <<what, s>>
Listed(s) == \E i \in DOMAIN list : list[i] = s
-----------------------------------------------------------------------------
(* Connections that are opened, and what the peers do.                     *)

\* The connection exists and its socket is made: both goroutines run.  No
\* address is ever known: knowAddrRoutine compares pointers.  What Accept
\* returned just before Close closed the listener is still served.
NewSingleSocket(o, s) ==
  /\ Running /\ opener[o] = NoConn /\ once[s] = "none"
  /\ IF s \in Dialed THEN o = "InitialiseConnection" ELSE o = "serverLoop"
  /\ closer = "run" \/ (o = "serverLoop" /\ closer # "closed")
  /\ IF listClosed
       THEN Panic("inAddr", s) /\ UNCHANGED <<opener, connVars, sockVars>>
       ELSE /\ opener' = [opener EXCEPT ![o] = s]
            /\ peerUp' = [peerUp EXCEPT ![s] = TRUE]
            /\ connOpen' = [connOpen EXCEPT ![s] = TRUE]
            /\ reader' = [reader EXCEPT ![s] = "decode"]
            /\ writer' = [writer EXCEPT ![s] = "range"]
            /\ once' = [once EXCEPT ![s] = "no"]
            /\ UNCHANGED <<unread, pending, nbError, loopChan, outClosed, delayClosed, panic>>
  /\ UNCHANGED <<list, killVars, closeVars, sendVars>>

\* appendSingleSocketRoutine: into the first empty slot, or at the end.
Placed(s) ==
  LET free == {i \in DOMAIN list : list[i] = NoConn}
  IN IF free = {} THEN Append(list, s)
     ELSE [list EXCEPT ![CHOOSE i \in free : \A j \in free : i <= j] = s]

AppendSingleSocket(o) ==
  /\ Running /\ opener[o] # NoConn
  /\ IF listClosed
       THEN Panic("inAppendSock", opener[o]) /\ UNCHANGED <<list, opener>>
       ELSE /\ list' = Placed(opener[o])
            /\ opener' = [opener EXCEPT ![o] = NoConn]
            /\ UNCHANGED panic
  /\ UNCHANGED <<connVars, sockVars, killVars, closeVars, sendVars>>

PeerLeaves(s) ==
  /\ Running /\ s \in Leaving /\ peerUp[s]
  /\ peerUp' = [peerUp EXCEPT ![s] = FALSE]
  /\ UNCHANGED <<list, opener, connOpen, unread, sockVars, killVars, closeVars, sendVars, panic>>
-----------------------------------------------------------------------------
(* The reader.                                                             *)

\* A message that has arrived; what the decoder has buffered outlives the
\* connection.
Read(s) ==
  /\ Running /\ reader[s] = "decode" /\ unread[s] > 0
  /\ unread' = [unread EXCEPT ![s] = @ - 1]
  /\ reader' = [reader EXCEPT ![s] = "pass"]
  /\ UNCHANGED <<list, opener, peerUp, connOpen, pending, writer, nbError, loopChan, outClosed,
                 delayClosed, once, killVars, closeVars, sendVars, panic>>

\* The message is passed to manageMessage, and that to the consensus.
Pass(s) ==
  /\ Running /\ reader[s] = "pass"
  /\ IF incomingClosed
       THEN Panic("incoming", s) /\ UNCHANGED reader
       ELSE reader' = [reader EXCEPT ![s] = "decode"] /\ UNCHANGED panic
  /\ UNCHANGED <<list, opener, connVars, pending, writer, nbError, loopChan, outClosed,
                 delayClosed, once, killVars, closeVars, sendVars>>

\* Mutant: the reader never closes its socket.
AfterErrorDone(s) == {"done"}
\* A connection the node closed gives an OpError, one the peer left EOF or an
\* OpError; the reader closes the socket itself unless it is an OpError while
\* NetSocket.Close runs.
AfterError(s) == {"close", "done"} \ ((IF stop THEN {} ELSE {"done"})
                                       \cup (IF peerUp[s] /\ stop THEN {"close"} ELSE {}))

\* Decode fails.
ReadError(s) ==
  /\ Running /\ reader[s] = "decode" /\ (~peerUp[s] \/ ~connOpen[s])
  /\ loopChan' = [loopChan EXCEPT ![s] = @ + 1]
  /\ \E next \in AfterError(s) : reader' = [reader EXCEPT ![s] = next]
  /\ UNCHANGED <<list, opener, connVars, pending, writer, nbError, outClosed, delayClosed, once,
                 killVars, closeVars, sendVars, panic>>
-----------------------------------------------------------------------------
(* The writer and the messages on their way to it.                         *)

\* Mutant: every message is handed over twice.
SendTwice(S) == pending' = [s \in Conn |-> IF s \in S THEN pending[s] + 2 ELSE pending[s]]
\* sendMessage: one more goroutine waits to hand a message to the writer.
SendTo(S) == pending' = [s \in Conn |-> IF s \in S THEN pending[s] + 1 ELSE pending[s]]

\* A waiting goroutine hands its message over and the writer encodes it.  An
\* encoding fails only when the connection does, and may succeed even then.
Write(s) ==
  /\ Running /\ pending[s] > 0 /\ ~outClosed[s] /\ writer[s] = "range"
  /\ pending' = [pending EXCEPT ![s] = @ - 1]
  /\ \E failed \in BOOLEAN :
       /\ failed => ~peerUp[s]
       /\ nbError' = [nbError EXCEPT ![s] = IF failed THEN @ + 1 ELSE 0]
  /\ writer' = [writer EXCEPT ![s] = IF nbError'[s] > MaxError THEN "close" ELSE "range"]
  /\ UNCHANGED <<list, opener, connVars, reader, loopChan, outClosed, delayClosed, once,
                 killVars, closeVars, sendVars, panic>>

\* A waiting goroutine meets the closed channel.
WriteClosed(s) ==
  /\ Running /\ pending[s] > 0 /\ outClosed[s]
  /\ Panic("outcome", s)
  /\ UNCHANGED <<list, opener, connVars, sockVars, killVars, closeVars, sendVars>>

WriterEnds(s) ==
  /\ Running /\ writer[s] = "range" /\ outClosed[s]
  /\ writer' = [writer EXCEPT ![s] = "done"]
  /\ loopChan' = [loopChan EXCEPT ![s] = @ + 1]
  /\ UNCHANGED <<list, opener, connVars, pending, reader, nbError, outClosed, delayClosed, once,
                 killVars, closeVars, sendVars, panic>>
-----------------------------------------------------------------------------
(* single.close and the killer.  contract is [sock, step, by].             *)

NoContract == [sock |-> NoConn, step |-> "idle", by |-> "nobody"]
KillerOn(s) == contract.sock = s

\* The first slot of Close's copy of the list that it has not closed.
Slot(i) == i \in DOMAIN toKill /\ \A j \in DOMAIN toKill : i <= j

\* Who is in single.close() of s.
InClose(who, s) ==
  CASE who = "reader" -> reader[s] = "close"
    [] who = "writer" -> writer[s] = "close"
    [] who = "closer" -> closer = "sockets" /\ \E i \in DOMAIN toKill : Slot(i) /\ toKill[i] = s

\* The first caller hands the socket to the killer and waits.
CallKill(who, s) ==
  /\ Running /\ InClose(who, s) /\ once[s] = "no"
  /\ IF contractClosed
       THEN Panic("contract", s) /\ UNCHANGED <<once, contract>>
       ELSE /\ contract = NoContract
            /\ contract' = [sock |-> s, step |-> "exist", by |-> who]
            /\ once' = [once EXCEPT ![s] = "running"]
            /\ UNCHANGED panic
  /\ UNCHANGED <<list, opener, connVars, pending, reader, writer, nbError, loopChan, outClosed,
                 delayClosed, contractClosed, closeVars, sendVars>>

\* A caller goes on once the first call has ended; a writer ranges on.
LeaveClose(who, s) ==
  /\ Running /\ InClose(who, s) /\ once[s] = "done"
  /\ reader' = IF who = "reader" THEN [reader EXCEPT ![s] = "done"] ELSE reader
  /\ writer' = IF who = "writer" THEN [writer EXCEPT ![s] = "range"] ELSE writer
  /\ toKill' = [i \in {j \in DOMAIN toKill : who = "closer" => ~Slot(j)} |-> toKill[i]]
  /\ UNCHANGED <<list, opener, connVars, pending, nbError, loopChan, outClosed, delayClosed,
                 once, killVars, closer, stop, snapshot, listClosed, incomingClosed, sendVars,
                 panic>>

\* Mutant: those who wait for the first call are not told.
TerminateSilent(s) == contract' = NoContract /\ UNCHANGED once
Terminate(s) == contract' = NoContract /\ once' = [once EXCEPT ![s] = "done"]

\* askIfExist: a socket that is not in the list (any more, or yet) is left.
KillExist(s) ==
  /\ Running /\ KillerOn(s) /\ contract.step = "exist" /\ ~listClosed
  /\ IF Listed(s)
       THEN contract' = [contract EXCEPT !.step = "wait"] /\ UNCHANGED once
       ELSE Terminate(s)
  /\ UNCHANGED <<list, opener, connVars, pending, reader, writer, nbError, loopChan, outClosed,
                 delayClosed, contractClosed, closeVars, sendVars, panic>>

\* single.wait.Wait()
KillWait(s) ==
  /\ Running /\ KillerOn(s) /\ contract.step = "wait" /\ pending[s] = 0
  /\ contract' = [contract EXCEPT !.step = "close"]
  /\ UNCHANGED <<list, opener, connVars, sockVars, contractClosed, closeVars, sendVars, panic>>

\* Mutant: the delay channel is closed with the others.
KillCloseAll(s) ==
  /\ outClosed' = [outClosed EXCEPT ![s] = TRUE]
  /\ delayClosed' = [delayClosed EXCEPT ![s] = TRUE]
  /\ connOpen' = [connOpen EXCEPT ![s] = FALSE]
\* close(single.outcome) and single.conn.Close()
CloseSocket(s) ==
  /\ outClosed' = [outClosed EXCEPT ![s] = TRUE]
  /\ connOpen' = [connOpen EXCEPT ![s] = FALSE]
  /\ UNCHANGED delayClosed

KillClose(s) ==
  /\ Running /\ KillerOn(s) /\ contract.step = "close"
  /\ CloseSocket(s)
  /\ contract' = [contract EXCEPT !.step = "remove"]
  /\ UNCHANGED <<list, opener, peerUp, unread, pending, reader, writer, nbError, loopChan, once,
                 contractClosed, closeVars, sendVars, panic>>

\* askForRemoving
KillRemove(s) ==
  /\ Running /\ KillerOn(s) /\ contract.step = "remove" /\ ~listClosed
  /\ list' = [i \in DOMAIN list |-> IF list[i] = s THEN NoConn ELSE list[i]]
  /\ contract' = [contract EXCEPT !.step = "delay"]
  /\ UNCHANGED <<opener, connVars, sockVars, contractClosed, closeVars, sendVars, panic>>

\* close(single.inNewDelay)
KillDelay(s) ==
  /\ Running /\ KillerOn(s) /\ contract.step = "delay"
  /\ delayClosed' = [delayClosed EXCEPT ![s] = TRUE]
  /\ contract' = [contract EXCEPT !.step = "loops"]
  /\ UNCHANGED <<list, opener, connVars, pending, reader, writer, nbError, loopChan, outClosed,
                 once, contractClosed, closeVars, sendVars, panic>>

\* Mutant: one of the two goroutines is waited for.
OneGoroutineEnded(s) == loopChan[s] >= 1
\* <-single.loopChan, twice
GoroutinesEnded(s) == loopChan[s] = 2

KillEnd(s) ==
  /\ Running /\ KillerOn(s) /\ contract.step = "loops" /\ GoroutinesEnded(s)
  /\ Terminate(s)
  /\ UNCHANGED <<list, opener, connVars, pending, reader, writer, nbError, loopChan, outClosed,
                 delayClosed, contractClosed, closeVars, sendVars, panic>>
-----------------------------------------------------------------------------
(* NetSocket.Close, once the node has dialed everybody.                    *)

CloseBegins ==
  /\ Running /\ closer = "run" /\ opener["InitialiseConnection"] = NoConn
  /\ closer' = "list" /\ stop' = TRUE
  /\ UNCHANGED <<list, opener, connVars, sockVars, killVars, snapshot, toKill, listClosed,
                 incomingClosed, sendVars, panic>>

\* inGetList: a copy of the list; the slots that are not nil are closed in order.
GetList ==
  /\ Running /\ closer = "list"
  /\ toKill' = [i \in {j \in DOMAIN list : list[j] # NoConn} |-> list[i]]
  /\ snapshot' = {s \in Conn : Listed(s)}
  /\ closer' = "sockets"
  /\ UNCHANGED <<list, opener, connVars, sockVars, killVars, stop, listClosed, incomingClosed,
                 sendVars, panic>>

\* killer.close: an empty contract, when the killer is free, then no more.
CloseKiller ==
  /\ Running /\ closer = "sockets" /\ DOMAIN toKill = {} /\ contract = NoContract
  /\ contractClosed' = TRUE /\ closer' = "handler"
  /\ UNCHANGED <<list, opener, connVars, sockVars, contract, stop, snapshot, toKill,
                 listClosed, incomingClosed, sendVars, panic>>

CloseList ==
  /\ Running /\ closer = "handler"
  /\ listClosed' = TRUE /\ closer' = "accept"
  /\ UNCHANGED <<list, opener, connVars, sockVars, killVars, stop, snapshot, toKill,
                 incomingClosed, sendVars, panic>>

\* sockListener.Close and close(incoming)
CloseListener ==
  /\ Running /\ closer = "accept"
  /\ incomingClosed' = TRUE /\ closer' = "listener"
  /\ UNCHANGED <<list, opener, connVars, sockVars, killVars, stop, snapshot, toKill,
                 listClosed, sendVars, panic>>

\* serverLoop and manageMessage have ended.
CloseEnd ==
  /\ Running /\ closer = "listener" /\ opener["serverLoop"] = NoConn
  /\ closer' = "closed"
  /\ UNCHANGED <<list, opener, connVars, sockVars, killVars, stop, snapshot, toKill,
                 listClosed, incomingClosed, sendVars, panic>>

Closing ==
  CloseBegins \/ GetList \/ CloseKiller \/ CloseList \/ CloseListener \/ CloseEnd
-----------------------------------------------------------------------------
(* Who hands messages over: the consensus, and the goroutines              *)
(* transmitTransaction starts when it finds no socket to the proposer.     *)

\* BroadcastMessage, BroadcastMessageNV and TransmitTransaction read stop.
Send(channel) ==
  /\ Running /\ sender = "idle" /\ nbSent < MaxSend /\ ~stop
  /\ channel = "inMessageNV" => PoANV
  /\ sender' = channel /\ nbSent' = nbSent + 1
  /\ UNCHANGED <<list, opener, connVars, sockVars, killVars, closeVars, fallback, panic>>

\* Who the goroutine of the list gives a message to.  Whoever has no number is no
\* active validator and gets what is for either.
Recipients(channel) ==
  {s \in Conn : Listed(s) /\ CASE channel = "inMessage" -> PoANV => s \in ToActive \cup Unnumbered
                               [] channel = "inMessageNV" -> s \notin ToActive
                               [] channel = "inTransac" -> s = ToProposer}

\* The goroutine of the list takes the message, if its channel is open.
Handle ==
  /\ Running /\ sender # "idle"
  /\ sender' = "idle"
  /\ IF listClosed
       THEN Panic(sender, NoConn) /\ UNCHANGED <<pending, fallback>>
       ELSE /\ SendTo(Recipients(sender))
            /\ fallback' = IF sender = "inTransac" /\ ~Listed(ToProposer)
                             THEN fallback + 1 ELSE fallback
            /\ UNCHANGED panic
  /\ UNCHANGED <<list, opener, connVars, reader, writer, nbError, loopChan, outClosed,
                 delayClosed, once, killVars, closeVars, nbSent>>

\* transmitTransaction's goroutine broadcasts, whether Close runs or not.
HandleFallback ==
  /\ Running /\ fallback > 0
  /\ fallback' = fallback - 1
  /\ IF listClosed
       THEN Panic("inMessage", NoConn) /\ UNCHANGED pending
       ELSE SendTo(Recipients("inMessage")) /\ UNCHANGED panic
  /\ UNCHANGED <<list, opener, connVars, reader, writer, nbError, loopChan, outClosed,
                 delayClosed, once, killVars, closeVars, sender, nbSent>>

\* UpdateDelay, which does not look at stop: a new delay for each socket.
UpdateDelay ==
  /\ Running
  /\ \E lost \in IF listClosed THEN {<<"inNewDelay", NoConn>>}
                ELSE {<<"delay", s>> : s \in {c \in Conn : Listed(c) /\ delayClosed[c]}} :
       panic' = lost
  /\ UNCHANGED <<list, opener, connVars, sockVars, killVars, closeVars, sendVars>>
-----------------------------------------------------------------------------
Init ==
  /\ list = <<>> /\ opener = [o \in Opener |-> NoConn]
  /\ peerUp = [s \in Conn |-> FALSE] /\ connOpen = peerUp
  /\ unread = [s \in Conn |-> MaxRead]
  /\ pending = [s \in Conn |-> 0] /\ nbError = pending /\ loopChan = pending
  /\ reader = [s \in Conn |-> "none"] /\ writer = reader /\ once = reader
  /\ outClosed = [s \in Conn |-> FALSE] /\ delayClosed = outClosed
  /\ contract = NoContract /\ contractClosed = FALSE
  /\ closer = "run" /\ stop = FALSE /\ snapshot = {} /\ toKill = <<>>
  /\ listClosed = FALSE /\ incomingClosed = FALSE
  /\ sender = "idle" /\ nbSent = 0 /\ fallback = 0
  /\ panic = NoPanic

Reader(s) == Read(s) \/ Pass(s) \/ ReadError(s)
Writer(s) == Write(s) \/ WriteClosed(s) \/ WriterEnds(s)
Close(who, s) == CallKill(who, s) \/ LeaveClose(who, s)
Kill(s) ==
  KillExist(s) \/ KillWait(s) \/ KillClose(s) \/ KillRemove(s) \/ KillDelay(s) \/ KillEnd(s)
Caller == {"reader", "writer", "closer"}

Next ==
  \/ \E o \in Opener : AppendSingleSocket(o) \/ \E s \in Conn : NewSingleSocket(o, s)
  \/ \E s \in Conn : PeerLeaves(s) \/ Reader(s) \/ Writer(s) \/ Kill(s)
  \/ \E who \in Caller, s \in Conn : Close(who, s)
  \/ Closing
  \/ \E channel \in {"inMessage", "inMessageNV", "inTransac"} : Send(channel)
  \/ Handle \/ HandleFallback \/ UpdateDelay

Spec == Init /\ [][Next]_vars

\* Every goroutine that can go on will.  (Each socket is killed once at most,
\* so that nobody finds the killer busy for ever.)
Fairness ==
  /\ \A o \in Opener : WF_vars(AppendSingleSocket(o))
  /\ \A s \in Conn : WF_vars(Reader(s) \/ Close("reader", s))
  /\ \A s \in Conn : WF_vars(Writer(s) \/ Close("writer", s))
  /\ WF_vars(\E s \in Conn : Kill(s))
  /\ WF_vars((stop /\ Closing) \/ \E s \in Conn : Close("closer", s))
  /\ WF_vars(Handle \/ HandleFallback)
FairSpec == Spec /\ Fairness
-----------------------------------------------------------------------------
Panics == {"none", "inAddr", "inAppendSock", "incoming", "outcome", "contract", "inMessage",
           "inMessageNV", "inTransac", "inNewDelay", "delay"}

\* Every variable has its type; loopChan never holds more than its capacity,
\* so that neither goroutine of a socket stays in its last send.
TypeOK ==
  /\ list \in Seq(Conn \cup {NoConn}) /\ Len(list) <= Cardinality(Conn)
  /\ opener \in [Opener -> Conn \cup {NoConn}]
  /\ peerUp \in [Conn -> BOOLEAN] /\ connOpen \in [Conn -> BOOLEAN]
  /\ unread \in [Conn -> 0..MaxRead] /\ pending \in [Conn -> 0..MaxSend]
  /\ reader \in [Conn -> {"none", "decode", "pass", "close", "done"}]
  /\ writer \in [Conn -> {"none", "range", "close", "done"}]
  /\ nbError \in [Conn -> 0..MaxSend] /\ loopChan \in [Conn -> 0..2]
  /\ outClosed \in [Conn -> BOOLEAN] /\ delayClosed \in [Conn -> BOOLEAN]
  /\ once \in [Conn -> {"none", "no", "running", "done"}]
  /\ contract \in [sock : Conn \cup {NoConn}, by : Caller \cup {"nobody"},
                   step : {"idle", "exist", "wait", "close", "remove", "delay", "loops"}]
  /\ contractClosed \in BOOLEAN /\ stop \in BOOLEAN
  /\ closer \in {"run", "list", "sockets", "handler", "accept", "listener", "closed"}
  /\ snapshot \subseteq Conn /\ \A i \in DOMAIN toKill : i \in DOMAIN list /\ toKill[i] \in Conn
  /\ listClosed \in BOOLEAN /\ incomingClosed \in BOOLEAN
  /\ sender \in {"idle", "inMessage", "inMessageNV", "inTransac"}
  /\ nbSent \in 0..MaxSend /\ fallback \in 0..MaxSend
  /\ panic \in Panics \X (Conn \cup {NoConn})

\* What the order of the closing steps is for.  No new delay is sent to a
\* socket that has been removed; Close does not close the channels under the
\* readers of the sockets it closed, only under those of connections made
\* meanwhile; and a node that nobody leaves does not panic before it is closed.
CloseOrder ==
  /\ panic[1] # "delay"
  /\ panic[1] \in {"incoming", "contract"} => panic[2] \notin snapshot
  /\ Running \/ stop \/ \E s \in Conn : once[s] # "none" /\ ~peerUp[s]

\* A socket the killer has finished is finished whole: it is in no slot, its
\* connection is closed, and neither goroutine will use it again.
Finished(s) == delayClosed[s] /\ once[s] = "done"
KilledWhole ==
  \A s \in Conn : Finished(s) =>
    /\ ~Listed(s) /\ ~connOpen[s]
    /\ writer[s] = "done" /\ reader[s] \in {"close", "done"}

\* A writer that has the killer close its own socket, or waits for the socket
\* to be closed, is one of those the killer waits for.
KillerStuck == \E s \in Conn : writer[s] = "close"

\* NetSocket.Close ends, unless a writer and the killer wait for each other.
CloseEnds == (closer # "run") ~> (closer = "closed" \/ ~Running \/ KillerStuck)

\* The socket of a peer that has left leaves the list.  One whose reader met
\* the end of the connection before it was appended stays.
Forgotten(s) == once[s] = "done" /\ ~delayClosed[s]
PeerGone ==
  \A s \in Conn : (Listed(s) /\ ~peerUp[s]) ~>
                    (~Listed(s) \/ Forgotten(s) \/ stop \/ ~Running \/ KillerStuck)
=============================================================================
