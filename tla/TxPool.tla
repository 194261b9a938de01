------------------------------- MODULE TxPool -------------------------------
(***************************************************************************)
(* The transaction pool of one node (TransactionPool.go,                   *)
(* transactionPoolInterf.go) and the two goroutines that use it.           *)
(*                                                                         *)
(* loopTransactionPool serves one request after the other.  It keeps the   *)
(* transactions twice, in a map and in a list sorted by timestamps that    *)
(* holds hashes only, and the commands in a map of their own.  Its callers *)
(* are MsgHandlerGoroutine ("cons"), which handles messages with priority, *)
(* proposes and executes blocks, and transactionHandler ("tx"), which      *)
(* handles the others, may be told to drop them (overload behaviour        *)
(* Ignore) and reads that from a channel the loop writes to.  A caller     *)
(* looks a transaction up, and adds it, in two requests.                   *)
(***************************************************************************)
EXTENDS Integers, FiniteSets, Sequences

CONSTANTS
  Tx,            \* plain transactions
  Command,       \* transactions whose input is a Commande
  timestamp,     \* when a transaction was made
  Invalidates,   \* the commands that executing a command makes invalid
  Inbox,         \* what each goroutine is sent, once
  Foreign,       \* the transactions of each block another node proposes
  Threshold,     \* config.TransactionThreshold, for each of the two maps
  BlockSize,     \* config.BlockSize
  DropShare,     \* almostClear keeps Threshold \div DropShare (64 in the code)
  StopCap,       \* the capacity of the stop channel (8 in the code)
  Behaviors,     \* the overload behaviours a node may be started with
  NoItem,        \* no transaction
  NoBlock        \* no block

Handler == {"cons", "tx"}
Item == Tx \cup Command

ASSUME TxPoolAssumption ==
  /\ Tx \cap Command = {}
  /\ IsFiniteSet(Tx) /\ IsFiniteSet(Command)
  /\ timestamp \in [Tx -> Nat \ {0}]
  /\ Invalidates \in [Command -> SUBSET Command]
  /\ Inbox \in [Handler -> SUBSET Item]
  /\ Foreign \subseteq Seq(Item)
  /\ Threshold \in Nat \ {0} /\ BlockSize \in Nat \ {0}
  /\ DropShare \in Nat \ {0} /\ StopCap \in Nat \ {0}
  /\ Behaviors \subseteq {"Nothing", "Ignore", "Drop"}
  /\ NoItem \notin Item /\ NoBlock \notin Seq(Item)

VARIABLES
  behavior,
  transactions, commands, list,   \* the two maps and the sorted list
  status,                         \* stopChanHandler.status
  stopChan, addTx,                \* the stop channel, what its reader last read
  loop, caller,                   \* the loop, and who it has not answered yet
  inbox, pc, inHand,              \* the messages, the callers, what they handle
  block,                          \* the block proposed and not executed yet
  toFlush,                        \* what flushTransaction still has to do
  executed,                       \* the transactions executed, in order
  foreign,                        \* blocks of other nodes still to come
  doomed,                         \* removals getTxForBloc has started
  crashed

poolVars == <<transactions, commands, list>>
stopVars == <<status, stopChan, loop, caller>>
callVars == <<inbox, pc, inHand, addTx>>
blockVars == <<block, toFlush, executed, foreign>>
vars == <<behavior, poolVars, stopVars, callVars, blockVars, doomed, crashed>>
-----------------------------------------------------------------------------
(* The sorted list.                                                        *)

\* The timestamp a hash is given: that of the map, 0 if the map has no entry.
TimeOf(t, map) == IF t \in map THEN timestamp[t] ELSE 0

\* insert: from the end, before every entry that is younger.
InsertPlace(s, t, map) ==
  CHOOSE i \in 0..Len(s) :
    /\ \A j \in i + 1..Len(s) : TimeOf(s[j], map) > TimeOf(t, map)
    /\ i > 0 => TimeOf(s[i], map) <= TimeOf(t, map)
Insert(s, t, map) ==
  LET i == InsertPlace(s, t, map) IN SubSeq(s, 1, i) \o <<t>> \o SubSeq(s, i + 1, Len(s))

\* remove: the first entry with that hash.
RemoveEntry(s, t) ==
  IF \E i \in DOMAIN s : s[i] = t
    THEN LET i == CHOOSE j \in DOMAIN s : s[j] = t /\ \A k \in 1..j - 1 : s[k] # t
         IN SubSeq(s, 1, i - 1) \o SubSeq(s, i + 1, Len(s))
    ELSE s

GetFirstsElem(n) == SubSeq(list, 1, IF n < Len(list) THEN n ELSE Len(list))

\* The lists that hold each transaction of a set once, sorted.
SortedLists(kept) ==
  {s \in [1..Cardinality(kept) -> kept] :
     \A i, j \in 1..Cardinality(kept) :
       i < j => s[i] # s[j] /\ timestamp[s[i]] <= timestamp[s[j]]}
-----------------------------------------------------------------------------
(* What the loop does for its callers.                                     *)

Pool == transactions \cup commands
Free == loop = "select" /\ ~crashed
\* Mutant: the limit is checked too late.
FullLate(t) == Cardinality(IF t \in Command THEN commands ELSE transactions) > Threshold
Full(t) == Cardinality(IF t \in Command THEN commands ELSE transactions) >= Threshold

\* Mutant: a quarter and one more place.
QuarterFreeStrict(size) == size < (Threshold * 3) \div 4
QuarterFree(size) == size <= (Threshold * 3) \div 4

\* Mutant: a new status is told without being recorded.
TellForgetful(newStatus, h) ==
  IF Len(stopChan) < StopCap /\ status # newStatus
    THEN stopChan' = Append(stopChan, newStatus) /\ UNCHANGED <<status, loop, caller>>
    ELSE UNCHANGED stopVars

\* tellIfContinu: only a change is told; the loop stays in the send, and its
\* caller h without an answer, while the channel is full.
TellIfContinu(newStatus, h) ==
  IF status = newStatus
    THEN UNCHANGED stopVars
    ELSE /\ status' = newStatus
         /\ IF Len(stopChan) < StopCap
              THEN stopChan' = Append(stopChan, newStatus) /\ UNCHANGED <<loop, caller>>
              ELSE loop' = "tell" /\ caller' = h /\ UNCHANGED stopChan

\* Mutant: almostClear leaves the list as it was.
AlmostClearMapOnly(map) ==
  \E kept \in SUBSET map :
    /\ Cardinality(kept) = Threshold \div DropShare
    /\ transactions' = kept /\ UNCHANGED list

\* almostClear: the map is walked in any order.  The walk stops when as many
\* as wanted are kept, so that none wanted means all kept.
AlmostClear(map) ==
  \E kept \in SUBSET map :
    /\ IF Threshold \div DropShare = 0 THEN kept = map
       ELSE Cardinality(kept) = Threshold \div DropShare
    /\ transactions' = kept /\ list' \in SortedLists(kept)

\* Mutant: the handlers are told each time that the pool is full.
RefuseTelling(h) ==
  /\ UNCHANGED <<poolVars, status>>
  /\ IF Len(stopChan) < StopCap
       THEN stopChan' = Append(stopChan, FALSE) /\ UNCHANGED <<loop, caller>>
       ELSE loop' = "tell" /\ caller' = h /\ UNCHANGED stopChan
\* What is added to a full pool is refused, and the caller only logs it.
Refuse(h) == UNCHANGED <<poolVars, stopVars>>

\* addTransaction and afterTxAdd, for caller h.
Add(t, h) ==
  IF Full(t) THEN Refuse(h)
  ELSE IF t \in Command
    THEN commands' = commands \cup {t} /\ UNCHANGED <<transactions, list, stopVars>>
  ELSE LET map == transactions \cup {t}
           reached == Cardinality(map) = Threshold
       IN /\ UNCHANGED commands
          /\ IF behavior = "Drop" /\ reached
               THEN AlmostClear(map)
               ELSE transactions' = map /\ list' = Insert(list, t, map)
          /\ IF behavior = "Ignore" /\ reached
               THEN TellIfContinu(FALSE, h)
               ELSE UNCHANGED stopVars

\* Mutant: a flush takes out the oldest transactions, whichever it executed.
RemovedOldest(t) ==
  IF list = <<>> THEN UNCHANGED <<transactions, list>>
  ELSE transactions' = transactions \ {Head(list)} /\ list' = Tail(list)
Removed(t) ==
  /\ transactions' = transactions \ {t}
  /\ list' = IF t \in transactions THEN RemoveEntry(list, t) ELSE list

\* removeTransaction and afterTxRemove; the caller was answered before.
Remove(t) ==
  IF t \in Command
    THEN commands' = commands \ {t} /\ UNCHANGED <<transactions, list, stopVars>>
    ELSE /\ Removed(t)
         /\ UNCHANGED commands
         /\ IF behavior = "Ignore" /\ ~status
               /\ QuarterFree(Cardinality(transactions \ {t}))
              THEN TellIfContinu(TRUE, "none")
              ELSE UNCHANGED stopVars
-----------------------------------------------------------------------------
(* The goroutines.                                                         *)

Invalid == UNION {Invalidates[executed[i]] : i \in {j \in DOMAIN executed : executed[j] \in Command}}
HasExecuted(t) == \E i \in DOMAIN executed : executed[i] = t
Flushing == toFlush # NoBlock
Idle(h) == pc[h] = "idle" /\ ~crashed /\ (h = "cons" => ~Flushing)

\* A goroutine takes a message.  transactionHandler drops it while it is
\* told to, unless it is a command.
TakeMessage(h, t) ==
  /\ Idle(h) /\ t \in inbox[h]
  /\ inbox' = [inbox EXCEPT ![h] = @ \ {t}]
  /\ IF h = "cons" \/ addTx \/ t \in Command
       THEN pc' = [pc EXCEPT ![h] = "exists"] /\ inHand' = [inHand EXCEPT ![h] = t]
       ELSE UNCHANGED <<pc, inHand>>
  /\ UNCHANGED <<behavior, poolVars, stopVars, addTx, blockVars, doomed, crashed>>

\* transactionHandler reads its stop channel.
ReadStop ==
  /\ Idle("tx") /\ stopChan # <<>>
  /\ addTx' = Head(stopChan) /\ stopChan' = Tail(stopChan)
  /\ UNCHANGED <<behavior, poolVars, status, loop, caller, inbox, pc, inHand, blockVars,
                 doomed, crashed>>

\* receiveTransacMess: ExistingTransaction, a request to the loop.
ExistingTransaction(h) ==
  /\ Free /\ pc[h] = "exists"
  /\ pc' = [pc EXCEPT ![h] = IF inHand[h] \in Pool THEN "idle" ELSE "chain"]
  /\ UNCHANGED <<behavior, poolVars, stopVars, inbox, inHand, addTx, blockVars, doomed, crashed>>

\* receiveTransacMess: BlockChain.ExistTx, which waits for the end of a
\* flush, and VerifyAsCommandShort.
ExistTx(h) ==
  /\ pc[h] = "chain" /\ ~Flushing /\ ~crashed
  /\ pc' = [pc EXCEPT ![h] =
              IF HasExecuted(inHand[h]) \/ inHand[h] \in Invalid THEN "idle" ELSE "add"]
  /\ UNCHANGED <<behavior, poolVars, stopVars, inbox, inHand, addTx, blockVars, doomed, crashed>>

\* ReceiveTrustedMess: AddTransaction, answered when the loop has told.
AddTransaction(h) ==
  /\ Free /\ pc[h] = "add"
  /\ Add(inHand[h], h)
  /\ pc' = [pc EXCEPT ![h] = IF loop' = "select" THEN "idle" ELSE "added"]
  /\ UNCHANGED <<behavior, inbox, inHand, addTx, blockVars, doomed, crashed>>

\* The loop gets its message into the stop channel and answers its caller.
SendStop ==
  /\ loop = "tell" /\ Len(stopChan) < StopCap /\ ~crashed
  /\ stopChan' = Append(stopChan, status) /\ loop' = "select" /\ caller' = "none"
  /\ pc' = [h \in Handler |-> IF h = caller THEN "idle" ELSE pc[h]]
  /\ UNCHANGED <<behavior, poolVars, status, inbox, inHand, addTx, blockVars, doomed, crashed>>

\* The goroutines started for the invalid commands read the loop variable
\* when they run: the one started at visited[i] removes visited[i] or one after.
MayDoom(visited, key) == {visited[j] : j \in key..Len(visited)}

\* getTxForBloc: the commands in the order of the map, up to the first valid
\* one, then the oldest transactions.  A hash of the list without an entry in
\* the map is verified with no public key, which panics.
GetTxForBloc ==
  /\ Free /\ Idle("cons") /\ block = NoBlock /\ Pool # {}
  /\ \E visited \in {s \in UNION {[1..n -> commands] : n \in 0..Cardinality(commands)} :
                       \A i, j \in DOMAIN s : i # j => s[i] # s[j]} :
       LET n == Len(visited)
           found == n > 0 /\ visited[n] \notin Invalid
           invalid == IF found THEN n - 1 ELSE n
           oldest == GetFirstsElem(BlockSize)
       IN /\ \A i \in 1..invalid : visited[i] \in Invalid
          /\ ~found => n = Cardinality(commands)
          /\ \E keys \in [1..invalid -> Command] :
               /\ \A i \in 1..invalid : keys[i] \in MayDoom(visited, i)
               /\ doomed' = doomed \cup {keys[i] : i \in 1..invalid}
          /\ IF found
               THEN block' = <<visited[n]>> /\ UNCHANGED crashed
             ELSE IF \E i \in DOMAIN oldest : oldest[i] \notin transactions
               THEN crashed' = TRUE /\ UNCHANGED block
             ELSE block' = oldest /\ UNCHANGED crashed
  /\ UNCHANGED <<behavior, poolVars, stopVars, callVars, toFlush, executed, foreign>>

\* The own block has its commits, or a block of another proposer has; that one
\* holds nothing the chain holds already.
StartFlush ==
  /\ Idle("cons")
  /\ IF block # NoBlock
       THEN toFlush' = block /\ UNCHANGED foreign
       ELSE \E b \in foreign :
              /\ \A i \in DOMAIN b : ~HasExecuted(b[i])
              /\ toFlush' = b /\ foreign' = foreign \ {b}
  /\ UNCHANGED <<behavior, poolVars, stopVars, callVars, block, executed, doomed, crashed>>

\* flushTransaction: execute the next transaction, then have it removed.
Execute ==
  /\ Flushing /\ pc["cons"] = "idle" /\ toFlush # <<>> /\ ~crashed
  /\ executed' = Append(executed, Head(toFlush))
  /\ pc' = [pc EXCEPT !["cons"] = "remove"]
  /\ UNCHANGED <<behavior, poolVars, stopVars, inbox, inHand, addTx, block, toFlush, foreign,
                 doomed, crashed>>

RemoveTransaction ==
  /\ Free /\ pc["cons"] = "remove"
  /\ Remove(Head(toFlush))
  /\ toFlush' = Tail(toFlush)
  /\ pc' = [pc EXCEPT !["cons"] = "idle"]
  /\ UNCHANGED <<behavior, inbox, inHand, addTx, block, executed, foreign, doomed, crashed>>

EndFlush ==
  /\ toFlush = <<>> /\ pc["cons"] = "idle" /\ ~crashed
  /\ toFlush' = NoBlock /\ block' = NoBlock
  /\ UNCHANGED <<behavior, poolVars, stopVars, callVars, executed, foreign, doomed, crashed>>

\* A goroutine of getTxForBloc.
RemoveDoomed(c) ==
  /\ Free /\ c \in doomed
  /\ Remove(c)
  /\ doomed' = doomed \ {c}
  /\ UNCHANGED <<behavior, callVars, blockVars, crashed>>
-----------------------------------------------------------------------------
Init ==
  /\ behavior \in Behaviors
  /\ transactions = {} /\ commands = {} /\ list = <<>>
  /\ status = TRUE /\ stopChan = <<>> /\ loop = "select" /\ caller = "none"
  /\ inbox = Inbox /\ addTx = TRUE
  /\ pc = [h \in Handler |-> "idle"] /\ inHand = [h \in Handler |-> NoItem]
  /\ block = NoBlock /\ toFlush = NoBlock /\ executed = <<>> /\ foreign = Foreign
  /\ doomed = {} /\ crashed = FALSE

Receive(h) ==
  \/ \E t \in inbox[h] : TakeMessage(h, t)
  \/ ExistingTransaction(h)
  \/ ExistTx(h)
  \/ AddTransaction(h)
Flush == StartFlush \/ Execute \/ RemoveTransaction \/ EndFlush

Next ==
  \/ \E h \in Handler : Receive(h)
  \/ ReadStop
  \/ SendStop
  \/ GetTxForBloc
  \/ Flush
  \/ \E c \in Command : RemoveDoomed(c)

Spec == Init /\ [][Next]_vars

\* Every goroutine that can go on will: Go's scheduler and the network starve none.
Fairness ==
  /\ \A h \in Handler : WF_vars(Receive(h))
  /\ WF_vars(ReadStop)
  /\ WF_vars(SendStop)
  /\ WF_vars(GetTxForBloc)
  /\ WF_vars(Flush)
FairSpec == Spec /\ Fairness
-----------------------------------------------------------------------------
\* Every variable has its type; the limits of the two maps hold.
TypeOK ==
  /\ behavior \in Behaviors
  /\ transactions \subseteq Tx /\ Cardinality(transactions) <= Threshold
  /\ commands \subseteq Command /\ Cardinality(commands) <= Threshold
  /\ list \in Seq(Tx)
  /\ status \in BOOLEAN /\ addTx \in BOOLEAN
  /\ stopChan \in Seq(BOOLEAN) /\ Len(stopChan) <= StopCap
  /\ loop \in {"select", "tell"} /\ caller \in Handler \cup {"none"}
  /\ inbox \in [Handler -> SUBSET Item]
  /\ pc \in [Handler -> {"idle", "exists", "chain", "add", "added", "remove"}]
  /\ inHand \in [Handler -> Item \cup {NoItem}]
  /\ block \in Seq(Item) \cup {NoBlock} /\ toFlush \in Seq(Item) \cup {NoBlock}
  /\ executed \in Seq(Item) /\ foreign \subseteq Foreign
  /\ doomed \subseteq Command /\ crashed \in BOOLEAN

\* The list is the map: it holds each transaction of the map once, the oldest
\* first, and nothing else, whatever is added, removed or dropped.  (For
\* transactions that only one of the two goroutines is sent.)
ListIsPool == list \in SortedLists(transactions)

\* No look into the pool meets a hash of the list without its transaction:
\* the goroutine of getTxForBloc would panic, and with it the node.
NoPanic == ~crashed

\* Both: the map and the list can be used together.
PoolInv == ListIsPool /\ NoPanic

\* What the handlers are told: the values in the channel, and the one the
\* loop is about to send, alternate, start by changing what transactionHandler
\* goes by and end with what the pool has decided.
Told == <<addTx>> \o stopChan \o (IF loop = "tell" THEN <<status>> ELSE <<>>)
StopInOrder ==
  /\ \A i \in 1..Len(Told) - 1 : Told[i + 1] = ~Told[i]
  /\ Told[Len(Told)] = status

\* Under Ignore the pool wants transactions as long as it has place, has been
\* told to stop when it is full, and has not told to resume before a quarter
\* of it is free; under the other behaviours nobody is told anything.
PausedWhenFull ==
  IF behavior = "Ignore"
    THEN /\ status => Cardinality(transactions) < Threshold
         /\ ~status => Cardinality(transactions) > (Threshold * 3) \div 4
    ELSE status

\* Both: transactionHandler is told what it must know, when it must.
StopInv == StopInOrder /\ PausedWhenFull

\* The loop waits for transactionHandler to read the stop channel, and
\* transactionHandler for the loop, itself or through the lock of a flush.
Stuck ==
  /\ loop = "tell" /\ Len(stopChan) = StopCap
  /\ \/ pc["tx"] \in {"exists", "add", "added"}
     \/ pc["tx"] = "chain" /\ Flushing /\ toFlush # <<>>

\* How far away that deadlock is: the pool has been emptied by a quarter once
\* for every two places of the channel, while transactionHandler did not read it.
StuckNeedsRemovals ==
  Stuck => Cardinality({executed[i] : i \in DOMAIN executed} \cap Tx)
             >= ((StopCap + 1) \div 2) * (Threshold - (Threshold * 3) \div 4)

\* What leaves the pool has been executed or, a command, will be with the
\* proposed block or is not valid any more; only Drop drops, when the pool is full.
Proposed == IF block = NoBlock THEN {} ELSE {block[i] : i \in DOMAIN block}
PoolKeeps ==
  [][/\ \A t \in transactions \ transactions' :
          HasExecuted(t) \/ (behavior = "Drop" /\ Cardinality(transactions) + 1 = Threshold)
     /\ \A c \in commands \ commands' : HasExecuted(c) \/ c \in Proposed \/ c \in Invalid]_vars

\* No transaction is executed twice.
TxExecutedOnce ==
  \A i, j \in DOMAIN executed : i # j => executed[i] # executed[j]

\* A transaction in the pool does not stay there: the blocks, one after the
\* other, reach it, unless the loop and transactionHandler wait for each other.
Served == \A t \in Tx : t \in transactions ~> (t \notin transactions \/ Stuck)

\* A transactionHandler that drops transactions takes them again in the end,
\* unless it and the loop wait for each other.
Resumes == ~addTx ~> (addTx \/ Stuck)

\* Both: no transaction and no goroutine waits for ever, but for that deadlock.
NobodyWaits == Served /\ Resumes
-----------------------------------------------------------------------------
(***************************************************************************)
(* Why PoolInv and StuckNeedsRemovals hold: the invariants that their      *)
(* proofs go by.                                                           *)
(***************************************************************************)
\* What a goroutine is still to look up or to add.
Deciding == {"exists", "chain", "add"}
ToAdd(h) == inbox[h] \cup IF pc[h] \in Deciding THEN {inHand[h]} ELSE {}

\* A message is handled once, so that a transaction that is still to come has
\* not been added before.
HandledOnce ==
  \A h \in Handler :
    /\ ToAdd(h) \subseteq Inbox[h] /\ ToAdd(h) \cap transactions = {}
    /\ pc[h] \in Deciding => inHand[h] \notin inbox[h]

\* Executed for good: in the chain, and in nobody's way into the pool.
Spent == {t \in Tx : /\ HasExecuted(t) /\ t \notin transactions
                     /\ \A h \in Handler : t \notin ToAdd(h)}

\* What the pool has decided and transactionHandler has not read.
Pending == Len(stopChan) + (IF loop = "tell" THEN 1 ELSE 0)

\* Each decision to resume has cost the pool a quarter of its places, and a
\* pool that waits for that has lost what it lacks to be full.
Quarter == Threshold - (Threshold * 3) \div 4
ResumesPaid ==
  IF status
    THEN Cardinality(Spent) >= ((Pending + 1) \div 2) * Quarter
    ELSE Cardinality(Spent) >=
           (Pending \div 2) * Quarter + (Threshold - Cardinality(transactions))
=============================================================================
