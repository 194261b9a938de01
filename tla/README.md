# Sabine: specifications of a node, their checks and their proofs

Sabine is a permissioned blockchain in Go. A fixed list of nodes runs PBFT
without a view change; commands carried by the transactions change which nodes
are active validators while the chain runs, by hand or by a feedback control.
This directory holds TLA+ modules of the consensus, of the transaction pool,
the sockets, the bootstrap and the dealer, the saver, the metrics and the feedback
control, the TLC configurations that check them on small instances, and TLAPS
proofs for every size.

    tlc -workers 2 -config poa_heights.cfg MCConsensus     one run
    tlapm Node_proofs.tla                                  the proofs of a module

## 1. The system

| component | source | state | operations | interacts with |
|---|---|---|---|---|
| consensus state machine | `Consensus/pbftStateConsensus.go`, `States.go`, `CoreConsensus.go` | `state`, `currentHash`, `chanUpdateStatus` (one place), `chanReceivMsg`, `chanTxMsg` | one handler per message type; one `giveMeNext`/`update` pair per state; `updateStatusWithMsg` changes state until nothing changes | every pool, the chain, the validators, the sockets, the feedback control |
| chain and blocks | `blockchain.go`, `block.go`, `BlockPool.go`, `BlockMsg.go` | `chain`, `lastBlock`, the cached `proposer`; `BlockPool` twice (active and inactive) | `addBlock`, `AddUpdatedBlock`, `flushTransaction`, `apply`, `updateProposer`, `IsValidNewBlock` | validators, transaction pool |
| validator list | `validator.go`, `ValidatorInterf.go` | `nodeList`, `isActiveValidatorMap` | `SetNewListOfValidator`, `IsSizeValid`, `CheckIfValidatorsAreNodes`, `GetActiveValidatorIndexOfValue` | read by the fan-out while the consensus writes it |
| vote pools | `PreparePool.go`, `CommitPool.go` | per hash: unconfirmed and confirmed votes, validated, number expected | add, confirm on count, validate, prune | consensus |
| transaction pool | `TransactionPool.go`, `transactionPoolInterf.go`, `transaction.go` | two maps and a sorted list, the thresholds, the overload behaviour, the stop channel | a loop that serves: look up, add, remove, take the transactions of a block | consensus goroutine, transaction goroutine, feedback control |
| message fan-out | `Socket/listSocket.go`, `netSocket.go` | the list of sockets, channels of requests | broadcast, transmit to the proposer, append or remove a socket | the consensus hands messages over and goes on |
| sockets and their killer | `Socket/singleSocket.go`, `socketKiller.go`, `netSocket.go` | two goroutines per socket, a WaitGroup, a `Once`, four channels | read, write, close once, close all | fan-out, consensus |
| network delay | `Socket/NormalDelay.go` | a distribution | sleep before a write, in a goroutine per message | reorders the messages of a socket |
| bootstrap | `Launcher/bootserver.go`, `Socket/netSocketBoot.go`, `ExchangeID.go` | the registered addresses; each node's sockets and their numbers | register, dial those registered before, exchange numbers | runs once before the consensus |
| dealer | `Launcher/dealer.go`, `senderFct.go`, `client.go` | contacts, a loop, a channel per contact, a WaitGroup | ask for contacts, decode a client's transactions, spread them | bootstrap, nodes |
| saver | `saver.go`, `Launcher/node.go` | a channel of one place, a WaitGroup, files | ask, write in one file or in parts, wait | chain, main goroutine |
| metrics | `metrics.go` | counts on three channels, the last period, a list kept for a file | count, end a period, update, save, close | consensus, pool, feedback control |
| feedback control | `ControlFeedBack.go`, `ControlLoop/modelCmp.go` | three ring buffers of periods, a model, the instant of the last change | take a period, decide on an order before a proposal | metrics, selector, transaction pool |
| validator selection | `validatorSelector.go` | the distances between nodes | the list that an order proposes | feedback control |
| executed transactions | `executedTxSex.go` | a map from transaction to block (or Bloom filter, radix tree) | add, look up | chain |
| round changes | `MessagePool.go` | a pool | none is used: no code sends a RoundChange | |
| client, load generators | `Launcher/client.go`, `zombie*.go` | contacts, rates | send transactions to one or several nodes | sockets |
| command line, HTTP view, wallets | `cmd/`, `httpViewer.go`, `Wallet.go` | | input, output, cryptography | |

How it works. The proposer of a height is drawn from the sorted active set
by the first byte of the last block's hash. In `NewRoundProposer` it makes a block as
soon as its pool is not empty, broadcasts it as a PrePrepare and goes on
like the others: `NewRound` takes a block that fits the chain and votes Prepare,
`Prepared` waits for 2n/3+1 prepares and votes Commit, `Committed` waits for as
many commits, executes the block and goes to the next height. A block may hold one
command instead of transactions; a `VarieValid` command replaces the active set
when its block is executed. Under `PoANV` inactive nodes take no part in the
votes: messages go to active nodes only, the proposer sends each finished block
to the inactive ones as a BlocMsg, and they execute it in `NVRound`.

### What is hard in it

* Three goroutines of a node share state: the consensus goroutine, the
  transaction goroutine, which checks a transaction and then adds it, and the
  list goroutine, which reads the active set socket by socket.
* `chanUpdateStatus` holds one message and drops the others.
* Each message is sent by its own sleeping goroutine, so nothing is ordered: votes and
  blocks of the next height arrive during the present one, and votes of the last
  height after it.
* Votes are confirmed against the active set of the moment they are counted at, which
  changes; pruning (`RamOpt`) removes votes on the receipt of other votes.
* The proposer and the active set are cached, and must be those of the last block.
* A command is verified on receipt and used some heights later.
* Loops that serve requests also make some: the pool's loop fills the stop channel of
  the goroutine that waits for it, the dealer's loop the channel of a socket that
  waits for it, a writer waits for the killer that waits for it.
* Channels are closed while others may still send on them, and a node closes its
  sockets, its metrics and its consensus in that order.
* The saver, the ticker, the updaters of the metrics and the control each take state
  at one time and use it at another.

PROJECT.json lists each hazard at its line, with the property that covers it or
the reason why none does.

### What makes each part correct

* consensus and chain: agreement, chains that are linked, one proposal per height, executions
  backed by a quorum, everything executed once, and progress with a quorum of
  running nodes;
* validator list: quorums intersect; drawing a proposer stays within the set; all nodes
  that executed a block draw the same one;
* vote pools: no vote is counted for the wrong height or sender, none is lost while
  it is needed;
* transactions: none accepted is lost, none is executed twice, commands are authorised
  when executed; the list is the map; who is told to stop is told to go on;
* fan-out, sockets and wake-up: nobody sleeps with work left, a socket is closed whole,
  closing ends;
* bootstrap and dealer: each pair connected once and under the right number; what a
  client sends reaches the contacts;
* saver and metrics: the file has what was asked for; each count is in one period; the
  node ends;
* control: an order rests on the present validators, and on a model that says what was
  measured.

## 2. The modules

| module | what it is |
|---|---|
| `Validators` | pure operators of the validator list and the quorum arithmetic |
| `VotePool` | PreparePool and CommitPool, one structure for both |
| `PBFTConsensus` | the nodes: the variables, one action per handler and per state change, the properties |
| `Ledger` | the abstract specification: logs that grow by blocks everybody agrees on |
| `TxPool` | one node's pool, its loop, and the two goroutines that use it |
| `Sockets` | one node's sockets: list, readers, writers, killer, `NetSocket.Close` |
| `Bootstrap` | the boot server and the nodes that find each other |
| `Dealer` | EXTENDS `Bootstrap`: the dealer that asks it for contacts, and what it sends them |
| `Saver` | the saver goroutine and the chain it writes |
| `Metrics` | EXTENDS `Saver`: the counts, the periods, the updaters, the metrics file, `Close` |
| `ModelCmp` | pure operators: the import of a performance model, the search in it, and what they should give |
| `ControlFeedBack` | EXTENDS `Metrics`, `ModelCmp`, `Validators`: the ring buffers, the laws, the selectors, the order |
| `Node` | the composition: main starts and ends saver, metrics and control |
| `MCConsensus`, `MCTxPool`, `MCDealer`, `MCNode` | instances for TLC |
| `Operators_proofs` | what the operators of `Validators` and `ModelCmp` compute, for every input |
| `PBFTConsensus_proofs` | the inductive invariant of the consensus's rounds, its theorems, the refinement |
| `Votes_proofs` | EXTENDS it: the votes and the certificates they make, what is never lost of them, the wake-ups |
| `Transactions_proofs` | EXTENDS `Votes_proofs`: commands and transactions, in pools, in blocks and executed |
| `Node_proofs` | EXTENDS it: invariants of saver, metrics and control, and their theorems |
| `TxPool_proofs` | invariants of the stop channel and of the users of the pool, and their theorems |
| `Dealer_proofs` | the invariants of the bootstrap and of the dealer, and their theorems |
| `Sockets_proofs` | the invariant of the sockets, their killer and `Close`, and its theorems |

### PBFTConsensus: variables and code

`chain`, `active`, `proposer`: `Blockchain` and its `Validators`. `state`,
`current`, `wake`, `updating`: the state machine, `chanUpdateStatus` being full,
and the goroutine being inside `updateStatusWithMsg`. `blockPool`, `blockPoolNV`,
`preparePool`, `commitPool`, `txPool`: the pools. `doomed`: commands that the
goroutines started by `getTxForBloc` will remove (they read the loop variable, so
possibly another command than the invalid one). `txInHand`: what
`transactionHandler` has checked and not added yet. `net[n]`: what sockets and channels
hold for n. `outbox[n]`: the sends that the list goroutine of n still has to do.

### PBFTConsensus: actions and code

| action | code |
|---|---|
| `ReceiveTransac` | `receivedMessage` with a transaction with priority: checks and addition in one step of the consensus goroutine |
| `CheckTransaction`, `AddTransaction` | `transactionHandler`: the two halves of `receiveTransacMess`, other goroutines in between |
| `ReceivePrePrepare`, `ReceivePrepare`, `ReceiveCommit`, `ReceiveBlockMsg` | the handlers, relaying and pruning included; each ends by offering the message to `chanUpdateStatus` |
| `Propose` | `NewRoundProposer`: `CheckControl`, `GetTxForBloc`, `CreateBlock`, broadcast |
| `Prepare`, `Commit` | `NewRound.update`, `Prepared.update` |
| `Finalize` | `Committed.update`: validate, send to the inactive nodes, `AddUpdatedBlock`, next state |
| `AppendNV` | `NewRoundNV.update` |
| `EndUpdate` | `updateStatusWithMsg` finds nothing more to do; the counting confirms votes even then |
| `RemoveDoomed` | a goroutine of `getTxForBloc` |
| `FanOut`, `FanOutTransaction` | `handleListSocket` at one socket, `transmitTransaction` |

### PBFTConsensus: abstractions

* A block is a member of a set; its hash is itself, its first hash byte a field.
  `CreateBlock` may return any block with the right parent, height, proposer and
  transactions, as the timestamp makes the hash arbitrary. Nodes are honest, so
  signatures verify and are left out.
* Delivery: a socket delivers each message once, at any time, in any order. A
  message is in `net` as long as it is not handled; equal messages are one.
* Who is active matters to a broadcast only under `PoANV`. Then the sends are
  separate steps (`FanOut`); otherwise nothing the list goroutine reads can change and the message is
  on its way to all at once.
* The transaction pool is a set with the two thresholds, of a node whose overload behaviour is `Nothing`:
  `Added` leaves out `afterTxAdd`. What `Ignore` and `Drop` do at the threshold (refuse, `almostClear`) is in `TxPool`.
* The handler of a transaction adds it, has it broadcast and offers it to `chanUpdateStatus` in one step, as nobody
  takes back what another goroutine may do in between: the pool is only asked, and the message is on its way
  at any time afterwards. A priority transaction that the proposer's socket does not take falls back at once to the
  broadcast, where `transmitTransaction` starts a goroutine that hands it over.
* Relaying (`BroadcastFlag`) is part of the handlers, but no run sets the flag: each
  vote then comes once per node and the smallest interesting instance is out of TLC's reach.
* Goroutines that a handler waits for (`BroadcastMessage` on an unbuffered channel,
  the proposer's wait for its BlocMsgs) are guards on `outbox`.

### TxPool

State: `transactions`, `commands`, `list` (the two maps and the sorted list of
hashes), `status` and `stopChan` (`stopingChanHandler`), `loop` and `caller` (the
loop answers one request at a time, or stands in a send on the stop channel), `pc`,
`inHand` and `addTx` (the two goroutines that handle transactions), `block`, `toFlush`,
`executed` (the part of the consensus that proposes and executes).

| action | code |
|---|---|
| `TakeMessage`, `ExistingTransaction`, `ExistTx`, `AddTransaction` | `receiveTransacMess`, one request or one look at a time; `Refuse` is the drop in `ReceiveTrustedMess` |
| `ReadStop` | `transactionHandler` reads the stop channel |
| `Add` (in `AddTransaction`) | `addTransaction`, with the threshold, `afterTxAdd` of each overload behaviour and `almostClear` |
| `GetTxForBloc`, `RemoveDoomed` | `GetTxForBloc` and the goroutines it starts |
| `StartFlush`, `Execute`, `RemoveTransaction`, `EndFlush` | `flushTransaction`; removals tell the handlers when a quarter is free |
| `SendStop` | the pending send of `tellIfContinu` goes through |

A panic (a hash without its transaction, whose nil key is dereferenced) is the variable `crashed`.

### Sockets

State: `list` (slots), per connection the two goroutines (`reader`, `writer`), the
messages on their way (`pending`, the WaitGroup `wait`), `loopChan`, the closed channels,
`once`; the killer (`contract`); `NetSocket.Close` (`closer`, `snapshot`, `toKill`); who
sends (`sender`, `fallback`); `panic`.

| action | code |
|---|---|
| `NewSingleSocket`, `AppendSingleSocket` | `serverLoop` and `InitialiseConnection`: the socket runs first and is in the list later |
| `Read`, `Pass`, `ReadError` | `incomeGoroutine` |
| `Write`, `WriteClosed`, `WriterEnds` | `outcomeGoroutine`; a message on its way when the channel is closed panics |
| `CallKill`, `LeaveClose` | `singleSocket.close`: `Once`, then the killer's channel |
| `KillExist` ... `KillEnd` | `killRoutine`, one step per call it makes or channel it waits for |
| `CloseBegins` ... `CloseEnd` | `NetSocket.Close`, one step per thing it waits for |
| `Send`, `Handle`, `HandleFallback`, `UpdateDelay` | the senders and `handleListSocket` |

A connection that the listener had accepted just before `Close` closed it is still served, and panics on the closed list.
A program without a number (-1, the dealer) gets what is for active and what is for inactive nodes (`Unnumbered`).

### Bootstrap and Dealer

`server`, `listAddr`, `queue`: the boot server, which serves one connection at a time.
`phase`, `toDial`, `accepting`, `socks`: each node. `StartServer`, `DialServer`,
`Listen`, `Register`, `ServeStopped`, `DialPeer`, `ExchangeId`, `ExchangeAlone`,
`AcceptStopped`, `Crash` follow `BootServer`, `NewNetSocketBoot`, `InitialiseConnection`
and the two functions of `ExchangeID.go`. A node that stops in the exchange may have sent its number
before. The dealer asks the same server (`Ask`, `Answer`, `Connect`; `AskFails` when there is none to answer), decodes (`Decode`) into one reused variable, starts a goroutine for each
message (`StartSend`), and its loop takes (`LoopTake`), hands over (`LoopHand`) and removes
contacts (`Remove`) while each socket sends (`SocketSend`, `Drain`); `Close` ends it.
What ends it with a panic is a value of `main`.

### Saver, Metrics, ControlFeedBack, Node

The main goroutine (`main`) runs until `Interrupt`, asks for a last save, waits
(`WaitSaver`), closes the metrics (`StopStack`, `WaitUpdates`, `Save("close")`,
`KillTicker`, `KillSum`) and then stops the consensus (`KillConsensus`), in the order
of `node.go`, `PBFTStateConsensus.Close` and `MetricHandler.Close`.

| goroutine | variables | actions |
|---|---|---|
| `saverLoop` | `saver`, `saveFile`, `parts`, `MultiPrev` | `TakeAsk`, `CreateFile`, `CreateFails`, `WriteFile`, `WriteFails` (nothing or a part is in the file) |
| consensus | `cons`, `lastBlock`, `secLastBlock`, `sizeChain` | `BeginBlock`, `AppendBlock` (the two pointers), `CountBlock`, `Flush`, `RemoveTx`, `CountTx`, `CheckControl`, `AskPool` |
| `loopTransactionPool` | `pool` | `PoolAnswers`, `AddTransaction`, `CountReceived`, `OrderAdded` |
| `transactionHandler` | | `ReceiveTx` |
| `loopSumTx` | `sums`, the three `add...` channels | `SumLoop` |
| `loopTicker` | `ticker`, `period`, `now` | `Tick`, `HandPeriod`, `Update`, `Spawn`, `ServeThroughputs`, `StartSave` |
| an updater per period | `updaters`, `throughputChan`, `stack` | `ReadBlock` twice, `AskThroughputs`, `Keep` |
| `controlLoop` | `control`, `tor`, `modelVal`, `changedAt` | `HandPeriod`, `MakeOrder`, `AddOrder` |

The loop of the pool counts what it adds, and serves nobody until `loopSumTx` has a place for the count. So
`pool` says whose transaction is being added: the transaction goroutine's (`handler`), the consensus goroutine's or the control's.
The consensus waits for the pool when it asks it something (`query`), for the removal of an executed transaction (`remove`) and,
through the control, for an order to be added (`asked`).

Abstractions: a chain is its length; a block has one transaction, so that blocks and
transactions are counted in one unit; a file is how many blocks or metrics it holds; the
means of the ring buffers are sums over as many periods; the latencies of a model
are those of its table. `NewSize` takes the three laws as they are written: under `Hysteresis`
more requests than executions add a validator where `OneValidator` removes one. An order that is
refused leaves `changedAt`, so another may follow each round. `CentricLists` lets the
nodes after the centre come in any order that `Update`'s weights might give.

## 3. The runs

| run | instance | asks | states |
|---|---|---|---|
| `late_votes` | 4 nodes, node 3 connected to node 0 only, 1 height | `NoVoteLost` | 473,705 |
| `validators_change` | 3 nodes, 2 heights, two commands | `CommandsAuthorised`, `CacheFresh`, `CommitCertificate`, `BlockAtHand`, `LedgerSpec` | 246,768 |
| `poa_heights` | 3 nodes, PoANV, 3 heights | `Agreement`, `Inductive` | 374,306 |
| `one_silent_live` | 4 nodes, one never runs | `RequestsExecuted` | 54,026 |
| `tx_paths` | 2 nodes, PoANV, 2 heights, three ways of broadcasting, an order of the control | `NoTxLost`, `OneProposal`, `NoLostWakeup` | 222,489 |
| `left_behind` | 2 nodes, 3 heights | `ExecutedOnce`, `BlocksSpread` | 48,916 |
| `dropped_validator` | 3 nodes, PoANV, 1 height | `BlocksSpread`, violated | finding 2 |
| `tx_pool` | 3 transactions, 2 commands, threshold 2, three overload behaviours | `TypeOK`, `PoolInv`, `StopInv`, `StuckNeedsRemovals`, `PoolKeeps`, `NobodyWaits` | 388,187 |
| `tx_twice` | 2 transactions sent without priority, one also in the block of another node | `TxExecutedOnce`, violated | finding 1 |
| `sockets` | 2 connections, one dialed, one accepted; one peer may leave | `TypeOK`, `CloseOrder`, `KilledWhole`, `CloseEnds`, `PeerGone` | 271,570 |
| `senders` | 2 nodes, one may stop; 4 ways to start the dealer | `DealerInv`, `PriorityHeld`, `SocketsRight`, `AllConnected`, `ReachesAll` | 233,200 |
| `node` | 14 ways to start a node and 145 tables of a model | `TypeOK`, `SaveCovers`, `PartsCover`, `WaitedFor`, `Counted`, `MetricsKept`, `StaleAtMostOne`, `PanicsBeyond`, `ModelSound`, `NodeEnds` | 456,158 |

`Inductive` is the inductive invariant of the consensus: `IInv` (rounds), `VotesInv` (votes) and
`CommandsVerified`. The other inductive invariants of section 4 that are not properties of a run were checked
on these instances before they were proved: `KeptInv` on `left_behind`, `OnceInv` on `left_behind`
and `poa_heights`, `HeldInv` on both and on `tx_paths`, `HandledOnce` and `ResumesPaid` on `tx_pool`, `BootInv`
and `DealIInv` on `senders`.

`DealerInv`, `SocketsRight`, `PoolInv`, `StopInv`, `ModelSound` and `NobodyWaits` are conjunctions of
properties that are named and explained in their modules.

### Bounds, and why they are enough

* Consensus. Three nodes with `MinValidators = 2` (4 in the code, a constant here) are enough for a node
  to leave the set and be followed by quorums of the others; four nodes with quorum
  three are the first where votes may come after the quorum and one node may be
  silent. Two heights are enough for messages of one height to meet the state of the
  other, three for an inactive node to receive two blocks in the wrong order. `HashBytes`
  has one value per run, which fixes who proposes each height. The tree of blocks ends at the
  last height of `TxLists`; the requests are all sent at the start.
* Pool. Threshold 2 with three transactions reaches the limit and leaves it again;
  `StopCap = 1` (8) fills the stop channel with one message, where the deadlock needs
  one turn of stop and go; `DropShare = 2` (64) keeps one transaction where the code
  keeps threshold/64. No run sends one transaction to both goroutines: see "What the models
  say of the code".
* Sockets. `MaxError = 1` (3) errors in a row, two messages, one read per
  connection: a writer reaches its limit; two sockets are enough for the killer to be busy with one
  while the other asks for it. Both are those of nodes (`Unnumbered = {}`, as one more recipient of a message only
  multiplies the states); the theorems hold with any.
* Senders. Two nodes register in either order; `NbMessChan = 1` (128) fills a channel with one message;
  three messages are the most a client sends; the dealer waits for none, one or two nodes.
* Node. `ChanCap = 1` (100), `blocFragmentMax = 2` (4096), `CreateTest = 1`: three blocks make a full
  file and another; two failures are one more than is tried again. Each start lets one
  part go far, as the parts only meet in main, the chain and the channels; some leave the interrupt out (`interrupt`), those
  whose question is about a node that runs. The buffers have one or two places. `StaleAtMostOne` is about orders that
  follow a change of the validators: one start has two blocks, two orders and four periods for a buffer of two, so
  that a second order is given after the first was executed, on a buffer with and without a period from before.
  Blocks and transactions that outnumber `ChanCap` after `loopSumTx` was killed fill each of its channels.

`CHECK_DEADLOCK FALSE` everywhere: a consensus that has executed every request, a pool with nothing
left to do, a dealer whose client is gone and a node that has ended stop, which is no error. What must not
stop is a liveness property.

Each property of a passing run comes with a mutant, an operator next to the original that carries a
plausible mistake; TLC finds the property violated with it.

### Fairness

Weak fairness of each goroutine of each running node: a goroutine that can go on will. Go's
scheduler starves no goroutine and a socket delivers what it was given; a message in `net` is
handled in the end because handlers consume messages once and what is sent is finite.
No fairness is given to a silent node, to clients, to an interrupt, to a failure or to
a peer that may leave. Two actions have strong fairness, both in `Node`: `KillConsensus` and
`HandPeriod` are cases of a `select` whose other cases are ready again and again; Go
chooses among the ready cases at random.

### Findings

1. `tx_twice`: `receiveTransacMess` looks the transaction up in the pool and in the chain, and
   only then adds it. The consensus goroutine may execute a block with it in between; the transaction
   is added again and executed again. Transactions with priority are not exposed (`left_behind`):
   the consensus goroutine handles them.
2. `dropped_validator`: under PoANV the list goroutine asks at each socket whether the node is active,
   while the consensus goroutine may execute the block that leaves that node out. The node misses a commit and
   stays in `Committed`; the BlocMsg it receives is not looked at in that state.

### What the models say of the code

These are consequences of the code that no comment or test denies; the properties are stated around them, so
that anything more would be noticed.

* Pool: a transaction that comes with and without priority at the same time is inserted twice in the list and
  once in the map; after its removal a hash without transaction is left, which panics (`PoolInv`
  holds for transactions that only one goroutine is sent). The loop may wait for the
  reader of the stop channel while that waits for the loop; `StuckNeedsRemovals` says how many removals it takes.
  `almostClear` of a pool whose threshold is below 64 keeps everything.
* Sockets: a writer with too many errors in a row and the killer wait for each other, and `Close` for
  both (`KillerStuck`). A message that is broadcast to a socket while it is killed, a sender or
  an `UpdateDelay` after the list is closed, and a connection accepted during `Close` panic. A
  socket whose reader fails before it is in the list stays in the list (`Forgotten`).
* Bootstrap: a node that stops while it is served ends the boot server. A node that stops in the exchange
  before it has sent its number is taken for node 0.
* Dealer: it panics when more nodes had registered than it asked for and when a contact other than the
  first is removed; the first is never removed. Asked to choose at random among no contacts it panics.
  A message may be sent with the priority of another. The loop and a socket that
  failed may wait for each other (`LoopStuck`).
* Saver: a node that saves in parts does not end, as `writeMultipleFile` never calls `waitWrite.Done` (theorem
  `NodeNeverEndsInParts`). A file that cannot be created is not noticed when an older one is there; in parts it panics.
* Metrics: an updater started after the stop panics once the channel is closed; one that
  reads the last block before and the other after a block is added divides by zero, and the save panics at the infinite
  value; two saves at a time mix the file. What is still counted after `loopSumTx`
  has ended fills its channels: then the consensus waits in `AddOneCommittedBlock` or `AddNCommittedTx`, or the loop
  of the pool in `AddOneReceivedTx`, and the consensus for the pool or for the control that waits for it; `Close`
  waits for the consensus (`Jammed`). `NodeEnds` says that a node ends but for these and for the panics (`Broken`). A block and its transactions may be counted in
  different periods.
* Control: an order may rest on one period from before the last change. `Random` and
  `Centric` panic when asked for more validators than nodes, `Pivot` fills the list with nil keys;
  a 3D model panics when there are more validators than it knows of.

## 4. The proofs

### The consensus

`PBFTConsensus_proofs` proves, for any number of nodes, heights and transactions, any
flags, any connections and any changes of the validators:

| theorem | states |
|---|---|
| `Invariance` | `Spec => []IInv` |
| `TypeCorrect` | `Spec => []TypeOK` |
| `ChainsAgree` | `Spec => []Agreement` |
| `ProposedOnce` | `Spec => []OneProposal` |
| `CacheIsFresh` | `Spec => []CacheFresh` |
| `BlockIsAtHand` | `Spec => []BlockAtHand` |
| `ImplementsLedger` | `Spec => LedgerSpec` |

`Operators_proofs` adds that the draw of a proposer stays in the active set
(`ActiveValidatorIsMember`) and that two quorums share more than a third
(`QuorumsIntersect`).

Assumptions: `ValidatorsAssumption` (finitely many nodes, at least `MinValidators`, at
least one), `ConsensusAssumption` (the types of the constants; Genesis has height 0) and
`ValidatorsAfterAssumption`, which defines `validatorsAfter` along the tree of blocks and is used by
properties only. TLC evaluates all three in every run.

The argument. Agreement does not rest on quorums here but on the honesty of proposers, as the
code has no second proposal for a height: if two blocks with the same parent never exist, chains
that are linked cannot differ. So the invariant needs to know why a height is proposed
once:

* `CacheFresh`: a node's proposer is the one its last block designates;
* `ProposerInTurn`: a node in `NewRoundProposer` designates itself;
* `ProposedInTurn`: a block that exists was made by the node its parent designates, and
  that node has executed the parent and, if the parent is still its last block, has left
  `NewRoundProposer`.

A node that proposes a child of its last block therefore is the only one that may, and has
not done so before (`NothingProposed`), which keeps `OneProposal`. A node that executes b
meets, on any chain that is ahead, another child of the same parent, which is b
(`NextBlockAgreed`): this keeps `Agreement` and is also the step of the refinement. `BlockAtHand` is
what makes the block executed by `Finalize` fit the chain it is appended to, some steps after
`IsValidNewBlock` was asked. `Linked` gives a block one place in a chain.

The actions are grouped by what the invariant sees of them: `Still` (eleven actions that
change no chain and no state, and make no block), `Voting`, `Proposing` and
`Executing`. For each action a lemma shows its group and `TypeOK'`; for each group a lemma
shows `IInv'`. `IInv` is not the whole of `Inductive`, but it is inductive on its own; what follows builds on it.

### The votes

`Votes_proofs` proves, from the same assumptions:

| theorem | states | inductive invariant |
|---|---|---|
| `QuorumsBehindBlocks` | `Spec => []CommitCertificate` | `IInv /\ VotesInv` |
| `VotesAreNotLost` | `~PoANV` implies `Spec => []NoVoteLost` | `IInv /\ VotesInv /\ KeptInv` |
| `NoWakeupIsLost` | `Spec => []NoLostWakeup` | itself, with `IInv` |

The certificates. A node moves on when its pool counts enough confirmed votes. Each vote that is counted was
cast by its sender (`VotesCast`; what a node has done for a block it does not undo) and its sender was a
validator at the height of the block (`ConfirmedByVoters`; `confirm` asks for the validators of the moment, and
the block at hand is a child of the last one, whose validators those are). The pool counts with the number of validators of
the moment too. So the senders it has counted are a certificate, which only grows. A node that takes its
block from a BlocMsg has no votes: the block was executed by the node that made the message
(`SentWhenExecuted`), so its certificate is there already.

No vote lost. A vote that was cast for a block is with each node connected to the voter, in its pool or in `net`, for as
long as that node has not passed the phase it is for (`VotesKept`). `RamOpt` removes votes of blocks
that are executed, `confirm` discards votes of nodes that are no validators, which a voter of the block at hand is. This
needs that no node is in `NVRound`: with PoANV a fan-out skips a node that the sender believes
inactive, and finding 2 is what comes of it. Without PoANV a node that leaves the set goes on as before.

No wake-up lost. `updateStatus` goes on while it can change something and otherwise returns, so what could be lost is a
message dropped because the channel was full, or a change that enables an update and asks for none. The proof is a frame
argument: what a node does leaves alone what any other node would do next (`OthersUntouched`), each of its own
actions ends with `wake` or `updating`, or leaves `CanChange` as it was.

### Commands and transactions

`Transactions_proofs` proves:

| theorem | states | under |
|---|---|---|
| `InductiveInvariance` | `Spec => []Inductive` | |
| `CommandsAreAuthorised` | `Spec => []CommandsAuthorised` | |
| `TransactionsAreNotLost` | `Spec => []NoTxLost` | the transactions sent fit in a pool |
| `TransactionsExecutedOnce` | `Spec => []ExecutedOnce` | all are sent with priority, none by the control of a node |

`CommandsVerified`: a command is in a block only when its sender was a validator of the proposer's last block, which
is the parent of the block, whatever the set was when the command was received.

`HeldInv`: what a client sent and the node takes is in its `net`, in the hands of `transactionHandler`, in the pool or
executed, at every moment. `OneInHand` is what makes it so between the check and the addition: `transactionHandler` handles one at a time. The
hypothesis is needed: a pool at its threshold refuses what it is given, as it should. Commands are left out of the property
because `getTxForBloc` removes those that are not valid any more.

`OnceInv`: with priority the consensus goroutine handles a transaction in one step, so that between the lookup and the
addition nothing is executed (`Immediate`); so no pool holds what its node has executed (`PoolFresh`)
and no block holds what was executed before its parent (`BlocksFresh`). Without the hypothesis the property is
false: finding 1. The orders of the control are excluded because they are broadcast without priority.

### The node

`Node_proofs` proves, for any way to start a node (any chain, any number of periods, asks,
failures and saves, any buffer, law, selector and model), any channel capacity and any
size of a file:

| theorem | states | inductive invariant |
|---|---|---|
| `NodeCounted` | `Spec => []Counted` | `CountInv`: the sums, and that an order is added only while the consensus waits for it, so that the two never count at once |
| `NodeWaitedFor` | `Spec => []WaitedFor` | `SaveInv`, of which it is a part |
| `NodeNeverEndsInParts` | a node that saves in parts never passes `WaitSaver` | `PartsInv`: an ask whose place is taken keeps the WaitGroup above zero, and nothing counts it down |
| `NodeSaveCovers` | `Spec => []SaveCovers` | `SaveInv`: the WaitGroup is the ask not taken plus the write that goes on, and a write with no ask behind it has taken a chain long enough |
| `NodePartsCover` | `Spec => []PartsCover` | `FilesInv`: between two writes every file is full but the last, which `MultiPrev` names; during a write every file before its own is full |
| `NodeStaleAtMostOne` | `Spec => []StaleAtMostOne` | `TorInv`: what each slot of the ring buffer holds is given by how many periods were handed over and the index; so the oldest slot that counts is from the last change or one before |
| `NodeMetricsKept` | `Spec => []MetricsKept` | `UpdaterInv` and `KeptInv` |
| `NodeModelSound` | `Spec => []ModelSound` | `ModelInv`: the model is what was imported of the table; the rest is about operators |
| `NodePanicsBeyond` | `Spec => []PanicsBeyond` | `ModelInv`, `FiguresInv` (what the buffer holds are numbers), `ListsInv` (an accepted list is not empty, a proposed one has keys) and `PanicInv` |
| `NodeTypes` | `Spec => []TypeOK` | the invariants of the saver and the control, and `TypeInv` for what they do not speak of: the steps of the goroutines, the chain, the places of the channels |

A write to numbered files begins with the last one and opens another until the chain it was asked for is in:
`EndOf` is where a file ends when it is full, and `PartsOf` that the number of files `asyncSave` computes is
the one whose end is not before the chain's. The first write that fails gives `FilesInv` up, as `PartsCover` does. TLC checks
`FilesInv` on the ways to start a node of the run `node`.

`MetricsKept` has the longest argument. `UpdaterInv` says that the WaitGroup of
`metricStackSave` is the number of updaters under way and its list as long as the number of those
that are over, with the channel holding exactly those that wait for an answer. So when the wait returns,
everything started before the stop is in the list (`KeptListed`), the save reads a list that long
(`KeptSize`), nobody else writes the file unless the saves overlap (`KeptAlone`), and the file
stays what Close wrote (`KeptFile`). `UpdatersGrow` and `AllOver` give what Stop
and Wait leave behind; `KeptGrows` and `KeptStays` carry the invariant over the steps of the other goroutines.

The model. `Operators_proofs` shows for every table what the import and the searches give. In two dimensions
the import keeps the lines worthwhile in order of their size, with throughputs that fall (`Import2DIs`), so
the bisection finds the largest that sustains the request (`BisectIs`, `Ideal2DIs`), which is `MostValidators2D`. In three
dimensions the sweep of `postImport` from the hardest cell on leaves in each cell the best measurement that
is as hard or harder (`SweepIs`, `OptimizeIs`, `Import3DIs`), and the search over a column then finds
`MostValidators3D` (`SearchIndexIs`, `Ideal3DIs`). The bisection, the sweep and the sums over the buffer are recursive
functions. That such a definition has the value its body says is proved by giving a function that satisfies it, so
that the CHOOSE behind it is one; what holds of every value then follows by a least counterexample.

`PanicsBeyond` is about the opposite of a panic: for every other size there is a list. `NewSizeType` shows that
each law and model asks for an integer, `NodesFrom` gives a list of that size that begins with any chosen node, and
`CenterIsActive` that the centre is one of the active validators, which sums of distances are compared for.
A panic ends the steps of the node, so what made it stays true. TLC checks the three invariants on the control's
ways to start a node of the run `node`.

Assumptions: `SaverAssumption`, `MetricsAssumption`, `ControlAssumption`, `ValidatorsAssumption` and
`StartAssumption`, the types of the constants; a table is a sequence of measurements, in any order.

### The transaction pool

`TxPool_proofs` proves, for any transactions, commands, threshold, block size and capacity
of the stop channel:

| theorem | states | inductive invariant |
|---|---|---|
| `TxPoolUse` | `Spec => []UseInv` | itself |
| `TxPoolTells` | `Spec => []StopInv` | `StopIInv`: with the types it needs, and the limit on the map |
| `TxPoolKeeps` | `Spec => PoolKeeps` | both |
| `TxPoolTypes` | `Spec => []TypeOK` | both, and `LimitsInv` |
| `TxPoolListed` | `Spec => []PoolInv`, when no plain transaction is sent to both goroutines | `UseInv /\ HandledOnce /\ PoolInv` |
| `TxPoolStuckLate` | `Spec => []StuckNeedsRemovals`, under the same hypothesis | `UseInv /\ HandledOnce /\ StopIInv /\ ResumesPaid` |

`StopInv` says of `Told`, what `transactionHandler` goes by followed by what it will be told, that it
alternates and ends with what the pool has decided. A decision of the loop makes it one longer at its end
(`TellsInOrder`), a read one shorter at its start (`ReadStopKeeps`), and a send that goes through does not change it
(`SendStopKeeps`); `ToldEntries` gives its entries. `AddKeeps` and `RemoveKeeps` relate the decision to the
size of the map, where it matters that three quarters of a threshold are less than it (`QuarterLess`).
`UseInv` says why a command may leave: it has been executed, is in the proposed block or is not valid any
more. A goroutine of `getTxForBloc` may remove the command that was proposed, by the loop variable it shares
(`GetTxForBlocUse`); when the block is forgotten, all of it has been executed (`EndFlushUse`).

The map and the list. `PoolInv` says that the list is one of `SortedLists(transactions)`, functions from an interval whose
length is a cardinality. The proof uses what such a list is (`Listing`: sorted, each transaction once, all of
them), which is the same by counting (`ListsAreListings`), and which the two loops of `sortedList` keep: `PlaceFound`
and `InsertEntries` give the place `insert` stops at and the entries of the result, `RemoveEntries` those of
`remove`. `insert` puts a transaction that is listed already in a second time, and `addTransaction` does not look:
so a transaction must not be added twice. A goroutine looks up first, but the other may add between its lookup and its
own addition; that is the first of the behaviours listed at the end of section 3, and why the theorem assumes that the two goroutines share no plain transaction.
With it, what a goroutine is still to add is not in the pool (`HandledOnce`): it is sent once, and not known to the other.

The deadlock. The loop waits for `transactionHandler` only when the stop channel is full. What is in it alternates
(`StopInv`), so every second decision was to resume, for which a quarter of the places had to become free. `ResumesPaid` counts:
executed transactions that are in nobody's way into the pool (`Spent`, which only grows) are at least a quarter for
each decision to resume that `transactionHandler` has not read and, while the pool is paused, what it lacks to be full.
`PaidWhenFull`, `PaidWhenFree` and `PaidWhenRead` are the three places where the sum changes sides.

Assumption: `TxPoolAssumption`, the types of the constants.

### The bootstrap and the dealer

`Dealer_proofs` proves, for any number of nodes, any of which may fail, and any way to start the
dealer:

| theorem | states | inductive invariant |
|---|---|---|
| `DealerSockets` | `Spec => []SocketsRight` | `BootInv` |
| `DealerPriority` | `Spec => []PriorityHeld` | `BootInv /\ DealIInv` |
| `DealerCounts` | `Spec => []DealerInv` | `BootInv /\ DealIInv` |

Two nodes could be connected twice if each dialed the other. The server registers a node once (`Registering`:
its connection is in the queue, or its address in the list, or neither) and sends it what was
registered before, so of two nodes only the later one dials (`Before`). `BootInv` follows an address from
there: to be dialed, once, as long as neither has a socket for the other (`Dialing`); then in the queue of
the other's `serverLoop` (`Accepting`), which may answer only the dial that goes on; then a socket on each side, or on one if
the other stopped (`Socketed`). `Connects` is the step all three ends of an exchange have in common. `RightIds` is
inductive given that a node that has stopped does not come back.

`DealIInv` follows a message from the decoder to a goroutine, the loop, a channel and a contact. `DealPriority` holds
because gob never clears the variable, whose value is read by a goroutine after it was written for its message or for a later
one. `DealCount` says more than `WaiterCounts`: with as many contacts as were asked for, the WaitGroup equals
`Load`; with fewer, it is at least that, as each message adds more than is handed over, and so it
does not fall below zero. `ChannelGrows` and `ChannelShrinks` count what the channels hold. The dealer
asks the server again only after it was answered, so it is in the queue once (the last part of `DealShape`).

Assumptions: `BootstrapAssumption` and `DealerAssumption`, the types of the constants.

### The sockets

`Sockets_proofs` proves, for any sockets, messages, slots and limit of errors:

| theorem | states |
|---|---|
| `SocketsInvariance` | `Spec => []SocketsInv` |
| `SocketKilledWhole` | `Spec => []KilledWhole` |
| `SocketCloseOrder` | `Spec => []CloseOrder` |
| `SocketTypes` | `Spec => []TypeOK` |

None of the properties is inductive. `SocketsInv` adds the types it needs (`Shape`), where each socket is
(`Place`: with the goroutine that opens it, in the list, with the killer, or done; what is in the list was
appended, and what was appended is in the list or taken out by the killer), how far its end is (`Ending`: what
is in `loopChan` are the goroutines that have ended, the channel to the writer is closed by the killer only,
and a socket whose peer is there and whose node is not closing has neither errors nor a
`close`), and what is closed under whom while `NetSocket.Close` goes on (`ClosingInv`: each socket of its
snapshot has been killed or is still to be). `once` says which socket is with the killer, and the killer has one
contract at a time. The types add `SlotInv` (no socket is in two slots, so the list is no longer than there are
sockets, by the pigeonhole principle) and `SentInv` (no message is counted twice among those that wait, the errors and the fallbacks).
Assumption: `SocketsAssumption`, the types of the constants.

### Only model-checked

All liveness (`BlocksSpread`, `RequestsExecuted`, `NobodyWaits`, `CloseEnds`, `PeerGone`, `AllConnected`, `ReachesAll`,
`NodeEnds`): TLAPS handles neither liveness under fairness nor ENABLED.

Neither proved nor checked: `NoVoteLost` with PoANV, and `NoTxLost` when a pool is full, where a node refuses what it
is sent. `ExecutedOnce` without priority is false (finding 1).

## 5. Not modelled

* `receiveRCMessage` and the message pool: nothing sends a RoundChange. There is no view
  change, so a proposer that stops, stops the chain.
* Crashes of a running node: nothing is read back and a node does not come back. A silent node of the consensus
  is one that is not in `Live`; nodes may stop in `Bootstrap` and `Dealer`, peers in `Sockets`.
* No run any more has a node return to the set, relaying, or the removal of old votes by `RamOpt`
  as a property; pruning itself is on in `late_votes`, `tx_paths` and `left_behind`.
* `TransactionPool.Clear` and the slice version of the sorted list, which only tests use; the Bloom filter
  and the radix tree of executed transactions: the node uses the map.
* `CentricSelector.Update`'s weights (any order instead), `FixSizeQueue`, `Control.Close`, `SetInstruction`
  while the node runs, an `os.Create` that fails for the metrics file.
* The load generators (`zombieTx`, `zombieLat`, `zombieRun`) and the interactive client: their rates
  and scenarios are timers, and what they send is an input of the models. `multiSend`, which they share
  with the dealer, is in `Dealer`.
* Delays: a message may take any time, so the distributions of `NormalDelay.go` change nothing.
* Input, output, the HTTP view, cryptography.

## 6. What is left

* Proofs: that `TxPool` refines the set of transactions that `PBFTConsensus` uses for a pool.
* Composition of `PBFTConsensus` with `Sockets`, so that a peer that leaves is seen by the consensus; it
  needs an abstraction of one of the two to stay within TLC's reach.
