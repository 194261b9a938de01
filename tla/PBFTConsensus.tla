---------------------------- MODULE PBFTConsensus ----------------------------
(***************************************************************************)
(* The PBFT consensus of Sabine: PBFTStateConsensus and its states         *)
(* (source/Blockchain/Consensus), with the chain, the validator list, the  *)
(* pools and the message fan-out they drive.                               *)
(*                                                                         *)
(* Every node runs three goroutines that matter here:                      *)
(*   - MsgHandlerGoroutine, the consensus goroutine: it either handles one *)
(*     received message (Receive...) or, woken by the one-place channel    *)
(*     chanUpdateStatus, changes state until nothing changes any more      *)
(*     (Propose .. EndUpdate);                                             *)
(*   - transactionHandler, which checks a transaction and then adds it to  *)
(*     the pool, concurrently with the first (CheckTransaction,            *)
(*     AddTransaction);                                                    *)
(*   - handleListSocket, which sends a message it was handed to one socket *)
(*     after the other, asking at each socket who is active (FanOut).      *)
(* A socket starts a goroutine per message that sleeps before it writes,   *)
(* so messages between two nodes are reordered at will: what is on its way *)
(* to a node is a set.                                                     *)
(***************************************************************************)
EXTENDS Validators, VotePool

CONSTANTS
  Live,                  \* the nodes that run; the others never take a step
  Peers,                 \* the nodes a node has a socket to
  Tx,                    \* transactions
  Command,               \* those whose input is a Commande
  NewValidatorSet,       \* the list a VarieValid command carries
  issuer,                \* the key a transaction is signed with
  timestamp,             \* when a transaction was made
  Block,                 \* the blocks that can be made
  Genesis,
  seqNb, lastHash, proposerOf, transactions,  \* the fields of a block
  hashByte,              \* the first byte of its hash
  validatorsAfter,       \* the active set once a block and all before it are
                         \* executed, for use in properties only
  Requests,              \* the transactions clients send, as messages with
                         \* their destination
  ControlTx,             \* commands the nodes' feedback control may make
  BlockSize,
  TransactionThreshold,
  PoANV,                 \* the flags a node is started with
  BroadcastFlag,
  RamOptFlag,
  AcceptTxFromUnknown

BroadcastTypes == {"DefaultBehaviour", "AskToBroadcast", "DontBroadcast"}

\* The destination of a message handed over by TransmitTransaction: whoever
\* is the proposer when the list goroutine gets to it.
TheProposer == -1

ASSUME ConsensusAssumption ==
  /\ Live \subseteq Node
  /\ Peers \in [Node -> SUBSET Live]
  /\ \A n \in Node : n \notin Peers[n]
  /\ Command \subseteq Tx
  /\ DOMAIN NewValidatorSet \subseteq Command
  /\ \A c \in DOMAIN NewValidatorSet : NewValidatorSet[c] \in Seq(Int)
  /\ issuer \in [Tx -> Int]
  /\ timestamp \in [Tx -> Int]
  /\ Genesis \in Block
  /\ seqNb \in [Block -> Nat]
  /\ seqNb[Genesis] = 0
  /\ lastHash \in [Block -> Block]
  /\ proposerOf \in [Block -> Node]
  /\ transactions \in [Block -> SUBSET Tx]
  /\ hashByte \in [Block -> 0..255]
  /\ Requests \subseteq [tx : Tx, broadcast : BroadcastTypes,
                         priority : BOOLEAN, to : Node]
  /\ ControlTx \subseteq Command
  /\ BlockSize \in Nat \ {0}
  /\ TransactionThreshold \in Nat
  /\ PoANV \in BOOLEAN
  /\ BroadcastFlag \in BOOLEAN
  /\ RamOptFlag \in BOOLEAN
  /\ AcceptTxFromUnknown \in BOOLEAN

VARIABLES
  chain,        \* Blockchain: the blocks from Genesis to lastBlock
  active,       \* Validators.isActiveValidatorMap
  proposer,     \* Blockchain.proposer, kept since the last block
  state,        \* PBFTStateConsensus.state
  current,      \* PBFTStateConsensus.currentHash
  blockPool, blockPoolNV,
  preparePool, commitPool,
  txPool,       \* TransactionPool: transactions and commands
  doomed,       \* commands a pending goroutine of getTxForBloc will remove
  wake,         \* chanUpdateStatus holds a message
  updating,     \* the consensus goroutine is inside updateStatusWithMsg
  txInHand,     \* what transactionHandler has checked and not yet added
  net,          \* what is on its way to a node, socket or channel
  outbox        \* what handleListSocket has still to send, and to whom

chainVars == <<chain, active, proposer>>
roundVars == <<state, current, updating>>
poolVars == <<blockPool, blockPoolNV, preparePool, commitPool>>
txVars == <<txPool, doomed, txInHand>>
vars == <<chainVars, roundVars, poolVars, txVars, wake, net, outbox>>

States == {"NewRound", "NewRoundProposer", "Prepared", "Committed", "NVRound"}

TxMessages == [type : {"Transaction"}, tx : Tx, broadcast : BroadcastTypes,
               priority : BOOLEAN]
BlockMessages == [type : {"PrePrepare", "BlocMsg"}, block : Block]
VoteMessages == [type : {"Prepare", "Commit"}, block : Block, from : Node]
Messages == TxMessages \cup BlockMessages \cup VoteMessages

TxMessage(t, b, p) ==
  [type |-> "Transaction", tx |-> t, broadcast |-> b, priority |-> p]
BlockMessage(k, b) == [type |-> k, block |-> b]
VoteMessage(k, b, n) == [type |-> k, block |-> b, from |-> n]

RamOpt == RamOptFlag /\ ~BroadcastFlag
-----------------------------------------------------------------------------
(***************************************************************************)
(* The chain and the validator list.                                       *)
(***************************************************************************)
Tip(n) == chain[n][Len(chain[n])]
CurrentSeqNb(n) == seqNb[Tip(n)]
ExistBlock(n, b) == \E i \in DOMAIN chain[n] : chain[n][i] = b
ExistTx(n, t) == \E i \in DOMAIN chain[n] : t \in transactions[chain[n][i]]

\* The active set after the commands of b are applied to it.
ActiveAfter(validators, b) ==
  LET lists == {NewValidatorSet[c] :
                  c \in transactions[b] \cap DOMAIN NewValidatorSet}
      valid == {l \in lists : IsSizeValid(Len(l)) /\ CheckIfValidatorsAreNodes(l)}
  IN IF valid = {} THEN validators ELSE Keys(CHOOSE l \in valid : TRUE)

ASSUME ValidatorsAfterAssumption ==
  /\ validatorsAfter \in [Block -> SUBSET Node]
  /\ validatorsAfter[Genesis] = Node
  /\ \A b \in Block \ {Genesis} :
       validatorsAfter[b] = ActiveAfter(validatorsAfter[lastHash[b]], b)

ProposerAfter(validators, b) ==
  GetActiveValidatorIndexOfValue(validators,
                                 hashByte[b] % Cardinality(validators))

IsProposer(n) == proposer[n] = n
Approvals(n) == MinApprovals(Cardinality(active[n]))

IsValidNewBlock(n, b) ==
  /\ seqNb[b] = CurrentSeqNb(n) + 1
  /\ lastHash[b] = Tip(n)
  /\ proposerOf[b] = proposer[n]

\* Mutants: a block of the pool is taken as it is.
ValidBlocksAny(n) == blockPool[n]
ValidBlocksNVAny(n) == blockPoolNV[n]

\* What giveMeNext of NewRound and of NewRoundNV may return.  The pool is a
\* map, ranged over in no particular order.
ValidBlocks(n) == {b \in blockPool[n] : IsValidNewBlock(n, b)}
ValidBlocksNV(n) == {b \in blockPoolNV[n] : IsValidNewBlock(n, b)}

\* Mutant: the node does not leave the round.
StateAfterCommitSame(n, validators, prop) == state[n]

StateAfterCommit(n, validators, prop) ==
  IF PoANV /\ n \notin validators THEN "NVRound"
  ELSE IF prop = n THEN "NewRoundProposer" ELSE "NewRound"
-----------------------------------------------------------------------------
(***************************************************************************)
(* Sending.  rest is net without the message being handled.                *)
(***************************************************************************)
Deliver(channels, nodes, m) ==
  [d \in Node |-> IF d \in nodes THEN channels[d] \cup {m} ELSE channels[d]]

\* BroadcastMessage hands m to the list goroutine, which must have finished
\* with the message before.  Only under PoANV does it look at anything while
\* it sends; otherwise the message is on its way to everyone at once.
BroadcastMessage(n, m, rest) ==
  IF PoANV
    THEN /\ outbox[n] = {}
         /\ outbox' = [outbox EXCEPT ![n] = [msg : {m}, to : Peers[n]]]
         /\ net' = rest
    ELSE /\ net' = Deliver(rest, Peers[n], m)
         /\ UNCHANGED outbox

\* TransmitTransaction: the list goroutine will look for the proposer.
TransmitTransaction(n, m, rest) ==
  /\ outbox[n] = {}
  /\ outbox' = [outbox EXCEPT ![n] = {[msg |-> m, to |-> TheProposer]}]
  /\ net' = rest

NoMessage(rest) ==
  /\ net' = rest
  /\ UNCHANGED outbox

\* A received message that is relayed when the node broadcasts everything.
Relay(n, m, rest) ==
  IF BroadcastFlag THEN BroadcastMessage(n, m, rest) ELSE NoMessage(rest)

\* broadcastMessage asks IsActiveValidator when it is at that socket.
SendsTo(n, p) == p.to # TheProposer /\ (PoANV => p.to \in active[n])

FanOut(n) ==
  /\ \E p \in outbox[n] :
       /\ p.to # TheProposer
       /\ outbox' = [outbox EXCEPT ![n] = @ \ {p}]
       /\ net' = IF SendsTo(n, p) THEN Deliver(net, {p.to}, p.msg) ELSE net
  /\ UNCHANGED <<chainVars, roundVars, poolVars, txVars, wake>>

\* transmitTransaction: without a socket to the proposer, itself included,
\* the message is broadcast.
FanOutTransaction(n) ==
  /\ \E p \in outbox[n] :
       /\ p.to = TheProposer
       /\ IF proposer[n] \in Peers[n]
            THEN /\ outbox' = [outbox EXCEPT ![n] = {}]
                 /\ net' = Deliver(net, {proposer[n]}, p.msg)
            ELSE IF PoANV
              THEN /\ outbox' = [outbox EXCEPT ![n] = [msg : {p.msg}, to : Peers[n]]]
                   /\ UNCHANGED net
              ELSE /\ outbox' = [outbox EXCEPT ![n] = {}]
                   /\ net' = Deliver(net, Peers[n], p.msg)
  /\ UNCHANGED <<chainVars, roundVars, poolVars, txVars, wake>>
-----------------------------------------------------------------------------
(***************************************************************************)
(* Receiving a transaction.                                                *)
(***************************************************************************)
VerifyAsCommand(n, t) ==
  /\ issuer[t] \in active[n]
  /\ t \in DOMAIN NewValidatorSet => CheckIfValidatorsAreNodes(NewValidatorSet[t])

\* Mutant: an executed transaction is not looked for.
AcceptsExecutedTransaction(n, t) ==
  /\ AcceptTxFromUnknown \/ issuer[t] \in Node
  /\ t \notin txPool[n]
  /\ t \in Command => VerifyAsCommand(n, t)

AcceptsTransaction(n, t) ==
  /\ AcceptTxFromUnknown \/ issuer[t] \in Node
  /\ t \notin txPool[n]
  /\ ~ExistTx(n, t)
  /\ t \in Command => VerifyAsCommand(n, t)

\* addTransaction: commands and transactions are limited separately.  The
\* overload behaviour is Nothing; what the others do then is in TxPool.
Added(pool, t) ==
  LET kind == IF t \in Command THEN pool \cap Command ELSE pool \ Command
  IN IF Cardinality(kind) < TransactionThreshold THEN pool \cup {t} ELSE pool

\* ReceiveTrustedMess: whatever AddTransaction answers, the message is passed
\* on as it asks to be.
ReceiveTrustedMess(n, m, rest) ==
  /\ txPool' = [txPool EXCEPT ![n] = Added(@, m.tx)]
  /\ CASE m.broadcast = "AskToBroadcast" ->
            BroadcastMessage(n, [m EXCEPT !.broadcast = "DontBroadcast"], rest)
       [] m.broadcast = "DefaultBehaviour" /\ ~IsProposer(n) ->
            TransmitTransaction(n, m, rest)
       [] OTHER -> NoMessage(rest)

Received(n, m) == [net EXCEPT ![n] = @ \ {m}]

\* A transaction with priority is handled by the consensus goroutine.
ReceiveTransac(n) ==
  /\ ~updating[n]
  /\ \E m \in net[n] :
       /\ m.type = "Transaction"
       /\ m.priority
       /\ IF issuer[m.tx] \in Node /\ AcceptsTransaction(n, m.tx)
            THEN ReceiveTrustedMess(n, m, Received(n, m))
            ELSE NoMessage(Received(n, m)) /\ UNCHANGED txPool
  /\ wake' = [wake EXCEPT ![n] = TRUE]
  /\ UNCHANGED <<chainVars, roundVars, poolVars, doomed, txInHand>>

\* transactionHandler, the first half of receiveTransacMess: the checks.
CheckTransaction(n) ==
  /\ txInHand[n] = {}
  /\ \E m \in net[n] :
       /\ m.type = "Transaction"
       /\ ~m.priority
       /\ NoMessage(Received(n, m))
       /\ IF AcceptsTransaction(n, m.tx)
            THEN txInHand' = [txInHand EXCEPT ![n] = {m}] /\ UNCHANGED wake
            ELSE wake' = [wake EXCEPT ![n] = TRUE] /\ UNCHANGED txInHand
  /\ UNCHANGED <<chainVars, roundVars, poolVars, txPool, doomed>>

\* The second half: ReceiveTrustedMess, then the message to chanUpdateStatus.
AddTransaction(n) ==
  /\ \E m \in txInHand[n] : ReceiveTrustedMess(n, m, net)
  /\ txInHand' = [txInHand EXCEPT ![n] = {}]
  /\ wake' = [wake EXCEPT ![n] = TRUE]
  /\ UNCHANGED <<chainVars, roundVars, poolVars, doomed>>

\* RemoveTransaction called by a goroutine that getTxForBloc left behind.
RemoveDoomed(n) ==
  /\ \E c \in doomed[n] :
       /\ doomed' = [doomed EXCEPT ![n] = @ \ {c}]
       /\ txPool' = [txPool EXCEPT ![n] = @ \ {c}]
  /\ UNCHANGED <<chainVars, roundVars, poolVars, txInHand, wake, net, outbox>>
-----------------------------------------------------------------------------
(***************************************************************************)
(* Receiving a consensus message.  Whatever becomes of it, the message is  *)
(* offered to chanUpdateStatus afterwards.                                 *)
(***************************************************************************)
\* Mutant: a block that comes before its parent is refused.
AcceptsPrePrepareNext(n, b) ==
  /\ b \notin blockPool[n]
  /\ seqNb[b] = CurrentSeqNb(n) + 1

AcceptsPrePrepare(n, b) ==
  /\ b \notin blockPool[n]
  /\ seqNb[b] > CurrentSeqNb(n)

ReceivePrePrepare(n) ==
  /\ ~updating[n]
  /\ \E m \in net[n] :
       /\ m.type = "PrePrepare"
       /\ IF AcceptsPrePrepare(n, m.block)
            THEN /\ blockPool' = [blockPool EXCEPT ![n] = @ \cup {m.block}]
                 /\ Relay(n, m, Received(n, m))
            ELSE NoMessage(Received(n, m)) /\ UNCHANGED blockPool
  /\ wake' = [wake EXCEPT ![n] = TRUE]
  /\ UNCHANGED <<chainVars, roundVars, blockPoolNV, preparePool, commitPool, txVars>>

HaveCommitFrom(n, b) == ExistingVote(commitPool[n], Vote(b, n))

\* Mutant: the commits for a block are dropped when the first one comes.
CommitIsOldEarly(n, pool, b) == Cardinality(VotesOf(pool.unconfirmed, b)) >= 1

PrepareIsOld(n, pool, b) ==
  /\ IsFullValidated(pool, b)
  /\ HaveCommitFrom(n, b) \/ ExistBlock(n, b)

CommitIsOld(n, pool, b) == IsFullValidated(pool, b) /\ ExistBlock(n, b)

ReceivePrepare(n) ==
  /\ ~updating[n]
  /\ \E m \in net[n] :
       /\ m.type = "Prepare"
       /\ LET vote == Vote(m.block, m.from)
              pool == AddVote(preparePool[n], vote)
          IN IF ExistingVote(preparePool[n], vote)
               THEN NoMessage(Received(n, m)) /\ UNCHANGED preparePool
               ELSE /\ Relay(n, m, Received(n, m))
                    /\ preparePool' = [preparePool EXCEPT ![n] =
                         IF RamOpt /\ PrepareIsOld(n, pool, m.block)
                           THEN Remove(pool, m.block) ELSE pool]
  /\ wake' = [wake EXCEPT ![n] = TRUE]
  /\ UNCHANGED <<chainVars, roundVars, blockPool, blockPoolNV, commitPool, txVars>>

ReceiveCommit(n) ==
  /\ ~updating[n]
  /\ \E m \in net[n] :
       /\ m.type = "Commit"
       /\ LET vote == Vote(m.block, m.from)
              pool == AddVote(commitPool[n], vote)
          IN IF ExistingVote(commitPool[n], vote)
               THEN NoMessage(Received(n, m)) /\ UNCHANGED commitPool
               ELSE /\ Relay(n, m, Received(n, m))
                    /\ commitPool' = [commitPool EXCEPT ![n] =
                         IF RamOpt /\ CommitIsOld(n, pool, m.block)
                           THEN Remove(pool, m.block) ELSE pool]
  /\ wake' = [wake EXCEPT ![n] = TRUE]
  /\ UNCHANGED <<chainVars, roundVars, blockPool, blockPoolNV, preparePool, txVars>>

ReceiveBlockMsg(n) ==
  /\ ~updating[n]
  /\ \E m \in net[n] :
       /\ m.type = "BlocMsg"
       /\ NoMessage(Received(n, m))
       /\ blockPoolNV' = [blockPoolNV EXCEPT ![n] = @ \cup {m.block}]
  /\ wake' = [wake EXCEPT ![n] = TRUE]
  /\ UNCHANGED <<chainVars, roundVars, blockPool, preparePool, commitPool, txVars>>
-----------------------------------------------------------------------------
(***************************************************************************)
(* updateStatusWithMsg: woken by a message of chanUpdateStatus, the        *)
(* consensus goroutine asks the current state for a change, makes it, and  *)
(* goes on until there is none.  The message itself is only a hint: the    *)
(* block of a PrePrepare or a BlocMsg is in its pool before it is offered. *)
(***************************************************************************)
Awake(n) == updating[n] \/ wake[n]

\* The message is taken out of the channel on entry only.
TakeMessage(n) == wake' = [wake EXCEPT ![n] = updating[n] /\ @]

\* Mutant: one change per message.
ContinueOnce(n, next) ==
  /\ TakeMessage(n)
  /\ state' = [state EXCEPT ![n] = next]
  /\ UNCHANGED updating

Continue(n, next) ==
  /\ TakeMessage(n)
  /\ state' = [state EXCEPT ![n] = next]
  /\ updating' = [updating EXCEPT ![n] = TRUE]

\* CheckControl: the control goroutine may add a command to the pool and ask
\* for its broadcast while the proposer waits for it.
Orders(n) ==
  {{}} \cup {{c} : c \in {c \in ControlTx : /\ issuer[c] = n
                                            /\ c \notin txPool[n]
                                            /\ ~ExistTx(n, c)}}
PoolWith(n, order) ==
  IF order = {} THEN txPool[n]
  ELSE Added(txPool[n], CHOOSE c \in order : TRUE)

InvalidCommands(n, pool) == {c \in pool \cap Command : ~VerifyAsCommand(n, c)}

\* Mutant: a command is not verified again before it is put in a block.
ValidCommandsAny(n, pool) == pool \cap Command

ValidCommands(n, pool) == {c \in pool \cap Command : VerifyAsCommand(n, c)}

Oldest(pool) ==
  {t \in pool \ Command :
     Cardinality({u \in pool \ Command : timestamp[u] < timestamp[t]}) < BlockSize}

\* GetTxForBloc: one valid command, or else the oldest transactions.
TxForBloc(n, pool) ==
  IF ValidCommands(n, pool) = {} THEN {Oldest(pool)}
  ELSE {{c} : c \in ValidCommands(n, pool)}

\* The commands that a goroutine started for an invalid one may remove: it
\* reads the loop variable when it runs, so its own or any met later, the
\* one put in the block included.
Doomed(n, pool, txs) ==
  IF InvalidCommands(n, pool) = {} THEN {{}}
  ELSE {D \in SUBSET (InvalidCommands(n, pool) \cup (txs \cap Command)) :
          D # {} \/ ValidCommands(n, pool) # {}}

\* The blocks CreateBlock may return: its timestamp makes the hash arbitrary.
NewBlocks(n, txs) ==
  {b \in Block : /\ lastHash[b] = Tip(n)
                 /\ seqNb[b] = CurrentSeqNb(n) + 1
                 /\ proposerOf[b] = n
                 /\ transactions[b] = txs}

\* Mutant: the proposer does not leave its state.
StateAfterProposalSame(n) == "NewRoundProposer"

StateAfterProposal(n) == "NewRound"

Propose(n) ==
  /\ Awake(n)
  /\ state[n] = "NewRoundProposer"
  /\ \E order \in Orders(n) :
       LET pool == PoolWith(n, order)
           told == IF order = {} THEN net
                   ELSE Deliver(net, {d \in Peers[n] : PoANV => d \in active[n]},
                                TxMessage(CHOOSE c \in order : TRUE,
                                          "DontBroadcast", FALSE))
       IN /\ pool # {}
          /\ txPool' = [txPool EXCEPT ![n] = pool]
          /\ \E txs \in TxForBloc(n, pool) :
               /\ \E D \in Doomed(n, pool, txs) :
                    doomed' = [doomed EXCEPT ![n] = @ \cup D]
               /\ \E b \in NewBlocks(n, txs) :
                    /\ current' = [current EXCEPT ![n] = b]
                    /\ blockPool' = [blockPool EXCEPT ![n] = @ \cup {b}]
                    /\ BroadcastMessage(n, BlockMessage("PrePrepare", b), told)
  /\ Continue(n, StateAfterProposal(n))
  /\ UNCHANGED <<chainVars, blockPoolNV, preparePool, commitPool, txInHand>>

\* NewRound.update: accept a block and vote for it.
Prepare(n) ==
  /\ Awake(n)
  /\ state[n] = "NewRound"
  /\ \E b \in ValidBlocks(n) :
       /\ current' = [current EXCEPT ![n] = b]
       /\ preparePool' = [preparePool EXCEPT ![n] = AddVote(@, Vote(b, n))]
       /\ BroadcastMessage(n, VoteMessage("Prepare", b, n), net)
  /\ Continue(n, "Prepared")
  /\ UNCHANGED <<chainVars, blockPool, blockPoolNV, commitPool, txVars>>

\* GetNb...OfHashOfActive confirms votes even when there are too few of them.
ConfirmedPrepares(n) ==
  IF state[n] = "Prepared" THEN Confirm(preparePool[n], current[n], active[n])
  ELSE preparePool[n]
ConfirmedCommits(n) ==
  IF state[n] = "Committed" THEN Confirm(commitPool[n], current[n], active[n])
  ELSE commitPool[n]

EnoughPrepares(n) == NbConfirmed(ConfirmedPrepares(n), current[n]) >= Approvals(n)
EnoughCommits(n) == NbConfirmed(ConfirmedCommits(n), current[n]) >= Approvals(n)

\* Prepared.update: enough prepares, vote for the commit.
Commit(n) ==
  /\ Awake(n)
  /\ state[n] = "Prepared"
  /\ EnoughPrepares(n)
  /\ preparePool' = [preparePool EXCEPT ![n] =
       Validate(ConfirmedPrepares(n), current[n], Cardinality(active[n]))]
  /\ commitPool' = [commitPool EXCEPT ![n] = AddVote(@, Vote(current[n], n))]
  /\ BroadcastMessage(n, VoteMessage("Commit", current[n], n), net)
  /\ Continue(n, "Committed")
  /\ UNCHANGED <<chainVars, current, blockPool, blockPoolNV, txVars>>

\* Mutant: the proposer is drawn from the set before the block.
NextProposerStale(n, b) == ProposerAfter(active[n], b)

\* Mutant: the whole pool is emptied.
FlushedAll(n, b) == {}

\* flushTransaction: the transactions of the block leave the pool.
Flushed(n, b) == txPool[n] \ transactions[b]

\* updateProposer, after flushTransaction has applied the commands of b.
NextProposer(n, b) == ProposerAfter(ActiveAfter(active[n], b), b)

\* AddUpdatedBlock and updateStateAfterCommit.
AddUpdatedBlock(n, b) ==
  /\ chain' = [chain EXCEPT ![n] = Append(@, b)]
  /\ active' = [active EXCEPT ![n] = ActiveAfter(@, b)]
  /\ proposer' = [proposer EXCEPT ![n] = NextProposer(n, b)]
  /\ txPool' = [txPool EXCEPT ![n] = Flushed(n, b)]
  /\ Continue(n, StateAfterCommit(n, ActiveAfter(active[n], b), NextProposer(n, b)))

\* Committed.update: enough commits, the block is executed.  Under PoANV the
\* proposer first sends it to the inactive nodes, and waits until it is sent.
\* GetBlock finds the block (BlockAtHand); without it hash[0] would panic.
Finalize(n) ==
  /\ Awake(n)
  /\ state[n] = "Committed"
  /\ EnoughCommits(n)
  /\ current[n] \in blockPool[n]
  /\ commitPool' = [commitPool EXCEPT ![n] =
       Validate(ConfirmedCommits(n), current[n], Cardinality(active[n]))]
  /\ IF IsProposer(n) /\ PoANV
       THEN /\ outbox[n] = {}
            /\ net' = Deliver(net, Peers[n] \ active[n],
                              BlockMessage("BlocMsg", current[n]))
       ELSE UNCHANGED net
  /\ AddUpdatedBlock(n, current[n])
  /\ blockPool' = [blockPool EXCEPT ![n] = IF RamOpt THEN @ \ {current[n]} ELSE @]
  /\ UNCHANGED <<current, blockPoolNV, preparePool, doomed, txInHand, outbox>>

\* NewRoundNV.update: an inactive node executes the block it was sent.
AppendNV(n) ==
  /\ Awake(n)
  /\ state[n] = "NVRound"
  /\ \E b \in ValidBlocksNV(n) :
       /\ current' = [current EXCEPT ![n] = b]
       /\ AddUpdatedBlock(n, b)
       /\ blockPoolNV' = [blockPoolNV EXCEPT ![n] = IF RamOpt THEN @ \ {b} ELSE @]
  /\ UNCHANGED <<blockPool, preparePool, commitPool, doomed, txInHand, net, outbox>>

\* giveMeNext of the current state has something to give.
CanChange(n) ==
  \/ state[n] = "NewRoundProposer" /\ txPool[n] # {}
  \/ state[n] = "NewRound" /\ ValidBlocks(n) # {}
  \/ state[n] = "Prepared" /\ EnoughPrepares(n)
  \/ state[n] = "Committed" /\ EnoughCommits(n)
  \/ state[n] = "NVRound" /\ ValidBlocksNV(n) # {}

EndUpdate(n) ==
  /\ Awake(n)
  /\ ~CanChange(n)
  /\ TakeMessage(n)
  /\ updating' = [updating EXCEPT ![n] = FALSE]
  /\ preparePool' = [preparePool EXCEPT ![n] = ConfirmedPrepares(n)]
  /\ commitPool' = [commitPool EXCEPT ![n] = ConfirmedCommits(n)]
  /\ UNCHANGED <<chainVars, state, current, blockPool, blockPoolNV, txVars, net, outbox>>
-----------------------------------------------------------------------------
\* NewPBFTStateConsensus on every node, the requests already on their way.
Init ==
  /\ chain = [n \in Node |-> <<Genesis>>]
  /\ active = [n \in Node |-> Node]
  /\ proposer = [n \in Node |-> ProposerAfter(Node, Genesis)]
  /\ state = [n \in Node |-> IF n = ProposerAfter(Node, Genesis)
                               THEN "NewRoundProposer" ELSE "NewRound"]
  /\ current = [n \in Node |-> Genesis]
  /\ blockPool = [n \in Node |-> {}]
  /\ blockPoolNV = [n \in Node |-> {}]
  /\ preparePool = [n \in Node |-> EmptyPool]
  /\ commitPool = [n \in Node |-> EmptyPool]
  /\ txPool = [n \in Node |-> {}]
  /\ doomed = [n \in Node |-> {}]
  /\ wake = [n \in Node |-> FALSE]
  /\ updating = [n \in Node |-> FALSE]
  /\ txInHand = [n \in Node |-> {}]
  /\ net = [n \in Node |-> {TxMessage(r.tx, r.broadcast, r.priority) :
                              r \in {r \in Requests : r.to = n}}]
  /\ outbox = [n \in Node |-> {}]

ReceiveMessage(n) ==
  \/ ReceiveTransac(n)
  \/ ReceivePrePrepare(n)
  \/ ReceivePrepare(n)
  \/ ReceiveCommit(n)
  \/ ReceiveBlockMsg(n)

UpdateStatus(n) ==
  \/ Propose(n)
  \/ Prepare(n)
  \/ Commit(n)
  \/ Finalize(n)
  \/ AppendNV(n)
  \/ EndUpdate(n)

MsgHandlerGoroutine(n) == ReceiveMessage(n) \/ UpdateStatus(n)
TransactionHandler(n) == CheckTransaction(n) \/ AddTransaction(n)
HandleListSocket(n) == FanOut(n) \/ FanOutTransaction(n)

Next ==
  \E n \in Live :
    \/ MsgHandlerGoroutine(n)
    \/ TransactionHandler(n)
    \/ RemoveDoomed(n)
    \/ HandleListSocket(n)

Spec == Init /\ [][Next]_vars

\* A goroutine that can run will: the Go scheduler starves none, a socket
\* delivers what it was given, and every message is consumed once.
Fairness ==
  \A n \in Live :
    /\ WF_vars(MsgHandlerGoroutine(n))
    /\ WF_vars(TransactionHandler(n))
    /\ WF_vars(RemoveDoomed(n))
    /\ WF_vars(HandleListSocket(n))

FairSpec == Spec /\ Fairness
-----------------------------------------------------------------------------
(***************************************************************************)
(* Properties.                                                             *)
(***************************************************************************)
\* The type invariant: every variable of every node has the shape the code
\* gives it, and the active set is never empty.
ChainType ==
  /\ chain \in [Node -> Seq(Block)]
  /\ \A n \in Node : chain[n] # <<>>
  /\ active \in [Node -> (SUBSET Node) \ {{}}]
  /\ proposer \in [Node -> Node]
RoundType ==
  /\ state \in [Node -> States]
  /\ current \in [Node -> Block]
  /\ wake \in [Node -> BOOLEAN]
  /\ updating \in [Node -> BOOLEAN]
PoolType ==
  /\ blockPool \in [Node -> SUBSET Block]
  /\ blockPoolNV \in [Node -> SUBSET Block]
  /\ preparePool \in [Node -> Pools(Block, Node)]
  /\ commitPool \in [Node -> Pools(Block, Node)]
TxType ==
  /\ txPool \in [Node -> SUBSET Tx]
  /\ doomed \in [Node -> SUBSET Command]
  /\ txInHand \in [Node -> SUBSET TxMessages]
WireType ==
  /\ net \in [Node -> SUBSET Messages]
  /\ outbox \in [Node -> SUBSET [msg : Messages, to : Node \cup {TheProposer}]]
TypeOK == ChainType /\ RoundType /\ PoolType /\ TxType /\ WireType

\* No two nodes execute different blocks at the same height, whatever the
\* order in which the votes and blocks of several heights reach them.
Agreement ==
  \A m, n \in Node :
    \A i \in 1..Len(chain[m]) : i \in 1..Len(chain[n]) => chain[m][i] = chain[n][i]

\* Every chain is linked: each block names the one before it and has the
\* next sequence number, as IsValidNewBlock demanded some steps earlier.
Linked ==
  \A n \in Node :
    /\ chain[n][1] = Genesis
    /\ \A i \in 1..Len(chain[n]) : seqNb[chain[n][i]] = i - 1
    /\ \A i \in 2..Len(chain[n]) : lastHash[chain[n][i]] = chain[n][i - 1]

OnTheWay == UNION {net[n] \cup {p.msg : p \in outbox[n]} : n \in Node}
HeldBlocks(n) ==
  blockPool[n] \cup blockPoolNV[n] \cup {chain[n][i] : i \in DOMAIN chain[n]}
CarryingBlock(msgs) == {m \in msgs : m.type \in {"PrePrepare", "BlocMsg"}}
KnownBlocks ==
  {m.block : m \in CarryingBlock(OnTheWay)} \cup UNION {HeldBlocks(n) : n \in Node}

\* A height is proposed once: no two blocks anywhere in the system, executed,
\* pooled or on their way, are children of the same block.
OneProposal ==
  \A b, c \in KnownBlocks \ {Genesis} : lastHash[b] = lastHash[c] => b = c

\* The cached proposer and the active set are those of the last block
\* executed: every node that executed the same block expects the same
\* proposer next.
CacheFresh ==
  \A n \in Node : /\ active[n] = validatorsAfter[Tip(n)]
                  /\ proposer[n] = ProposerAfter(active[n], Tip(n))

\* The block a node has voted for is in its pool until it is executed:
\* GetBlock never returns the zero block to Committed.update.
BlockAtHand ==
  \A n \in Node : state[n] \in {"Prepared", "Committed"} =>
    /\ current[n] \in blockPool[n]
    /\ IsValidNewBlock(n, current[n])

Voters(b) == validatorsAfter[lastHash[b]]
HasCommitted(v, b) ==
  ExistBlock(v, b) \/ (state[v] = "Committed" /\ current[v] = b)
HasPrepared(v, b) ==
  HasCommitted(v, b) \/ (state[v] = "Prepared" /\ current[v] = b)
Certified(b, supporters) ==
  Cardinality(supporters \cap Voters(b)) >= MinApprovals(Cardinality(Voters(b)))

\* A block is executed only once enough of the validators of its height have
\* committed it, and committed only once enough of them have prepared it:
\* votes counted early, late, for another block or from nodes that were not
\* validators at that height never make up the number.
CommitCertificate ==
  \A n \in Node, b \in KnownBlocks \ {Genesis} :
    /\ ExistBlock(n, b) => Certified(b, {v \in Node : HasCommitted(v, b)})
    /\ HasCommitted(n, b) => Certified(b, {v \in Node : HasPrepared(v, b)})

\* No lost wake-up: though chanUpdateStatus keeps one message and drops the
\* others, a node that waits has nothing left that it could do.
NoLostWakeup ==
  \A n \in Live : CanChange(n) => Awake(n)

OnItsWay(k, b, v, n) ==
  \/ VoteMessage(k, b, v) \in net[n]
  \/ [msg |-> VoteMessage(k, b, v), to |-> n] \in outbox[v]

\* No vote is lost while it is needed: when a node collects the votes for a
\* block, each validator connected to it that has voted is in its pool or has
\* its vote on its way, whatever confirm discarded and RamOpt removed in the meantime.
NoVoteLost ==
  \A n, v \in Live : LET b == current[n] IN
    v \in Voters(b) /\ n \in Peers[v] \cup {v} =>
      /\ state[n] = "Prepared" /\ HasPrepared(v, b)
           => ExistingVote(preparePool[n], Vote(b, v)) \/ OnItsWay("Prepare", b, v, n)
      /\ state[n] = "Committed" /\ HasCommitted(v, b)
           => ExistingVote(commitPool[n], Vote(b, v)) \/ OnItsWay("Commit", b, v, n)

\* No transaction is executed twice.
ExecutedOnce ==
  \A n \in Node : \A i, j \in DOMAIN chain[n] :
    i # j => transactions[chain[n][i]] \cap transactions[chain[n][j]] = {}

\* A command is executed only on the word of a node that is a validator then,
\* though it was verified when it was received, some validator sets before.
CommandsAuthorised ==
  \A n \in Node : \A i \in 2..Len(chain[n]) :
    \A c \in transactions[chain[n][i]] \cap Command :
      issuer[c] \in validatorsAfter[chain[n][i - 1]]

HasTx(n, t) ==
  \/ \E m \in net[n] \cup txInHand[n] : m.type = "Transaction" /\ m.tx = t
  \/ t \in txPool[n]
  \/ ExistTx(n, t)

\* A transaction that a client sent to a node, and that the node does not
\* refuse because of its sender, stays with that node until it is executed
\* there: neither the block of another proposer nor a change of height
\* makes the node forget it.
NoTxLost ==
  \A r \in Requests :
    /\ r.to \in Live
    /\ r.tx \notin Command
    /\ issuer[r.tx] \in Node \/ (AcceptTxFromUnknown /\ ~r.priority)
    => HasTx(r.to, r.tx)

\* Every transaction a client sent is executed by every running node.
RequestsExecuted ==
  \A r \in Requests : <>(\A n \in Live : ExistTx(n, r.tx))

\* A height that one running node has executed is executed by every one.
Heights == {seqNb[b] : b \in Block \ {Genesis}}
BlocksSpread ==
  \A h \in Heights :
    (\E n \in Live : CurrentSeqNb(n) >= h) ~> (\A n \in Live : CurrentSeqNb(n) >= h)

\* What makes a height proposed once.  A proposer is one by its own chain, and
\* a block that exists was made by the proposer its parent designates, which
\* had executed the parent and has left NewRoundProposer since.
ProposerInTurn ==
  \A n \in Node : state[n] = "NewRoundProposer" => proposer[n] = n

ProposedInTurn ==
  \A b \in KnownBlocks \ {Genesis} :
    LET p == proposerOf[b] IN
      /\ p = ProposerAfter(validatorsAfter[lastHash[b]], lastHash[b])
      /\ \E i \in DOMAIN chain[p] :
           /\ chain[p][i] = lastHash[b]
           /\ i = Len(chain[p]) => state[p] # "NewRoundProposer"

\* The inductive invariant: every step of every node preserves it.
IInv ==
  /\ TypeOK
  /\ Linked
  /\ Agreement
  /\ OneProposal
  /\ CacheFresh
  /\ BlockAtHand
  /\ ProposerInTurn
  /\ ProposedInTurn

\* What makes a certificate.  A vote that is on its way or in a pool was cast:
\* its sender is in that phase of the block, or past it.
PrepareVotes(n) == preparePool[n].unconfirmed \cup preparePool[n].confirmed
CommitVotes(n) == commitPool[n].unconfirmed \cup commitPool[n].confirmed

VotesCast ==
  /\ \A m \in OnTheWay : /\ m.type = "Prepare" => HasPrepared(m.from, m.block)
                         /\ m.type = "Commit" => HasCommitted(m.from, m.block)
  /\ \A n \in Node : /\ \A v \in PrepareVotes(n) : HasPrepared(v.from, v.block)
                     /\ \A v \in CommitVotes(n) : HasCommitted(v.from, v.block)

\* A vote is confirmed only if its sender was a validator at the height of its
\* block, though confirm asks for the validators of the moment.
ConfirmedByVoters ==
  \A n \in Node : \A v \in preparePool[n].confirmed \cup commitPool[n].confirmed :
    v.from \in Voters(v.block)

\* A block that is sent to the inactive nodes has been executed.
SentWhenExecuted ==
  /\ \A m \in OnTheWay : m.type = "BlocMsg" => \E v \in Node : ExistBlock(v, m.block)
  /\ \A n \in Node : \A b \in blockPoolNV[n] : \E v \in Node : ExistBlock(v, b)

VotesInv ==
  /\ VotesCast
  /\ ConfirmedByVoters
  /\ SentWhenExecuted
  /\ CommitCertificate

\* Why no vote is lost while every node is a voter: a vote that was cast stays
\* with each node connected to the voter for as long as it is of use there.
NoInactive == \A n \in Node : state[n] # "NVRound"

VotesKept ==
  \A b \in Block \ {Genesis} : \A v \in Voters(b) : \A n \in Peers[v] \cup {v} :
    /\ HasPrepared(v, b) /\ ~HasCommitted(n, b)
         => ExistingVote(preparePool[n], Vote(b, v)) \/ VoteMessage("Prepare", b, v) \in net[n]
    /\ HasCommitted(v, b) /\ ~ExistBlock(n, b)
         => ExistingVote(commitPool[n], Vote(b, v)) \/ VoteMessage("Commit", b, v) \in net[n]

KeptInv == NoInactive /\ VotesKept

\* Why a command is executed on the word of a validator: it was verified by
\* the set its block is for, which is known to be that of its parent.
CommandsVerified ==
  \A b \in KnownBlocks \ {Genesis} : \A c \in transactions[b] \cap Command :
    issuer[c] \in validatorsAfter[lastHash[b]]

\* The three together: the rounds, the votes and the commands.
Inductive == IInv /\ VotesInv /\ CommandsVerified

\* Why no transaction is lost: what clients sent does not fill a pool, and a
\* node has what it was sent on its way to it, in hand, in its pool or executed.
Sent == {r.tx : r \in Requests} \ Command
TxAround ==
  {m \in OnTheWay \cup UNION {txInHand[n] : n \in Node} : m.type = "Transaction"}

OnlySent ==
  /\ \A m \in TxAround : m.tx \in Command \cup Sent
  /\ \A n \in Node : txPool[n] \subseteq Command \cup Sent

OneInHand == \A n \in Node : \A m, w \in txInHand[n] : m = w

Takes(t, priority) == issuer[t] \in Node \/ (AcceptTxFromUnknown /\ ~priority)

Held(n, t) ==
  \/ \E m \in net[n] : m.type = "Transaction" /\ m.tx = t /\ Takes(t, m.priority)
  \/ \E m \in txInHand[n] : m.tx = t
  \/ t \in txPool[n]
  \/ ExistTx(n, t)

HeldInv ==
  /\ OnlySent
  /\ OneInHand
  /\ \A r \in Requests : r.tx \notin Command /\ Takes(r.tx, r.priority) => Held(r.to, r.tx)

\* Why no transaction is executed twice while all have priority: then one
\* goroutine checks, adds and executes, no pool holds what its node has
\* executed, and no block holds what its proposer had executed before it.
Immediate ==
  /\ \A m \in TxAround : m.priority
  /\ \A n \in Node : txInHand[n] = {}

PoolFresh == \A n \in Node : \A t \in txPool[n] : ~ExistTx(n, t)

BlocksFresh ==
  \A b \in KnownBlocks \ {Genesis} :
    LET p == proposerOf[b] IN
      \E i \in DOMAIN chain[p] :
        /\ chain[p][i] = lastHash[b]
        /\ \A j \in 1..i : transactions[chain[p][j]] \cap transactions[b] = {}

OnceInv ==
  /\ Immediate
  /\ PoolFresh
  /\ BlocksFresh
  /\ ExecutedOnce

\* The consensus implements the ledger its users see.
Promise == INSTANCE Ledger WITH log <- chain
LedgerSpec == Promise!Spec
=============================================================================
