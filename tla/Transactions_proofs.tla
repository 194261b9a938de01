------------------------- MODULE Transactions_proofs -------------------------
(***************************************************************************)
(* Proofs about what becomes of a transaction: commands are executed on    *)
(* the word of a validator, no transaction is lost while the pools have    *)
(* room, and none is executed twice while all have priority.               *)
(***************************************************************************)
EXTENDS Votes_proofs

-----------------------------------------------------------------------------
(***************************************************************************)
(* What the steps do to the transactions that are around.                  *)
(***************************************************************************)
\* A step makes at most one block known, which its proposer has just filled.
LEMMA KnownGrows ==
  ASSUME IInv, [Next]_vars
  PROVE  \/ KnownBlocks' \subseteq KnownBlocks
         \/ \E n \in Node, b \in Block : Proposing(n, b)
BY RoundStep DEF Still, Voting, Executing

\* What is in hand was on its way.
LEMMA InHandFrom ==
  ASSUME TypeOK, [Next]_vars, NEW k \in Node
  PROVE  \/ txInHand'[k] \subseteq txInHand[k]
         \/ /\ CheckTransaction(k)
            /\ txInHand[k] = {}
            /\ \E m \in net[k] : /\ m.type = "Transaction"
                                 /\ ~m.priority
                                 /\ AcceptsTransaction(k, m.tx)
                                 /\ txInHand'[k] = {m}
<1> USE DEF TypeOK, TxType
<1>1. CASE UNCHANGED vars
  BY <1>1 DEF vars, txVars
<1>2. CASE \E n \in Node : CheckTransaction(n)
  <2>1. PICK n \in Node : CheckTransaction(n)
    BY <1>2
  <2>2. PICK m \in net[n] :
          /\ m.type = "Transaction"
          /\ ~m.priority
          /\ IF AcceptsTransaction(n, m.tx)
               THEN txInHand' = [txInHand EXCEPT ![n] = {m}] /\ UNCHANGED wake
               ELSE wake' = [wake EXCEPT ![n] = TRUE] /\ UNCHANGED txInHand
    BY <2>1 DEF CheckTransaction
  <2>3. txInHand[n] = {}
    BY <2>1 DEF CheckTransaction
  <2> QED
    BY <2>1, <2>2, <2>3
<1>3. CASE \E n \in Node : AddTransaction(n)
  BY <1>3 DEF AddTransaction
<1>4. CASE \E n \in Node : \/ ReceiveTransac(n) \/ ReceivePrePrepare(n) \/ ReceivePrepare(n)
                           \/ ReceiveCommit(n) \/ ReceiveBlockMsg(n) \/ RemoveDoomed(n)
                           \/ FanOut(n) \/ FanOutTransaction(n)
  BY <1>4 DEF ReceiveTransac, ReceivePrePrepare, ReceivePrepare, ReceiveCommit, ReceiveBlockMsg,
              RemoveDoomed, FanOut, FanOutTransaction, txVars
<1>5. CASE \E n \in Node : \/ Propose(n) \/ Prepare(n) \/ Commit(n)
                           \/ Finalize(n) \/ AppendNV(n) \/ EndUpdate(n)
  BY <1>5 DEF Propose, Prepare, Commit, Finalize, AppendNV, EndUpdate, txVars
<1> QED
  BY <1>1, <1>2, <1>3, <1>4, <1>5, StepOfNode

\* A transaction that is around was before, with the same priority, or it is a
\* command of the feedback control.
LEMMA AroundFrom ==
  ASSUME IInv, [Next]_vars, NEW m \in TxAround'
  PROVE  \/ \E w \in TxAround : m.tx = w.tx /\ m.priority = w.priority
         \/ m.tx \in ControlTx
<1>1. m.type = "Transaction"
  BY DEF TxAround
<1>2. CASE m \in OnTheWay'
  <2>1. \/ OnTheWay' \subseteq OnTheWay \cup Copies
        \/ \E n \in Node, b \in Block, k \in {"PrePrepare", "BlocMsg"} :
             OnTheWay' \subseteq OnTheWay \cup Ordered \cup {BlockMessage(k, b)}
        \/ \E n \in Node, b \in Block, k \in {"Prepare", "Commit"} :
             OnTheWay' \subseteq OnTheWay \cup {VoteMessage(k, b, n)}
    BY RoundStep DEF Still, Voting, Proposing, Executing
  <2>2. m \in OnTheWay \cup Copies \cup Ordered
    BY <1>1, <1>2, <2>1 DEF BlockMessage, VoteMessage
  <2> QED
    BY <1>1, <2>2 DEF TxAround, Copies, Ordered
<1>3. CASE \E k \in Node : m \in txInHand'[k]
  <2>1. PICK k \in Node : m \in txInHand'[k]
    BY <1>3
  <2>2. m \in txInHand[k] \/ m \in net[k]
    BY <2>1, InHandFrom DEF IInv
  <2> QED
    BY <1>1, <2>2 DEF TxAround, OnTheWay
<1> QED
  BY <1>2, <1>3 DEF TxAround

-----------------------------------------------------------------------------
(***************************************************************************)
(* A command is executed on the word of a validator.                       *)
(***************************************************************************)
\* What a proposer puts in a block is in its pool, and a command among it has
\* just been verified.
LEMMA ForBloc ==
  ASSUME NEW n \in Node, NEW pool \in SUBSET Tx, NEW txs \in TxForBloc(n, pool)
  PROVE  /\ txs \subseteq pool
         /\ \A c \in txs \cap Command : issuer[c] \in active[n]
BY DEF TxForBloc, Oldest, ValidCommands, VerifyAsCommand

\* The set that verified a command at its proposal is that of the parent.
LEMMA StepKeepsCommands ==
  ASSUME IInv, CommandsVerified, TypeOK', [Next]_vars
  PROVE  CommandsVerified'
<1> SUFFICES ASSUME NEW b \in KnownBlocks' \ {Genesis}, NEW c \in transactions[b] \cap Command
             PROVE  issuer[c] \in validatorsAfter[lastHash[b]]
  BY DEF CommandsVerified
<1>1. CASE b \in KnownBlocks
  BY <1>1 DEF CommandsVerified
<1>2. CASE \E n \in Node : Proposing(n, b)
  <2>1. PICK n \in Node : Proposing(n, b)
    BY <1>2
  <2>2. lastHash[b] = Tip(n) /\ transactions[b] \in TxForBloc(n, txPool'[n])
    BY <2>1 DEF Proposing
  <2>3. txPool'[n] \in SUBSET Tx
    BY DEF TypeOK, TxType
  <2>4. issuer[c] \in active[n]
    BY <2>2, <2>3, ForBloc
  <2> QED
    BY <2>2, <2>4 DEF IInv, CacheFresh
<1> QED
  BY <1>1, <1>2, KnownGrows DEF Proposing

\* At the start no block but Genesis is known.
LEMMA NothingKnown ==
  ASSUME Init
  PROVE  KnownBlocks \subseteq {Genesis}
<1> SUFFICES ASSUME NEW b \in KnownBlocks PROVE b = Genesis
  OBVIOUS
<1>1. \A k \in Node : \A m \in net[k] : m.type = "Transaction"
  BY DEF Init, TxMessage
<1>2. CarryingBlock(OnTheWay) = {}
  BY <1>1 DEF Init, CarryingBlock, OnTheWay
<1>3. PICK k \in Node : b \in HeldBlocks(k)
  BY <1>2, KnownBecause
<1> QED
  BY <1>3 DEF Init, HeldBlocks

\* What is executed is a child of what was executed before it.
LEMMA ExecutedBlocks ==
  ASSUME IInv, NEW n \in Node, NEW i \in 2..Len(chain[n])
  PROVE  /\ chain[n][i] \in KnownBlocks \ {Genesis}
         /\ lastHash[chain[n][i]] = chain[n][i - 1]
<1>1. /\ Len(chain[n]) \in Nat
      /\ i \in DOMAIN chain[n]
  BY ChainShape DEF IInv
<1>2. chain[n][i] \in KnownBlocks
  BY <1>1, KnownWhere
<1>3. seqNb[chain[n][i]] = i - 1
  BY <1>1 DEF IInv, Linked
<1>4. chain[n][i] # Genesis
  BY <1>1, <1>3, ConsensusAssumption
<1> QED
  BY <1>2, <1>4 DEF IInv, Linked

\* Every command of every block that exists is signed by a validator of the
\* set that its parent leaves, whoever was active when a node received it.
THEOREM VerifiedInvariance == Spec => [](IInv /\ CommandsVerified)
<1>1. Init => CommandsVerified
  BY NothingKnown DEF CommandsVerified
<1>2. IInv /\ CommandsVerified /\ [Next]_vars => CommandsVerified'
  BY StepKeepsInv, StepKeepsCommands DEF IInv
<1> QED
  BY <1>1, <1>2, Invariance, PTL DEF Spec

\* The inductive invariant of the consensus as a whole: the rounds, the votes
\* and the commands, for any flags and any requests.
THEOREM InductiveInvariance == Spec => []Inductive
BY VotesInvariance, VerifiedInvariance, PTL DEF Inductive

\* A command is executed only on the word of a node that is a validator then.
THEOREM CommandsAreAuthorised == Spec => []CommandsAuthorised
<1>1. IInv /\ CommandsVerified => CommandsAuthorised
  <2> SUFFICES ASSUME IInv, CommandsVerified, NEW n \in Node, NEW i \in 2..Len(chain[n]),
                      NEW c \in transactions[chain[n][i]] \cap Command
               PROVE  issuer[c] \in validatorsAfter[chain[n][i - 1]]
    BY DEF CommandsAuthorised
  <2> QED
    BY ExecutedBlocks DEF CommandsVerified
<1> QED
  BY <1>1, VerifiedInvariance, PTL

-----------------------------------------------------------------------------
(***************************************************************************)
(* No transaction is lost while the pools have room for all that clients   *)
(* send.                                                                   *)
(***************************************************************************)
\* What a step does to the pool of a node.
PoolStep(k) ==
  \/ txPool'[k] = txPool[k]
  \/ \E m \in net[k] : /\ m.type = "Transaction"
                       /\ AcceptsTransaction(k, m.tx)
                       /\ txPool'[k] = Added(txPool[k], m.tx)
  \/ \E m \in txInHand[k] : txPool'[k] = Added(txPool[k], m.tx)
  \/ \E c \in doomed[k] : txPool'[k] = txPool[k] \ {c}
  \/ \E o \in Orders(k) : txPool'[k] = PoolWith(k, o)
  \/ \E b \in Block : /\ txPool'[k] = txPool[k] \ transactions[b]
                      /\ chain'[k] = Append(chain[k], b)

LEMMA PoolFrom ==
  ASSUME TypeOK, [Next]_vars, NEW k \in Node
  PROVE  PoolStep(k)
<1> USE DEF TypeOK, TxType, PoolStep
<1>1. CASE UNCHANGED vars
  BY <1>1 DEF vars, txVars
<1>2. ASSUME NEW n \in Node, ReceiveTransac(n) PROVE PoolStep(k)
  <2>1. PICK m \in net[n] :
          /\ m.type = "Transaction"
          /\ \/ AcceptsTransaction(n, m.tx) /\ ReceiveTrustedMess(n, m, Received(n, m))
             \/ UNCHANGED txPool
    BY <1>2 DEF ReceiveTransac
  <2> QED
    BY <2>1 DEF ReceiveTrustedMess
<1>3. ASSUME NEW n \in Node, AddTransaction(n) PROVE PoolStep(k)
  BY <1>3 DEF AddTransaction, ReceiveTrustedMess
<1>4. ASSUME NEW n \in Node, RemoveDoomed(n) PROVE PoolStep(k)
  BY <1>4 DEF RemoveDoomed
<1>5. ASSUME NEW n \in Node, Propose(n) PROVE PoolStep(k)
  <2>1. PICK o \in Orders(n) : txPool' = [txPool EXCEPT ![n] = PoolWith(n, o)]
    BY <1>5 DEF Propose
  <2> QED
    BY <2>1
<1>6. ASSUME NEW n \in Node, Finalize(n) \/ AppendNV(n) PROVE PoolStep(k)
  <2>1. PICK b \in Block : AddUpdatedBlock(n, b)
    BY <1>6 DEF Finalize, AppendNV, ValidBlocksNV, RoundType, PoolType
  <2> QED
    BY <2>1 DEF AddUpdatedBlock, Flushed, ChainType
<1>7. ASSUME NEW n \in Node,
             \/ ReceivePrePrepare(n) \/ ReceivePrepare(n) \/ ReceiveCommit(n)
             \/ ReceiveBlockMsg(n) \/ CheckTransaction(n) \/ FanOut(n) \/ FanOutTransaction(n)
             \/ Prepare(n) \/ Commit(n) \/ EndUpdate(n)
      PROVE  PoolStep(k)
  BY <1>7 DEF ReceivePrePrepare, ReceivePrepare, ReceiveCommit, ReceiveBlockMsg,
              CheckTransaction, FanOut, FanOutTransaction, Prepare, Commit, EndUpdate, txVars
<1> QED
  BY <1>1, <1>2, <1>3, <1>4, <1>5, <1>6, <1>7, StepOfNode

\* Adding to a pool, on request or by the feedback control, takes nothing out.
LEMMA AddedGrows ==
  ASSUME NEW pool, NEW t
  PROVE  pool \subseteq Added(pool, t) /\ Added(pool, t) \subseteq pool \cup {t}
BY DEF Added

LEMMA PoolWithGrows ==
  ASSUME NEW n, NEW o \in Orders(n)
  PROVE  /\ txPool[n] \subseteq PoolWith(n, o)
         /\ \A t \in PoolWith(n, o) \ txPool[n] : t \in ControlTx /\ ~ExistTx(n, t)
<1>1. o # {} => (CHOOSE c \in o : TRUE) \in o
  OBVIOUS
<1>2. \A c \in o : c \in ControlTx /\ ~ExistTx(n, c)
  BY DEF Orders
<1> QED
  BY <1>1, <1>2, AddedGrows DEF PoolWith

\* A pool that holds only what clients sent and commands has room for what they sent.
LEMMA RoomForSent ==
  ASSUME IsFiniteSet(Sent), Cardinality(Sent) <= TransactionThreshold,
         NEW pool \in SUBSET (Command \cup Sent), NEW t \in Sent
  PROVE  t \in Added(pool, t)
<1>1. CASE t \in pool
  BY <1>1, AddedGrows
<1>2. CASE t \notin pool
  <2> DEFINE plain == pool \ Command
             others == Sent \ {t}
  <2>1. t \notin Command
    BY DEF Sent
  <2>2. plain \subseteq others
    BY <1>2
  <2>3. IsFiniteSet(others) /\ Cardinality(others) = Cardinality(Sent) - 1
    BY FS_RemoveElement
  <2>4. Cardinality(plain) <= Cardinality(others)
    BY <2>2, <2>3, FS_Subset
  <2>5. IsFiniteSet(plain)
    BY <2>2, <2>3, FS_Subset
  <2>6. Cardinality(plain) \in Nat /\ Cardinality(others) \in Nat /\ Cardinality(Sent) \in Nat
    BY <2>3, <2>5, FS_CardinalityType
  <2>7. TransactionThreshold \in Nat
    BY ConsensusAssumption
  <2>8. Cardinality(plain) < TransactionThreshold
    BY <2>3, <2>4, <2>6, <2>7
  <2> QED
    BY <2>1, <2>8 DEF Added
<1> QED
  BY <1>1, <1>2

\* The pools and the wires hold nothing but commands and what clients sent.
LEMMA StepKeepsSent ==
  ASSUME IInv, OnlySent, [Next]_vars
  PROVE  OnlySent'
<1>1. ControlTx \subseteq Command
  BY ConsensusAssumption
<1>2. \A m \in TxAround' : m.tx \in Command \cup Sent
  BY <1>1, AroundFrom DEF OnlySent
<1>3. ASSUME NEW n \in Node PROVE txPool'[n] \subseteq Command \cup Sent
  <2>1. PoolStep(n)
    BY PoolFrom DEF IInv
  <2>2. \A m \in net[n] \cup txInHand[n] :
          m.type = "Transaction" => m.tx \in Command \cup Sent
    BY DEF OnlySent, TxAround, OnTheWay
  <2>3. \A m \in txInHand[n] : m.type = "Transaction"
    BY DEF IInv, TypeOK, TxType, TxMessages
  <2> QED
    BY <1>1, <2>1, <2>2, <2>3, AddedGrows, PoolWithGrows DEF PoolStep, OnlySent
<1> QED
  BY <1>2, <1>3 DEF OnlySent

LEMMA StepKeepsOneInHand ==
  ASSUME IInv, OneInHand, [Next]_vars
  PROVE  OneInHand'
<1> SUFFICES ASSUME NEW n \in Node, NEW m \in txInHand'[n], NEW w \in txInHand'[n]
             PROVE  m = w
  BY DEF OneInHand
<1> QED
  BY InHandFrom DEF IInv, OneInHand

\* What a node has executed stays executed.
LEMMA ExecutedStays ==
  ASSUME IInv, [Next]_vars, NEW n \in Node, NEW t, ExistTx(n, t)
  PROVE  ExistTx(n, t)'
<1>1. PICK b \in Block : ExistBlock(n, b) /\ t \in transactions[b]
  BY ChainShape DEF IInv, ExistTx, ExistBlock
<1>2. ExistBlock(n, b)'
  BY <1>1, VotesStand
<1>3. \E j \in DOMAIN chain'[n] : chain'[n][j] = b
  BY <1>2 DEF ExistBlock
<1> QED
  BY <1>1, <1>3 DEF ExistTx

\* A transaction leaves its channel for the pool or for the hand of the node,
\* unless the node does not take it.
LEMMA TransactionTaken ==
  ASSUME IInv, [Next]_vars, NEW n \in Node, NEW w \in net[n], w \notin net'[n],
         w.type = "Transaction", AcceptsTransaction(n, w.tx), Takes(w.tx, w.priority)
  PROVE  \/ txPool'[n] = Added(txPool[n], w.tx)
         \/ w \in txInHand'[n]
         \/ w.priority /\ issuer[w.tx] \notin Node
<1> USE DEF IInv, TypeOK, TxType
<1>1. WireType
  OBVIOUS
<1>2. CASE ReceiveTransac(n)
  <2>1. PICK m \in net[n] :
          /\ m.priority
          /\ IF issuer[m.tx] \in Node /\ AcceptsTransaction(n, m.tx)
               THEN ReceiveTrustedMess(n, m, Received(n, m))
               ELSE NoMessage(Received(n, m)) /\ UNCHANGED txPool
    BY <1>2 DEF ReceiveTransac
  <2>2. Received(n, m)[n] \subseteq net'[n]
    BY <2>1, TrustedGrows, SendingGrows
  <2>3. m = w
    BY <1>1, <2>2, ReceivedKeeps
  <2>4. CASE issuer[w.tx] \in Node
    BY <2>1, <2>3, <2>4 DEF ReceiveTrustedMess
  <2> QED
    BY <2>1, <2>3, <2>4
<1>3. CASE CheckTransaction(n)
  <2>1. PICK m \in net[n] :
          /\ NoMessage(Received(n, m))
          /\ IF AcceptsTransaction(n, m.tx)
               THEN txInHand' = [txInHand EXCEPT ![n] = {m}] /\ UNCHANGED wake
               ELSE wake' = [wake EXCEPT ![n] = TRUE] /\ UNCHANGED txInHand
    BY <1>3 DEF CheckTransaction
  <2>2. Received(n, m)[n] \subseteq net'[n]
    BY <2>1, SendingGrows
  <2>3. m = w
    BY <1>1, <2>2, ReceivedKeeps
  <2> QED
    BY <2>1, <2>3
<1> QED
  BY <1>2, <1>3, NetKept

\* A transaction in hand is added to the pool.
LEMMA HandEmptied ==
  ASSUME TypeOK, OneInHand, [Next]_vars, NEW n \in Node, NEW m \in txInHand[n],
         m \notin txInHand'[n]
  PROVE  txPool'[n] = Added(txPool[n], m.tx)
<1> USE DEF TypeOK, TxType
<1>1. CASE UNCHANGED vars
  BY <1>1 DEF vars, txVars
<1>2. ASSUME NEW k \in Node, AddTransaction(k) PROVE txPool'[n] = Added(txPool[n], m.tx)
  <2>1. PICK w \in txInHand[k] : txPool' = [txPool EXCEPT ![k] = Added(@, w.tx)]
    BY <1>2 DEF AddTransaction, ReceiveTrustedMess
  <2>2. k = n
    BY <1>2 DEF AddTransaction
  <2> QED
    BY <2>1, <2>2 DEF OneInHand
<1>3. ASSUME NEW k \in Node, CheckTransaction(k) PROVE m \in txInHand'[n]
  BY <1>3 DEF CheckTransaction
<1>4. CASE \E k \in Node : \/ ReceiveTransac(k) \/ ReceivePrePrepare(k) \/ ReceivePrepare(k)
                           \/ ReceiveCommit(k) \/ ReceiveBlockMsg(k) \/ RemoveDoomed(k)
                           \/ FanOut(k) \/ FanOutTransaction(k)
  BY <1>4 DEF ReceiveTransac, ReceivePrePrepare, ReceivePrepare, ReceiveCommit, ReceiveBlockMsg,
              RemoveDoomed, FanOut, FanOutTransaction, txVars
<1>5. CASE \E k \in Node : \/ Propose(k) \/ Prepare(k) \/ Commit(k)
                           \/ Finalize(k) \/ AppendNV(k) \/ EndUpdate(k)
  BY <1>5 DEF Propose, Prepare, Commit, Finalize, AppendNV, EndUpdate, txVars
<1> QED
  BY <1>1, <1>2, <1>3, <1>4, <1>5, StepOfNode

\* What a node holds it goes on holding.
LEMMA HeldStays ==
  ASSUME IsFiniteSet(Sent), Cardinality(Sent) <= TransactionThreshold,
         IInv, OnlySent, OneInHand, [Next]_vars,
         NEW n \in Node, NEW t \in Sent, Held(n, t)
  PROVE  Held(n, t)'
<1>1. t \notin Command /\ t \in Tx
  BY ConsensusAssumption DEF Sent
<1>2. t \in Added(txPool[n], t)
  BY RoomForSent DEF OnlySent
<1>3. CASE ExistTx(n, t)
  BY <1>3, ExecutedStays DEF Held
<1>4. CASE t \in txPool[n]
  <2>1. PoolStep(n)
    BY PoolFrom DEF IInv
  <2>2. ASSUME NEW b \in Block, txPool'[n] = txPool[n] \ transactions[b],
               chain'[n] = Append(chain[n], b)
        PROVE  t \in txPool'[n] \/ ExistTx(n, t)'
    <3>1. chain[n] \in Seq(Block)
      BY DEF IInv, TypeOK, ChainType
    <3>2. Len(chain[n]) + 1 \in DOMAIN chain'[n] /\ chain'[n][Len(chain[n]) + 1] = b
      BY <2>2, <3>1
    <3> QED
      BY <1>4, <2>2, <3>2 DEF ExistTx
  <2>3. doomed[n] \subseteq Command
    BY DEF IInv, TypeOK, TxType
  <2>4. t \in txPool'[n] \/ ExistTx(n, t)'
    BY <1>1, <1>4, <2>1, <2>2, <2>3, AddedGrows, PoolWithGrows DEF PoolStep
  <2> QED
    BY <2>4 DEF Held
<1>5. CASE \E m \in txInHand[n] : m.tx = t
  BY <1>2, <1>5, HandEmptied DEF Held, IInv
<1>6. CASE /\ ~ExistTx(n, t)
           /\ t \notin txPool[n]
           /\ \E m \in net[n] : m.type = "Transaction" /\ m.tx = t /\ Takes(t, m.priority)
  <2>1. PICK m \in net[n] : m.type = "Transaction" /\ m.tx = t /\ Takes(t, m.priority)
    BY <1>6
  <2>2. AcceptsTransaction(n, t)
    BY <1>1, <1>6, <2>1 DEF AcceptsTransaction, Takes
  <2>3. m.priority => issuer[t] \in Node
    BY <2>1 DEF Takes
  <2>4. \/ m \in net'[n]
        \/ txPool'[n] = Added(txPool[n], t)
        \/ m \in txInHand'[n]
    BY <2>1, <2>2, <2>3, TransactionTaken
  <2> QED
    BY <1>2, <2>1, <2>4 DEF Held
<1> QED
  BY <1>3, <1>4, <1>5, <1>6 DEF Held

LEMMA HeldInit == Init => HeldInv
<1> SUFFICES ASSUME Init PROVE HeldInv
  OBVIOUS
<1>1. \A r \in Requests : r \in [tx : Tx, broadcast : BroadcastTypes, priority : BOOLEAN, to : Node]
  BY ConsensusAssumption
<1>2. \A n \in Node : \A m \in net[n] : \E r \in Requests : m.tx = r.tx
  BY DEF Init, TxMessage
<1>3. \A n \in Node : txPool[n] = {} /\ txInHand[n] = {} /\ outbox[n] = {}
  BY DEF Init
<1>4. TxAround \subseteq UNION {net[n] : n \in Node}
  BY <1>3 DEF TxAround, OnTheWay
<1>5. OnlySent /\ OneInHand
  BY <1>2, <1>3, <1>4 DEF OnlySent, OneInHand, Sent
<1>6. ASSUME NEW r \in Requests, Takes(r.tx, r.priority) PROVE Held(r.to, r.tx)
  <2> DEFINE m == TxMessage(r.tx, r.broadcast, r.priority)
  <2>1. r.to \in Node
    BY <1>1
  <2>2. m \in net[r.to]
    BY <2>1 DEF Init
  <2>3. m.type = "Transaction" /\ m.tx = r.tx /\ m.priority = r.priority
    BY DEF TxMessage
  <2> HIDE DEF m
  <2> QED
    BY <1>6, <2>2, <2>3 DEF Held
<1> QED
  BY <1>5, <1>6 DEF HeldInv

LEMMA StepKeepsHeld ==
  ASSUME IsFiniteSet(Sent), Cardinality(Sent) <= TransactionThreshold,
         IInv, HeldInv, [Next]_vars
  PROVE  HeldInv'
<1>1. OnlySent' /\ OneInHand'
  BY StepKeepsSent, StepKeepsOneInHand DEF HeldInv
<1>2. ASSUME NEW r \in Requests, r.tx \notin Command, Takes(r.tx, r.priority)
      PROVE  Held(r.to, r.tx)'
  <2> DEFINE n == r.to
             t == r.tx
  <2>1. n \in Node /\ t \in Sent
    BY <1>2, ConsensusAssumption DEF Sent
  <2>2. Held(n, t)
    BY <1>2 DEF HeldInv
  <2> HIDE DEF n, t
  <2>3. Held(n, t)'
    BY <2>1, <2>2, HeldStays DEF HeldInv
  <2> QED
    BY <2>3 DEF n, t
<1> QED
  BY <1>1, <1>2 DEF HeldInv

\* While the pools have room for all that clients send, a transaction that a
\* client sent to a node that takes it stays with that node until it is executed
\* there, however the checks, additions, removals and executions interleave.
THEOREM TransactionsAreNotLost ==
  ASSUME IsFiniteSet(Sent), Cardinality(Sent) <= TransactionThreshold
  PROVE  Spec => []NoTxLost
<1>1. IInv /\ HeldInv /\ [Next]_vars => HeldInv'
  BY StepKeepsHeld
<1>2. Spec => []HeldInv
  BY <1>1, HeldInit, Invariance, PTL DEF Spec
<1>3. IInv /\ HeldInv => NoTxLost
  <2>1. IInv /\ HeldInv => \A r \in Requests : Held(r.to, r.tx) => HasTx(r.to, r.tx)
    <3>1. \A r \in Requests : r.to \in Node
      BY ConsensusAssumption
    <3> QED
      BY <3>1 DEF Held, HasTx, IInv, TypeOK, TxType, TxMessages
  <2> QED
    BY <2>1 DEF HeldInv, NoTxLost, Takes
<1> QED
  BY <1>2, <1>3, Invariance, PTL

-----------------------------------------------------------------------------
(***************************************************************************)
(* No transaction is executed twice while all have priority and the        *)
(* feedback control is off.                                                *)
(***************************************************************************)
\* A chain stays as it is, or grows by the block whose transactions leave the pool.
LEMMA ChainFrom ==
  ASSUME IInv, [Next]_vars, NEW n \in Node
  PROVE  \/ chain'[n] = chain[n]
         \/ \E b \in Block : /\ Executing(n, b)
                             /\ chain'[n] = Append(chain[n], b)
                             /\ txPool'[n] = txPool[n] \ transactions[b]
<1> USE DEF IInv, TypeOK, ChainType
<1>1. CASE Still \/ \E k \in Node, b \in Block : Voting(k, b) \/ Proposing(k, b)
  BY <1>1 DEF Still, Voting, Proposing
<1>2. CASE \E k \in Node, b \in Block : Executing(k, b)
  <2>1. PICK k \in Node, b \in Block : Executing(k, b)
    BY <1>2
  <2>2. CASE k # n
    BY <2>1, <2>2 DEF Executing
  <2>3. CASE k = n
    <3>1. PICK c \in Block : AddUpdatedBlock(n, c)
      BY <2>1, <2>3 DEF Executing, Finalize, AppendNV, ValidBlocksNV, RoundType, PoolType
    <3>2. /\ chain'[n] = Append(chain[n], c)
          /\ txPool'[n] = txPool[n] \ transactions[c]
      BY <3>1 DEF AddUpdatedBlock, Flushed, TxType
    <3>3. chain'[n] = Append(chain[n], b)
      BY <2>1, <2>3 DEF Executing
    <3>4. b = c
      <4>1. chain[n] \in Seq(Block)
        OBVIOUS
      <4>2. chain'[n][Len(chain[n]) + 1] = c
        BY <3>2, <4>1
      <4>3. chain'[n][Len(chain[n]) + 1] = b
        BY <3>3, <4>1
      <4> QED
        BY <4>2, <4>3
    <3> QED
      BY <2>1, <2>3, <3>2, <3>4
  <2> QED
    BY <2>2, <2>3
<1> QED
  BY <1>1, <1>2, RoundStep

\* What an appended chain contains.
LEMMA Appended ==
  ASSUME IInv, NEW n \in Node, NEW b \in Block, chain'[n] = Append(chain[n], b)
  PROVE  /\ DOMAIN chain'[n] = 1..(Len(chain[n]) + 1)
         /\ \A i \in 1..Len(chain[n]) : i \in DOMAIN chain[n] /\ chain'[n][i] = chain[n][i]
         /\ chain'[n][Len(chain[n]) + 1] = b
<1>1. chain[n] \in Seq(Block)
  BY DEF IInv, TypeOK, ChainType
<1> QED
  BY <1>1

LEMMA StepKeepsImmediate ==
  ASSUME ControlTx = {}, IInv, Immediate, [Next]_vars
  PROVE  Immediate'
<1>1. \A m \in TxAround' : m.priority
  BY AroundFrom DEF Immediate
<1>2. ASSUME NEW n \in Node PROVE txInHand'[n] = {}
  <2>1. \A m \in net[n] : m.type = "Transaction" => m.priority
    BY DEF Immediate, TxAround, OnTheWay
  <2> QED
    BY <2>1, InHandFrom DEF Immediate, IInv
<1> QED
  BY <1>1, <1>2 DEF Immediate

\* What is added to a pool has not been executed there, and what is executed
\* leaves the pool in the same step.
LEMMA StepKeepsPoolFresh ==
  ASSUME IInv, Immediate, PoolFresh, [Next]_vars
  PROVE  PoolFresh'
<1> SUFFICES ASSUME NEW n \in Node, NEW t \in txPool'[n], ExistTx(n, t)'
             PROVE  FALSE
  BY DEF PoolFresh
<1>1. PICK i \in DOMAIN chain'[n] : t \in transactions[chain'[n][i]]
  BY DEF ExistTx
<1>2. CASE chain'[n] = chain[n]
  <2>1. ExistTx(n, t)
    BY <1>1, <1>2 DEF ExistTx
  <2>2. PoolStep(n)
    BY PoolFrom DEF IInv
  <2>3. t \notin txPool[n] /\ txInHand[n] = {}
    BY <2>1 DEF PoolFresh, Immediate
  <2> QED
    BY <2>1, <2>2, <2>3, AddedGrows, PoolWithGrows DEF PoolStep, AcceptsTransaction
<1>3. ASSUME NEW b \in Block, chain'[n] = Append(chain[n], b),
             txPool'[n] = txPool[n] \ transactions[b]
      PROVE  FALSE
  <2>1. t \in txPool[n] /\ ~ExistTx(n, t)
    BY <1>3 DEF PoolFresh
  <2>2. Len(chain[n]) \in Nat
    BY ChainShape DEF IInv
  <2>3. i \in 1..Len(chain[n]) \/ i = Len(chain[n]) + 1
    BY <1>1, <1>3, <2>2, Appended
  <2> QED
    BY <1>1, <1>3, <2>1, <2>3, Appended DEF ExistTx
<1> QED
  BY <1>2, <1>3, ChainFrom

\* A chain goes on beginning as it did.
LEMMA BeginningStays ==
  ASSUME IInv, [Next]_vars, NEW n \in Node, NEW i \in DOMAIN chain[n]
  PROVE  /\ i \in DOMAIN chain'[n]
         /\ \A j \in 1..i : chain'[n][j] = chain[n][j]
<1>1. DOMAIN chain[n] = 1..Len(chain[n]) /\ Len(chain[n]) \in Nat
  BY ChainShape DEF IInv
<1>2. CASE chain'[n] = chain[n]
  BY <1>2
<1>3. ASSUME NEW b \in Block, chain'[n] = Append(chain[n], b)
      PROVE  /\ i \in DOMAIN chain'[n]
             /\ \A j \in 1..i : chain'[n][j] = chain[n][j]
  BY <1>1, <1>3, Appended
<1> QED
  BY <1>2, <1>3, ChainFrom

\* A block is filled from a pool that holds nothing its proposer has executed.
LEMMA StepKeepsBlocksFresh ==
  ASSUME IInv, BlocksFresh, PoolFresh', TypeOK', [Next]_vars
  PROVE  BlocksFresh'
<1> SUFFICES ASSUME NEW b \in KnownBlocks' \ {Genesis}
             PROVE  \E i \in DOMAIN chain'[proposerOf[b]] :
                      /\ chain'[proposerOf[b]][i] = lastHash[b]
                      /\ \A j \in 1..i :
                           transactions[chain'[proposerOf[b]][j]] \cap transactions[b] = {}
  BY DEF BlocksFresh
<1>1. CASE b \in KnownBlocks
  <2> DEFINE p == proposerOf[b]
  <2>1. p \in Node
    BY <1>1, KnownAreBlocks, ConsensusAssumption DEF IInv
  <2>2. PICK i \in DOMAIN chain[p] :
          /\ chain[p][i] = lastHash[b]
          /\ \A j \in 1..i : transactions[chain[p][j]] \cap transactions[b] = {}
    BY <1>1 DEF BlocksFresh
  <2>3. i \in 1..i
    BY <2>1, ChainShape DEF IInv
  <2> HIDE DEF p
  <2>4. /\ i \in DOMAIN chain'[p]
        /\ \A j \in 1..i : chain'[p][j] = chain[p][j]
    BY <2>1, BeginningStays
  <2> QED
    BY <2>2, <2>3, <2>4 DEF p
<1>2. CASE \E n \in Node : Proposing(n, b)
  <2>1. PICK n \in Node : Proposing(n, b)
    BY <1>2
  <2>2. /\ proposerOf[b] = n
        /\ lastHash[b] = Tip(n)
        /\ transactions[b] \in TxForBloc(n, txPool'[n])
        /\ chain' = chain
    BY <2>1 DEF Proposing
  <2>3. txPool'[n] \in SUBSET Tx
    BY DEF TypeOK, TxType
  <2>4. \A t \in transactions[b] : ~ExistTx(n, t)'
    BY <2>2, <2>3, ForBloc DEF PoolFresh
  <2>5. /\ Len(chain[n]) \in DOMAIN chain[n]
        /\ DOMAIN chain[n] = 1..Len(chain[n])
    BY ChainShape DEF IInv
  <2>6. \A j \in 1..Len(chain[n]) : transactions[chain[n][j]] \cap transactions[b] = {}
    BY <2>2, <2>4, <2>5 DEF ExistTx
  <2> QED
    BY <2>2, <2>5, <2>6 DEF Tip
<1> QED
  BY <1>1, <1>2, KnownGrows DEF Proposing

\* What a node executes holds nothing that it has executed: the proposer had
\* executed the same blocks when it made it.
LEMMA ExecutedIsNew ==
  ASSUME IInv, BlocksFresh, NEW n \in Node, NEW b \in Block, Executing(n, b),
         NEW j \in DOMAIN chain[n]
  PROVE  transactions[chain[n][j]] \cap transactions[b] = {}
<1> USE DEF IInv
<1> DEFINE L == Len(chain[n])
           p == proposerOf[b]
<1>1. /\ L \in Nat \ {0}
      /\ DOMAIN chain[n] = 1..L
      /\ CurrentSeqNb(n) = L - 1
      /\ Tip(n) = chain[n][L]
  BY ChainShape DEF Tip
<1>2. /\ b \in KnownBlocks
      /\ seqNb[b] = L
      /\ lastHash[b] = chain[n][L]
      /\ b # Genesis
  BY <1>1, ConsensusAssumption DEF Executing, IsValidNewBlock
<1>3. p \in Node
  BY ConsensusAssumption
<1>4. PICK i \in DOMAIN chain[p] :
        /\ chain[p][i] = lastHash[b]
        /\ \A k \in 1..i : transactions[chain[p][k]] \cap transactions[b] = {}
  BY <1>2 DEF BlocksFresh
<1>5. DOMAIN chain[p] = 1..Len(chain[p]) /\ Len(chain[p]) \in Nat
  BY <1>3, ChainShape
<1>6. seqNb[chain[p][i]] = i - 1 /\ seqNb[chain[n][L]] = L - 1
  <2>1. i \in 1..Len(chain[p]) /\ L \in 1..Len(chain[n])
    <3>1. L = Len(chain[n])
      OBVIOUS
    <3> QED
      BY <1>1, <1>4, <1>5, <3>1
  <2> HIDE DEF p, L
  <2> QED
    BY <1>3, <2>1 DEF Linked
<1>7. i = L
  BY <1>1, <1>2, <1>4, <1>5, <1>6
<1>8. chain[p][j] = chain[n][j]
  BY <1>1, <1>3, <1>5, <1>7 DEF Agreement
<1> QED
  BY <1>1, <1>4, <1>7, <1>8

LEMMA StepKeepsOnce ==
  ASSUME IInv, BlocksFresh, ExecutedOnce, [Next]_vars
  PROVE  ExecutedOnce'
<1> SUFFICES ASSUME NEW n \in Node, NEW i \in DOMAIN chain'[n], NEW j \in DOMAIN chain'[n], i # j
             PROVE  transactions[chain'[n][i]] \cap transactions[chain'[n][j]] = {}
  BY DEF ExecutedOnce
<1>1. CASE chain'[n] = chain[n]
  BY <1>1 DEF ExecutedOnce
<1>2. ASSUME NEW b \in Block, Executing(n, b), chain'[n] = Append(chain[n], b)
      PROVE  transactions[chain'[n][i]] \cap transactions[chain'[n][j]] = {}
  <2> DEFINE L == Len(chain[n])
  <2>1. L \in Nat /\ DOMAIN chain[n] = 1..L
    BY ChainShape DEF IInv
  <2>2. /\ i \in 1..L \/ i = L + 1
        /\ j \in 1..L \/ j = L + 1
    BY <1>2, <2>1, Appended
  <2>3. \A k \in 1..L : chain'[n][k] = chain[n][k] /\ transactions[chain[n][k]] \cap transactions[b] = {}
    BY <1>2, <2>1, Appended, ExecutedIsNew
  <2>4. chain'[n][L + 1] = b
    BY <1>2, Appended
  <2> HIDE DEF L
  <2>5. CASE i \in 1..L /\ j \in 1..L
    BY <2>1, <2>3, <2>5 DEF ExecutedOnce
  <2>6. CASE i = L + 1 \/ j = L + 1
    BY <2>2, <2>3, <2>4, <2>6
  <2> QED
    BY <2>2, <2>5, <2>6
<1> QED
  BY <1>1, <1>2, ChainFrom

LEMMA OnceInit ==
  ASSUME \A r \in Requests : r.priority
  PROVE  Init => OnceInv
<1> SUFFICES ASSUME Init PROVE OnceInv
  OBVIOUS
<1>1. \A n \in Node : txPool[n] = {} /\ txInHand[n] = {} /\ outbox[n] = {}
  BY DEF Init
<1>2. \A n \in Node : \A m \in net[n] : m.priority
  BY DEF Init, TxMessage
<1>3. Immediate
  BY <1>1, <1>2 DEF Immediate, TxAround, OnTheWay
<1>4. PoolFresh
  BY <1>1 DEF PoolFresh
<1>5. BlocksFresh
  BY NothingKnown DEF BlocksFresh
<1>6. \A n \in Node : DOMAIN chain[n] = {1}
  BY DEF Init
<1>7. ExecutedOnce
  BY <1>6 DEF ExecutedOnce
<1> QED
  BY <1>3, <1>4, <1>5, <1>7 DEF OnceInv

\* No transaction is executed twice while every transaction has priority and
\* the feedback control is off: what transactionHandler checks and adds in two
\* steps is the only way around the check that it is not executed yet.
THEOREM TransactionsExecutedOnce ==
  ASSUME \A r \in Requests : r.priority, ControlTx = {}
  PROVE  Spec => []ExecutedOnce
<1>1. IInv /\ IInv' /\ OnceInv /\ [Next]_vars => OnceInv'
  BY StepKeepsImmediate, StepKeepsPoolFresh, StepKeepsBlocksFresh, StepKeepsOnce
     DEF OnceInv, IInv
<1>2. Spec => []OnceInv
  BY <1>1, OnceInit, Invariance, PTL DEF Spec
<1>3. OnceInv => ExecutedOnce
  BY DEF OnceInv
<1> QED
  BY <1>2, <1>3, PTL
=============================================================================
