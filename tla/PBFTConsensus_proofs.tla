------------------------- MODULE PBFTConsensus_proofs -------------------------
(***************************************************************************)
(* Proofs about the consensus, for every set of nodes, every flag and any  *)
(* number of blocks and transactions.                                      *)
(***************************************************************************)
EXTENDS PBFTConsensus, Operators_proofs

-----------------------------------------------------------------------------
(***************************************************************************)
(* The operations on a vote pool keep its shape.                           *)
(***************************************************************************)
\* A new pool is a pool.
LEMMA EmptyPoolType ==
  ASSUME NEW Blocks, NEW Nodes
  PROVE  EmptyPool \in Pools(Blocks, Nodes)
BY DEF EmptyPool, Pools

\* AddPrepare and AddCommit keep the shape of the pool.
LEMMA AddVoteType ==
  ASSUME NEW Blocks, NEW Nodes, NEW pool \in Pools(Blocks, Nodes),
         NEW b \in Blocks, NEW n \in Nodes
  PROVE  AddVote(pool, Vote(b, n)) \in Pools(Blocks, Nodes)
<1> DEFINE votes == pool.unconfirmed \cup {Vote(b, n)}
<1>1. Vote(b, n) \in Votes(Blocks, Nodes)
  BY DEF Vote, Votes
<1>2. votes \in SUBSET Votes(Blocks, Nodes)
  BY <1>1 DEF Pools
<1> HIDE DEF votes
<1>3. [pool EXCEPT !.unconfirmed = votes] \in Pools(Blocks, Nodes)
  BY <1>2 DEF Pools
<1> QED
  BY <1>3 DEF AddVote, votes

\* confirm keeps the shape of the pool, whatever the active set.
LEMMA ConfirmType ==
  ASSUME NEW Blocks, NEW Nodes, NEW pool \in Pools(Blocks, Nodes),
         NEW b, NEW validators
  PROVE  Confirm(pool, b, validators) \in Pools(Blocks, Nodes)
BY DEF Confirm, VotesOf, Pools

\* Validate records the count it is given under the hash.
LEMMA ValidateType ==
  ASSUME NEW Blocks, NEW Nodes, NEW pool \in Pools(Blocks, Nodes),
         NEW b \in Blocks, NEW nbVal \in Nat
  PROVE  Validate(pool, b, nbVal) \in Pools(Blocks, Nodes)
<1> DEFINE records == {r \in pool.validated : r.block # b}
                        \cup {[block |-> b, nbVal |-> nbVal]}
<1>1. records \in SUBSET [block : Blocks, nbVal : Nat]
  BY DEF Pools
<1> HIDE DEF records
<1>2. [pool EXCEPT !.validated = records] \in Pools(Blocks, Nodes)
  BY <1>1 DEF Pools
<1> QED
  BY <1>2 DEF Validate, records

\* Remove keeps the shape of the pool.
LEMMA RemoveType ==
  ASSUME NEW Blocks, NEW Nodes, NEW pool \in Pools(Blocks, Nodes), NEW b
  PROVE  Remove(pool, b) \in Pools(Blocks, Nodes)
BY DEF Remove, VotesOf, Pools
-----------------------------------------------------------------------------
(***************************************************************************)
(* What the helpers return.                                                *)
(***************************************************************************)
\* The nodes are finitely many, and so is every active set, which has a size.
LEMMA ActiveSetFinite ==
  ASSUME NEW validators \in (SUBSET Node) \ {{}}
  PROVE  /\ IsFiniteSet(validators)
         /\ Cardinality(validators) \in Nat \ {0}
<1>1. IsFiniteSet(validators)
  BY ValidatorsAssumption, FS_Subset
<1>2. Cardinality(validators) \in Nat /\ Cardinality(validators) # 0
  BY <1>1, FS_CardinalityType, FS_EmptySet
<1> QED
  BY <1>1, <1>2

\* updateProposer draws a node of the active set.
LEMMA ProposerIsActive ==
  ASSUME NEW validators \in (SUBSET Node) \ {{}}, NEW b \in Block
  PROVE  ProposerAfter(validators, b) \in validators
<1> DEFINE size == Cardinality(validators)
           index == hashByte[b] % size
<1>1. IsFiniteSet(validators) /\ size \in Nat \ {0}
  BY ActiveSetFinite
<1>2. hashByte[b] \in Nat
  <2>1. hashByte \in [Block -> 0..255]
    BY ConsensusAssumption
  <2>2. hashByte[b] \in 0..255
    BY <2>1
  <2> QED
    BY <2>2
<1> HIDE DEF size
<1>3. index \in 0..(size - 1)
  BY <1>1, <1>2
<1>4. validators \in SUBSET Nat
  BY ValidatorsAssumption
<1> HIDE DEF index
<1>5. GetActiveValidatorIndexOfValue(validators, index) \in validators
  BY <1>1, <1>3, <1>4, ActiveValidatorIsMember DEF size
<1> QED
  BY <1>5 DEF ProposerAfter, index, size

\* A command that is applied leaves a set of nodes that is not empty.
LEMMA ActiveAfterType ==
  ASSUME NEW validators \in (SUBSET Node) \ {{}}, NEW b \in Block
  PROVE  ActiveAfter(validators, b) \in (SUBSET Node) \ {{}}
<1> DEFINE lists == {NewValidatorSet[c] :
                       c \in transactions[b] \cap DOMAIN NewValidatorSet}
           valid == {l \in lists : IsSizeValid(Len(l)) /\ CheckIfValidatorsAreNodes(l)}
<1>1. ASSUME NEW l \in valid
      PROVE  Keys(l) \in (SUBSET Node) \ {{}}
  <2>1. l \in Seq(Int)
    BY ConsensusAssumption
  <2>2. Keys(l) \subseteq Node
    BY <1>1 DEF CheckIfValidatorsAreNodes
  <2>3. Len(l) \in Nat /\ Len(l) >= MinValidators
    BY <1>1, <2>1 DEF IsSizeValid
  <2>4. 1 \in DOMAIN l
    BY ValidatorsAssumption, <2>1, <2>3
  <2> QED
    BY <2>2, <2>4 DEF Keys
<1> HIDE DEF valid
<1>2. CASE valid = {}
  BY <1>2 DEF ActiveAfter, valid
<1>3. CASE valid # {}
  <2>1. (CHOOSE l \in valid : TRUE) \in valid
    BY <1>3
  <2>2. Keys(CHOOSE l \in valid : TRUE) \in (SUBSET Node) \ {{}}
    BY <1>1, <2>1
  <2> QED
    BY <1>3, <2>2 DEF ActiveAfter, valid
<1> QED
  BY <1>2, <1>3

\* The messages of the model are messages.
LEMMA MessageTypes ==
  /\ \A t \in Tx, b \in BroadcastTypes, p \in BOOLEAN : TxMessage(t, b, p) \in Messages
  /\ \A k \in {"PrePrepare", "BlocMsg"}, b \in Block : BlockMessage(k, b) \in Messages
  /\ \A k \in {"Prepare", "Commit"}, b \in Block, n \in Node :
       VoteMessage(k, b, n) \in Messages
BY DEF TxMessage, BlockMessage, VoteMessage, Messages, TxMessages, BlockMessages,
       VoteMessages
-----------------------------------------------------------------------------
(***************************************************************************)
(* Sending: what is on its way stays a set of messages, and only the       *)
(* message that is sent is added to it.                                    *)
(***************************************************************************)
Channels == [Node -> SUBSET Messages]
In(channels) == UNION {channels[k] : k \in Node}

\* A node has sockets to nodes.
LEMMA PeersAreNodes ==
  ASSUME NEW n \in Node
  PROVE  Peers[n] \subseteq Node
BY ConsensusAssumption

\* A message put into channels is the only one added.
LEMMA DeliverType ==
  ASSUME NEW channels \in Channels, NEW nodes, NEW m \in Messages
  PROVE  /\ Deliver(channels, nodes, m) \in Channels
         /\ In(Deliver(channels, nodes, m)) \subseteq In(channels) \cup {m}
<1>1. Deliver(channels, nodes, m) \in Channels
  BY DEF Deliver, Channels
<1>2. \A d \in Node : Deliver(channels, nodes, m)[d] \subseteq channels[d] \cup {m}
  BY DEF Deliver
<1> QED
  BY <1>1, <1>2 DEF In

\* Taking a message out of a channel adds none.
LEMMA ReceivedType ==
  ASSUME WireType, NEW n \in Node, NEW m
  PROVE  /\ Received(n, m) \in Channels
         /\ In(Received(n, m)) \subseteq OnTheWay
<1>1. Received(n, m) \in Channels
  BY DEF WireType, Received, Channels
<1>2. \A k \in Node : Received(n, m)[k] \subseteq net[k]
  BY DEF WireType, Received
<1> QED
  BY <1>1, <1>2 DEF In, OnTheWay

\* What is in the channels is on its way.
LEMMA NetOnTheWay == In(net) \subseteq OnTheWay
BY DEF In, OnTheWay

\* BroadcastMessage adds the message it is given.
LEMMA BroadcastKeeps ==
  ASSUME WireType, NEW n \in Node, NEW m \in Messages, NEW rest \in Channels,
         BroadcastMessage(n, m, rest)
  PROVE  /\ WireType'
         /\ OnTheWay' \subseteq OnTheWay \cup In(rest) \cup {m}
<1>1. CASE PoANV
  <2>1. /\ net' = rest
        /\ outbox' = [outbox EXCEPT ![n] = [msg : {m}, to : Peers[n]]]
    BY <1>1 DEF BroadcastMessage
  <2>2. [msg : {m}, to : Peers[n]] \in SUBSET [msg : Messages, to : Node \cup {TheProposer}]
    BY PeersAreNodes
  <2>3. WireType'
    BY <2>1, <2>2 DEF WireType, Channels
  <2>4. \A k \in Node : \A p \in outbox'[k] : p.msg = m \/ p \in outbox[k]
    BY <2>1 DEF WireType
  <2> QED
    BY <2>1, <2>3, <2>4 DEF OnTheWay, In
<1>2. CASE ~PoANV
  <2>1. net' = Deliver(rest, Peers[n], m) /\ outbox' = outbox
    BY <1>2 DEF BroadcastMessage
  <2>2. WireType'
    BY <2>1, DeliverType DEF WireType, Channels
  <2>3. In(net') \subseteq In(rest) \cup {m}
    BY <2>1, DeliverType
  <2> QED
    BY <2>1, <2>2, <2>3 DEF OnTheWay, In
<1> QED
  BY <1>1, <1>2

\* TransmitTransaction adds the message it is given.
LEMMA TransmitKeeps ==
  ASSUME WireType, NEW n \in Node, NEW m \in Messages, NEW rest \in Channels,
         TransmitTransaction(n, m, rest)
  PROVE  /\ WireType'
         /\ OnTheWay' \subseteq OnTheWay \cup In(rest) \cup {m}
<1>1. /\ net' = rest
      /\ outbox' = [outbox EXCEPT ![n] = {[msg |-> m, to |-> TheProposer]}]
  BY DEF TransmitTransaction
<1>2. WireType'
  BY <1>1 DEF WireType, Channels
<1>3. \A k \in Node : \A p \in outbox'[k] : p.msg = m \/ p \in outbox[k]
  BY <1>1 DEF WireType
<1> QED
  BY <1>1, <1>2, <1>3 DEF OnTheWay, In

\* Without sending, nothing is added.
LEMMA NoMessageKeeps ==
  ASSUME WireType, NEW rest \in Channels, NoMessage(rest)
  PROVE  /\ WireType'
         /\ OnTheWay' \subseteq OnTheWay \cup In(rest)
BY DEF NoMessage, WireType, Channels, OnTheWay, In

\* Relay adds the message it is given, if any.
LEMMA RelayKeeps ==
  ASSUME WireType, NEW n \in Node, NEW m \in Messages, NEW rest \in Channels,
         Relay(n, m, rest)
  PROVE  /\ WireType'
         /\ OnTheWay' \subseteq OnTheWay \cup In(rest) \cup {m}
BY BroadcastKeeps, NoMessageKeeps DEF Relay

\* The blocks in the pools, in the chains and on their way are known.
LEMMA KnownWhere ==
  /\ \A k \in Node : /\ blockPool[k] \subseteq KnownBlocks
                     /\ blockPoolNV[k] \subseteq KnownBlocks
                     /\ \A i \in DOMAIN chain[k] : chain[k][i] \in KnownBlocks
  /\ \A m \in OnTheWay : m.type \in {"PrePrepare", "BlocMsg"} => m.block \in KnownBlocks
<1>1. \A k \in Node : HeldBlocks(k) \subseteq KnownBlocks
  BY DEF KnownBlocks
<1>2. \A m \in CarryingBlock(OnTheWay) : m.block \in KnownBlocks
  BY DEF KnownBlocks
<1> QED
  BY <1>1, <1>2 DEF HeldBlocks, CarryingBlock

\* A block is known because a node holds it or because it is on its way.
LEMMA KnownBecause ==
  ASSUME NEW b \in KnownBlocks
  PROVE  \/ \E k \in Node : b \in HeldBlocks(k)
         \/ \E m \in CarryingBlock(OnTheWay) : m.block = b
BY DEF KnownBlocks

\* A known block is a block.
LEMMA KnownAreBlocks == TypeOK => KnownBlocks \subseteq Block
<1> SUFFICES ASSUME TypeOK, NEW b \in KnownBlocks PROVE b \in Block
  OBVIOUS
<1>1. CASE \E k \in Node : b \in HeldBlocks(k)
  <2>1. PICK k \in Node : b \in HeldBlocks(k)
    BY <1>1
  <2>2. chain[k] \in Seq(Block)
    BY DEF TypeOK, ChainType
  <2>3. \A i \in DOMAIN chain[k] : chain[k][i] \in Block
    BY <2>2
  <2> QED
    BY <2>1, <2>3 DEF HeldBlocks, TypeOK, PoolType
<1>2. CASE \E m \in CarryingBlock(OnTheWay) : m.block = b
  <2>1. PICK m \in OnTheWay : m.type \in {"PrePrepare", "BlocMsg"} /\ m.block = b
    BY <1>2 DEF CarryingBlock
  <2>2. m \in Messages
    BY DEF TypeOK, WireType, OnTheWay
  <2> QED
    BY <2>1, <2>2 DEF Messages, TxMessages, BlockMessages, VoteMessages
<1> QED
  BY <1>1, <1>2, KnownBecause

\* A step that extends no chain, pools only known blocks and sends at most
\* transactions and votes makes no block known.
LEMMA KnownKept ==
  ASSUME chain' = chain,
         \A k \in Node : blockPool'[k] \cup blockPoolNV'[k] \subseteq KnownBlocks,
         OnTheWay' \subseteq OnTheWay \cup TxMessages \cup VoteMessages
  PROVE  KnownBlocks' \subseteq KnownBlocks
<1> SUFFICES ASSUME NEW b \in KnownBlocks' PROVE b \in KnownBlocks
  OBVIOUS
<1>1. CASE \E k \in Node : b \in HeldBlocks(k)'
  <2>1. PICK k \in Node : b \in HeldBlocks(k)'
    BY <1>1
  <2>2. b \in blockPool'[k] \cup blockPoolNV'[k] \cup {chain[k][i] : i \in DOMAIN chain[k]}
    BY <2>1 DEF HeldBlocks
  <2> QED
    BY <2>2, KnownWhere
<1>2. CASE \E m \in CarryingBlock(OnTheWay') : m.block = b
  <2>1. PICK m \in OnTheWay' : m.type \in {"PrePrepare", "BlocMsg"} /\ m.block = b
    BY <1>2 DEF CarryingBlock
  <2>2. m \notin TxMessages /\ m \notin VoteMessages
    BY <2>1 DEF TxMessages, VoteMessages
  <2> QED
    BY <2>1, <2>2, KnownWhere
<1>3. \/ \E k \in Node : b \in HeldBlocks(k)'
      \/ \E m \in CarryingBlock(OnTheWay') : m.block = b
  BY DEF KnownBlocks
<1> QED
  BY <1>1, <1>2, <1>3

-----------------------------------------------------------------------------
(***************************************************************************)
(* The steps that leave the rounds alone: they keep the types, change no   *)
(* chain and no state, take no block out of a BlockPool, make no block and *)
(* send nothing but transactions and what was on its way already.          *)
(***************************************************************************)
\* What is sent for a transaction: the same transaction, with the same priority.
Copies ==
  {m \in TxMessages : \E w \in TxAround : m.tx = w.tx /\ m.priority = w.priority}

Still ==
  /\ UNCHANGED <<chain, active, proposer, state, current>>
  /\ \A k \in Node : blockPool[k] \subseteq blockPool'[k]
  /\ OnTheWay' \subseteq OnTheWay \cup TxMessages
  /\ OnTheWay' \subseteq OnTheWay \cup Copies
  /\ KnownBlocks' \subseteq KnownBlocks

\* A pool with a transaction added is a set of transactions.
LEMMA AddedType ==
  ASSUME NEW pool \in SUBSET Tx, NEW t \in Tx
  PROVE  Added(pool, t) \in SUBSET Tx
BY DEF Added

\* A transaction that is accepted and passed on.
LEMMA ReceiveTrustedMessKeeps ==
  ASSUME TypeOK, NEW n \in Node, NEW m \in TxMessages, m \in TxAround, NEW rest \in Channels,
         In(rest) \subseteq OnTheWay, ReceiveTrustedMess(n, m, rest)
  PROVE  /\ txPool' \in [Node -> SUBSET Tx]
         /\ WireType'
         /\ OnTheWay' \subseteq OnTheWay \cup Copies
<1> DEFINE relayed == [m EXCEPT !.broadcast = "DontBroadcast"]
<1>1. txPool' \in [Node -> SUBSET Tx]
  BY AddedType DEF ReceiveTrustedMess, TypeOK, TxType, TxMessages
<1>2. relayed \in TxMessages /\ relayed \in Messages /\ m \in Messages
  BY DEF TxMessages, Messages, BroadcastTypes
<1>8. relayed \in Copies /\ m \in Copies
  BY <1>2 DEF Copies, TxMessages
<1>3. \/ BroadcastMessage(n, relayed, rest)
      \/ TransmitTransaction(n, m, rest)
      \/ NoMessage(rest)
  BY DEF ReceiveTrustedMess
<1> HIDE DEF relayed
<1>4. WireType
  BY DEF TypeOK
<1>5. CASE BroadcastMessage(n, relayed, rest)
  BY <1>1, <1>2, <1>4, <1>5, <1>8, BroadcastKeeps
<1>6. CASE TransmitTransaction(n, m, rest)
  BY <1>1, <1>2, <1>4, <1>6, <1>8, TransmitKeeps
<1>7. CASE NoMessage(rest)
  BY <1>1, <1>4, <1>7, NoMessageKeeps
<1> QED
  BY <1>3, <1>5, <1>6, <1>7

\* A message on its way is a message.
LEMMA MessageInNet ==
  ASSUME TypeOK, NEW n \in Node, NEW m \in net[n]
  PROVE  m \in Messages /\ m \in OnTheWay
BY DEF TypeOK, WireType, OnTheWay

\* receivedMessage of a transaction with priority.
LEMMA ReceiveTransacStep ==
  ASSUME TypeOK, NEW n \in Node, ReceiveTransac(n)
  PROVE  TypeOK' /\ Still
<1> USE DEF TypeOK
<1>1. PICK m \in net[n] :
        /\ m.type = "Transaction"
        /\ IF issuer[m.tx] \in Node /\ AcceptsTransaction(n, m.tx)
             THEN ReceiveTrustedMess(n, m, Received(n, m))
             ELSE NoMessage(Received(n, m)) /\ UNCHANGED txPool
  BY DEF ReceiveTransac
<1>2. m \in TxMessages
  BY <1>1, MessageInNet DEF Messages, BlockMessages, VoteMessages
<1>3. Received(n, m) \in Channels /\ In(Received(n, m)) \subseteq OnTheWay
  BY ReceivedType
<1>4. /\ txPool' \in [Node -> SUBSET Tx]
      /\ WireType'
      /\ OnTheWay' \subseteq OnTheWay \cup Copies
  <2>1. CASE ReceiveTrustedMess(n, m, Received(n, m))
    <3>1. m \in TxAround
      BY <1>1, MessageInNet DEF TxAround
    <3> QED
      BY <1>2, <1>3, <2>1, <3>1, ReceiveTrustedMessKeeps
  <2>2. CASE NoMessage(Received(n, m)) /\ UNCHANGED txPool
    BY <1>3, <2>2, NoMessageKeeps DEF TxType
  <2> QED
    BY <1>1, <2>1, <2>2
<1>5. /\ UNCHANGED <<chainVars, roundVars, poolVars, doomed, txInHand>>
      /\ wake' = [wake EXCEPT ![n] = TRUE]
  BY DEF ReceiveTransac
<1>6. TypeOK'
  BY <1>4, <1>5 DEF ChainType, RoundType, PoolType, TxType, chainVars, roundVars, poolVars
<1>7. OnTheWay' \subseteq OnTheWay \cup TxMessages
  BY <1>4 DEF Copies
<1>8. KnownBlocks' \subseteq KnownBlocks
  BY <1>5, <1>7, KnownKept, KnownWhere DEF chainVars, poolVars, PoolType
<1> QED
  BY <1>4, <1>5, <1>6, <1>7, <1>8 DEF Still, chainVars, roundVars, poolVars

\* transactionHandler checks a transaction.
LEMMA CheckTransactionStep ==
  ASSUME TypeOK, NEW n \in Node, CheckTransaction(n)
  PROVE  TypeOK' /\ Still
<1> USE DEF TypeOK
<1>1. PICK m \in net[n] :
        /\ m.type = "Transaction"
        /\ NoMessage(Received(n, m))
        /\ \/ txInHand' = [txInHand EXCEPT ![n] = {m}] /\ UNCHANGED wake
           \/ wake' = [wake EXCEPT ![n] = TRUE] /\ UNCHANGED txInHand
  BY DEF CheckTransaction
<1>2. m \in TxMessages
  BY <1>1, MessageInNet DEF Messages, BlockMessages, VoteMessages
<1>3. WireType' /\ OnTheWay' \subseteq OnTheWay
  BY <1>1, ReceivedType, NoMessageKeeps
<1>4. UNCHANGED <<chainVars, roundVars, poolVars, txPool, doomed>>
  BY DEF CheckTransaction
<1>5. TypeOK'
  <2>1. txInHand' \in [Node -> SUBSET TxMessages] /\ wake' \in [Node -> BOOLEAN]
    BY <1>1, <1>2 DEF TxType, RoundType
  <2> QED
    BY <1>3, <1>4, <2>1
       DEF ChainType, RoundType, PoolType, TxType, chainVars, roundVars, poolVars
<1>6. KnownBlocks' \subseteq KnownBlocks
  BY <1>3, <1>4, KnownKept, KnownWhere DEF chainVars, poolVars, PoolType
<1> QED
  BY <1>3, <1>4, <1>5, <1>6 DEF Still, chainVars, roundVars, poolVars

\* transactionHandler adds the transaction it has checked.
LEMMA AddTransactionStep ==
  ASSUME TypeOK, NEW n \in Node, AddTransaction(n)
  PROVE  TypeOK' /\ Still
<1> USE DEF TypeOK
<1>1. PICK m \in txInHand[n] : ReceiveTrustedMess(n, m, net)
  BY DEF AddTransaction
<1>2. m \in TxMessages
  BY DEF TxType
<1>3. net \in Channels
  BY DEF WireType, Channels
<1>4. /\ txPool' \in [Node -> SUBSET Tx]
      /\ WireType'
      /\ OnTheWay' \subseteq OnTheWay \cup Copies
  <2>1. m \in TxAround
    BY <1>2 DEF TxAround, TxMessages
  <2> QED
    BY <1>1, <1>2, <1>3, <2>1, NetOnTheWay, ReceiveTrustedMessKeeps
<1>5. /\ UNCHANGED <<chainVars, roundVars, poolVars, doomed>>
      /\ wake' = [wake EXCEPT ![n] = TRUE]
      /\ txInHand' = [txInHand EXCEPT ![n] = {}]
  BY DEF AddTransaction
<1>6. TypeOK'
  <2>1. TxType'
    BY <1>4, <1>5 DEF TxType
  <2>2. ChainType' /\ RoundType' /\ PoolType'
    BY <1>5 DEF ChainType, RoundType, PoolType, chainVars, roundVars, poolVars
  <2> QED
    BY <1>4, <2>1, <2>2
<1>7. OnTheWay' \subseteq OnTheWay \cup TxMessages
  BY <1>4 DEF Copies
<1>8. KnownBlocks' \subseteq KnownBlocks
  BY <1>5, <1>7, KnownKept, KnownWhere DEF chainVars, poolVars, PoolType
<1> QED
  BY <1>4, <1>5, <1>6, <1>7, <1>8 DEF Still, chainVars, roundVars, poolVars

\* RemoveTransaction of an invalid command.
LEMMA RemoveDoomedStep ==
  ASSUME TypeOK, NEW n \in Node, RemoveDoomed(n)
  PROVE  TypeOK' /\ Still
<1>1. KnownBlocks' = KnownBlocks /\ OnTheWay' = OnTheWay
  BY DEF RemoveDoomed, KnownBlocks, OnTheWay, HeldBlocks, chainVars, poolVars
<1>2. TypeOK'
  BY DEF RemoveDoomed, TypeOK, ChainType, RoundType, PoolType, TxType, WireType,
         chainVars, roundVars, poolVars
<1> QED
  BY <1>1, <1>2 DEF Still, RemoveDoomed, chainVars, roundVars, poolVars

\* receivePrePrepareMessage.
LEMMA ReceivePrePrepareStep ==
  ASSUME TypeOK, NEW n \in Node, ReceivePrePrepare(n)
  PROVE  TypeOK' /\ Still
<1> USE DEF TypeOK
<1>1. PICK m \in net[n] :
        /\ m.type = "PrePrepare"
        /\ \/ /\ blockPool' = [blockPool EXCEPT ![n] = @ \cup {m.block}]
              /\ Relay(n, m, Received(n, m))
           \/ NoMessage(Received(n, m)) /\ UNCHANGED blockPool
  BY DEF ReceivePrePrepare
<1>2. m \in Messages /\ m \in BlockMessages /\ m \in OnTheWay
  BY <1>1, MessageInNet DEF Messages, TxMessages, VoteMessages
<1>3. WireType' /\ OnTheWay' \subseteq OnTheWay
  BY <1>1, <1>2, ReceivedType, RelayKeeps, NoMessageKeeps
<1>4. /\ UNCHANGED <<chainVars, roundVars, blockPoolNV, preparePool, commitPool, txVars>>
      /\ wake' = [wake EXCEPT ![n] = TRUE]
  BY DEF ReceivePrePrepare
<1>5. m.block \in Block /\ m.block \in KnownBlocks
  BY <1>1, <1>2, KnownWhere DEF BlockMessages
<1>6. /\ blockPool' \in [Node -> SUBSET Block]
      /\ \A k \in Node : /\ blockPool[k] \subseteq blockPool'[k]
                         /\ blockPool'[k] \subseteq blockPool[k] \cup {m.block}
  BY <1>1, <1>5 DEF PoolType
<1>7. TypeOK'
  BY <1>3, <1>4, <1>6 DEF ChainType, RoundType, PoolType, TxType, chainVars, roundVars, txVars
<1>8. KnownBlocks' \subseteq KnownBlocks
  <2>1. \A k \in Node : blockPool'[k] \cup blockPoolNV'[k] \subseteq KnownBlocks
    BY <1>4, <1>5, <1>6, KnownWhere
  <2> QED
    BY <1>3, <1>4, <2>1, KnownKept DEF chainVars
<1> QED
  BY <1>3, <1>4, <1>6, <1>7, <1>8 DEF Still, chainVars, roundVars

\* receivePrepareMessage, the pruning included.
LEMMA ReceivePrepareStep ==
  ASSUME TypeOK, NEW n \in Node, ReceivePrepare(n)
  PROVE  TypeOK' /\ Still
<1> USE DEF TypeOK
<1> DEFINE pool(m) == AddVote(preparePool[n], Vote(m.block, m.from))
<1>1. PICK m \in net[n] :
        /\ m.type = "Prepare"
        /\ \/ NoMessage(Received(n, m)) /\ UNCHANGED preparePool
           \/ /\ Relay(n, m, Received(n, m))
              /\ preparePool' = [preparePool EXCEPT ![n] =
                   IF RamOpt /\ PrepareIsOld(n, pool(m), m.block)
                     THEN Remove(pool(m), m.block) ELSE pool(m)]
  BY DEF ReceivePrepare
<1>2. m \in Messages /\ m \in VoteMessages /\ m \in OnTheWay
  BY <1>1, MessageInNet DEF Messages, TxMessages, BlockMessages
<1>3. WireType' /\ OnTheWay' \subseteq OnTheWay
  BY <1>1, <1>2, ReceivedType, RelayKeeps, NoMessageKeeps
<1>4. /\ UNCHANGED <<chainVars, roundVars, blockPool, blockPoolNV, commitPool, txVars>>
      /\ wake' = [wake EXCEPT ![n] = TRUE]
  BY DEF ReceivePrepare
<1>5. /\ pool(m) \in Pools(Block, Node)
      /\ Remove(pool(m), m.block) \in Pools(Block, Node)
  BY <1>2, AddVoteType, RemoveType DEF VoteMessages, PoolType
<1> HIDE DEF pool
<1>6. preparePool' \in [Node -> Pools(Block, Node)]
  BY <1>1, <1>5 DEF PoolType
<1>7. TypeOK'
  BY <1>3, <1>4, <1>6 DEF ChainType, RoundType, PoolType, TxType, chainVars, roundVars, txVars
<1>8. KnownBlocks' \subseteq KnownBlocks
  BY <1>3, <1>4, KnownKept, KnownWhere DEF chainVars, PoolType
<1> QED
  BY <1>3, <1>4, <1>7, <1>8 DEF Still, chainVars, roundVars

\* receiveCommitMessage, the pruning included.
LEMMA ReceiveCommitStep ==
  ASSUME TypeOK, NEW n \in Node, ReceiveCommit(n)
  PROVE  TypeOK' /\ Still
<1> USE DEF TypeOK
<1> DEFINE pool(m) == AddVote(commitPool[n], Vote(m.block, m.from))
<1>1. PICK m \in net[n] :
        /\ m.type = "Commit"
        /\ \/ NoMessage(Received(n, m)) /\ UNCHANGED commitPool
           \/ /\ Relay(n, m, Received(n, m))
              /\ commitPool' = [commitPool EXCEPT ![n] =
                   IF RamOpt /\ CommitIsOld(n, pool(m), m.block)
                     THEN Remove(pool(m), m.block) ELSE pool(m)]
  BY DEF ReceiveCommit
<1>2. m \in Messages /\ m \in VoteMessages /\ m \in OnTheWay
  BY <1>1, MessageInNet DEF Messages, TxMessages, BlockMessages
<1>3. WireType' /\ OnTheWay' \subseteq OnTheWay
  BY <1>1, <1>2, ReceivedType, RelayKeeps, NoMessageKeeps
<1>4. /\ UNCHANGED <<chainVars, roundVars, blockPool, blockPoolNV, preparePool, txVars>>
      /\ wake' = [wake EXCEPT ![n] = TRUE]
  BY DEF ReceiveCommit
<1>5. /\ pool(m) \in Pools(Block, Node)
      /\ Remove(pool(m), m.block) \in Pools(Block, Node)
  BY <1>2, AddVoteType, RemoveType DEF VoteMessages, PoolType
<1> HIDE DEF pool
<1>6. commitPool' \in [Node -> Pools(Block, Node)]
  BY <1>1, <1>5 DEF PoolType
<1>7. TypeOK'
  BY <1>3, <1>4, <1>6 DEF ChainType, RoundType, PoolType, TxType, chainVars, roundVars, txVars
<1>8. KnownBlocks' \subseteq KnownBlocks
  BY <1>3, <1>4, KnownKept, KnownWhere DEF chainVars, PoolType
<1> QED
  BY <1>3, <1>4, <1>7, <1>8 DEF Still, chainVars, roundVars

\* receiveBlockMsg.
LEMMA ReceiveBlockMsgStep ==
  ASSUME TypeOK, NEW n \in Node, ReceiveBlockMsg(n)
  PROVE  TypeOK' /\ Still
<1> USE DEF TypeOK
<1>1. PICK m \in net[n] :
        /\ m.type = "BlocMsg"
        /\ NoMessage(Received(n, m))
        /\ blockPoolNV' = [blockPoolNV EXCEPT ![n] = @ \cup {m.block}]
  BY DEF ReceiveBlockMsg
<1>2. m \in BlockMessages /\ m \in OnTheWay
  BY <1>1, MessageInNet DEF Messages, TxMessages, VoteMessages
<1>3. WireType' /\ OnTheWay' \subseteq OnTheWay
  BY <1>1, ReceivedType, NoMessageKeeps
<1>4. /\ UNCHANGED <<chainVars, roundVars, blockPool, preparePool, commitPool, txVars>>
      /\ wake' = [wake EXCEPT ![n] = TRUE]
  BY DEF ReceiveBlockMsg
<1>5. m.block \in Block /\ m.block \in KnownBlocks
  BY <1>1, <1>2, KnownWhere DEF BlockMessages
<1>6. /\ blockPoolNV' \in [Node -> SUBSET Block]
      /\ \A k \in Node : blockPoolNV'[k] \subseteq blockPoolNV[k] \cup {m.block}
  BY <1>1, <1>5 DEF PoolType
<1>7. TypeOK'
  BY <1>3, <1>4, <1>6 DEF ChainType, RoundType, PoolType, TxType, chainVars, roundVars, txVars
<1>8. KnownBlocks' \subseteq KnownBlocks
  <2>1. \A k \in Node : blockPool'[k] \cup blockPoolNV'[k] \subseteq KnownBlocks
    BY <1>4, <1>5, <1>6, KnownWhere
  <2> QED
    BY <1>3, <1>4, <2>1, KnownKept DEF chainVars
<1> QED
  BY <1>3, <1>4, <1>7, <1>8 DEF Still, chainVars, roundVars

\* broadcastMessage at one socket.
LEMMA FanOutStep ==
  ASSUME TypeOK, NEW n \in Node, FanOut(n)
  PROVE  TypeOK' /\ Still
<1> USE DEF TypeOK
<1>1. PICK p \in outbox[n] :
        /\ p.to # TheProposer
        /\ outbox' = [outbox EXCEPT ![n] = @ \ {p}]
        /\ net' = IF SendsTo(n, p) THEN Deliver(net, {p.to}, p.msg) ELSE net
  BY DEF FanOut
<1>2. p.msg \in Messages /\ p.msg \in OnTheWay
  BY DEF WireType, OnTheWay
<1>3. net \in Channels
  BY DEF WireType, Channels
<1>4. net' \in Channels /\ In(net') \subseteq OnTheWay
  BY <1>1, <1>2, <1>3, DeliverType, NetOnTheWay
<1>5. /\ outbox' \in [Node -> SUBSET [msg : Messages, to : Node \cup {TheProposer}]]
      /\ \A k \in Node : outbox'[k] \subseteq outbox[k]
  BY <1>1 DEF WireType
<1>6. OnTheWay' \subseteq OnTheWay
  BY <1>4, <1>5 DEF OnTheWay, In
<1>7. UNCHANGED <<chainVars, roundVars, poolVars, txVars, wake>>
  BY DEF FanOut
<1>8. TypeOK'
  BY <1>4, <1>5, <1>7
     DEF ChainType, RoundType, PoolType, TxType, WireType, Channels,
         chainVars, roundVars, poolVars, txVars
<1>9. KnownBlocks' \subseteq KnownBlocks
  BY <1>6, <1>7, KnownKept, KnownWhere DEF chainVars, poolVars, PoolType
<1> QED
  BY <1>6, <1>7, <1>8, <1>9 DEF Still, chainVars, roundVars, poolVars

\* transmitTransaction.
LEMMA FanOutTransactionStep ==
  ASSUME TypeOK, NEW n \in Node, FanOutTransaction(n)
  PROVE  TypeOK' /\ Still
<1> USE DEF TypeOK
<1>1. PICK p \in outbox[n] :
        \/ /\ outbox' = [outbox EXCEPT ![n] = {}]
           /\ net' = Deliver(net, {proposer[n]}, p.msg)
        \/ /\ outbox' = [outbox EXCEPT ![n] = [msg : {p.msg}, to : Peers[n]]]
           /\ UNCHANGED net
        \/ /\ outbox' = [outbox EXCEPT ![n] = {}]
           /\ net' = Deliver(net, Peers[n], p.msg)
  BY DEF FanOutTransaction
<1>2. p.msg \in Messages /\ p.msg \in OnTheWay
  BY DEF WireType, OnTheWay
<1>3. net \in Channels
  BY DEF WireType, Channels
<1>4. net' \in Channels /\ In(net') \subseteq OnTheWay
  BY <1>1, <1>2, <1>3, DeliverType, NetOnTheWay
<1>5. [msg : {p.msg}, to : Peers[n]] \in SUBSET [msg : Messages, to : Node \cup {TheProposer}]
  BY <1>2, PeersAreNodes
<1>6. /\ outbox' \in [Node -> SUBSET [msg : Messages, to : Node \cup {TheProposer}]]
      /\ \A k \in Node : \A q \in outbox'[k] : q \in outbox[k] \/ q.msg = p.msg
  <2>1. PICK entries : /\ entries \in {{}, [msg : {p.msg}, to : Peers[n]]}
                       /\ outbox' = [outbox EXCEPT ![n] = entries]
    BY <1>1
  <2>2. /\ entries \in SUBSET [msg : Messages, to : Node \cup {TheProposer}]
        /\ \A q \in entries : q.msg = p.msg
    BY <1>5, <2>1
  <2> QED
    BY <2>1, <2>2 DEF WireType
<1>7. OnTheWay' \subseteq OnTheWay
  BY <1>2, <1>4, <1>6 DEF OnTheWay, In
<1>8. UNCHANGED <<chainVars, roundVars, poolVars, txVars, wake>>
  BY DEF FanOutTransaction
<1>9. TypeOK'
  BY <1>4, <1>6, <1>8
     DEF ChainType, RoundType, PoolType, TxType, WireType, Channels,
         chainVars, roundVars, poolVars, txVars
<1>10. KnownBlocks' \subseteq KnownBlocks
  BY <1>7, <1>8, KnownKept, KnownWhere DEF chainVars, poolVars, PoolType
<1> QED
  BY <1>7, <1>8, <1>9, <1>10 DEF Still, chainVars, roundVars, poolVars

\* A message of chanUpdateStatus is taken or not.
LEMMA TakeMessageType ==
  ASSUME RoundType, NEW n \in Node, TakeMessage(n)
  PROVE  wake' \in [Node -> BOOLEAN]
BY DEF TakeMessage, RoundType

\* Counting votes keeps the shape of the pools.
LEMMA ConfirmedType ==
  ASSUME TypeOK, NEW n \in Node
  PROVE  /\ ConfirmedPrepares(n) \in Pools(Block, Node)
         /\ ConfirmedCommits(n) \in Pools(Block, Node)
<1>1. preparePool[n] \in Pools(Block, Node) /\ commitPool[n] \in Pools(Block, Node)
  BY DEF TypeOK, PoolType
<1> QED
  BY <1>1, ConfirmType DEF ConfirmedPrepares, ConfirmedCommits

\* updateStatusWithMsg returns.
LEMMA EndUpdateStep ==
  ASSUME TypeOK, NEW n \in Node, EndUpdate(n)
  PROVE  TypeOK' /\ Still
<1> USE DEF TypeOK
<1>1. /\ TakeMessage(n)
      /\ updating' = [updating EXCEPT ![n] = FALSE]
      /\ preparePool' = [preparePool EXCEPT ![n] = ConfirmedPrepares(n)]
      /\ commitPool' = [commitPool EXCEPT ![n] = ConfirmedCommits(n)]
      /\ UNCHANGED <<chainVars, state, current, blockPool, blockPoolNV, txVars, net, outbox>>
  BY DEF EndUpdate
<1>2. wake' \in [Node -> BOOLEAN] /\ updating' \in [Node -> BOOLEAN]
  BY <1>1, TakeMessageType DEF RoundType
<1>3. PoolType'
  BY <1>1, ConfirmedType DEF PoolType
<1>4. TypeOK'
  BY <1>1, <1>2, <1>3 DEF ChainType, RoundType, TxType, WireType, chainVars, txVars
<1>5. KnownBlocks' = KnownBlocks /\ OnTheWay' = OnTheWay
  BY <1>1 DEF KnownBlocks, OnTheWay, HeldBlocks, chainVars
<1> QED
  BY <1>1, <1>4, <1>5 DEF Still, chainVars

-----------------------------------------------------------------------------
(***************************************************************************)
(* The steps of a round, as the invariant sees them.                       *)
(***************************************************************************)
\* n votes for b, which it holds and which fits its chain.
Voting(n, b) ==
  /\ UNCHANGED <<chain, active, proposer, blockPool>>
  /\ \/ /\ Prepare(n)
        /\ state[n] = "NewRound"
        /\ state' = [state EXCEPT ![n] = "Prepared"]
        /\ OnTheWay' \subseteq OnTheWay \cup {VoteMessage("Prepare", b, n)}
     \/ /\ Commit(n)
        /\ state[n] = "Prepared"
        /\ current[n] = b
        /\ EnoughPrepares(n)
        /\ state' = [state EXCEPT ![n] = "Committed"]
        /\ OnTheWay' \subseteq OnTheWay \cup {VoteMessage("Commit", b, n)}
  /\ current' = [current EXCEPT ![n] = b]
  /\ b \in blockPool[n]
  /\ IsValidNewBlock(n, b)
  /\ KnownBlocks' \subseteq KnownBlocks

\* What the feedback control sends.
Ordered == {m \in TxMessages : m.tx \in ControlTx}

\* n makes b.
Proposing(n, b) ==
  /\ Propose(n)
  /\ state[n] = "NewRoundProposer"
  /\ UNCHANGED <<chain, active, proposer>>
  /\ state' = [state EXCEPT ![n] = "NewRound"]
  /\ current' = [current EXCEPT ![n] = b]
  /\ \A k \in Node : blockPool[k] \subseteq blockPool'[k]
  /\ b \in Block
  /\ lastHash[b] = Tip(n)
  /\ seqNb[b] = CurrentSeqNb(n) + 1
  /\ proposerOf[b] = n
  /\ transactions[b] \in TxForBloc(n, txPool'[n])
  /\ KnownBlocks' \subseteq KnownBlocks \cup {b}
  /\ OnTheWay' \subseteq OnTheWay \cup TxMessages \cup {BlockMessage("PrePrepare", b)}
  /\ OnTheWay' \subseteq OnTheWay \cup Ordered \cup {BlockMessage("PrePrepare", b)}

\* n executes b.
Executing(n, b) ==
  /\ \/ Finalize(n) /\ state[n] = "Committed" /\ current[n] = b /\ EnoughCommits(n)
     \/ AppendNV(n) /\ state[n] = "NVRound" /\ b \in blockPoolNV[n]
  /\ b \in KnownBlocks
  /\ IsValidNewBlock(n, b)
  /\ chain' = [chain EXCEPT ![n] = Append(@, b)]
  /\ active' = [active EXCEPT ![n] = ActiveAfter(@, b)]
  /\ proposer' = [proposer EXCEPT ![n] = NextProposer(n, b)]
  /\ state' = [state EXCEPT ![n] =
       StateAfterCommit(n, ActiveAfter(active[n], b), NextProposer(n, b))]
  /\ \A k \in Node \ {n} : current'[k] = current[k] /\ blockPool'[k] = blockPool[k]
  /\ KnownBlocks' \subseteq KnownBlocks
  /\ OnTheWay' \subseteq OnTheWay \cup {BlockMessage("BlocMsg", b)}

\* What Continue leaves.
LEMMA ContinueType ==
  ASSUME RoundType, NEW n \in Node, NEW next \in States, Continue(n, next)
  PROVE  /\ state' = [state EXCEPT ![n] = next]
         /\ state' \in [Node -> States]
         /\ wake' \in [Node -> BOOLEAN]
         /\ updating' \in [Node -> BOOLEAN]
BY TakeMessageType DEF Continue, RoundType

\* NewRound.update.
LEMMA PrepareStep ==
  ASSUME TypeOK, NEW n \in Node, Prepare(n)
  PROVE  TypeOK' /\ \E b \in Block : Voting(n, b)
<1> USE DEF TypeOK
<1>1. PICK b \in ValidBlocks(n) :
        /\ current' = [current EXCEPT ![n] = b]
        /\ preparePool' = [preparePool EXCEPT ![n] = AddVote(@, Vote(b, n))]
        /\ BroadcastMessage(n, VoteMessage("Prepare", b, n), net)
  BY DEF Prepare
<1>2. /\ UNCHANGED <<chainVars, blockPool, blockPoolNV, commitPool, txVars>>
      /\ Continue(n, "Prepared")
  BY DEF Prepare
<1>3. b \in Block /\ b \in blockPool[n] /\ IsValidNewBlock(n, b)
  BY DEF ValidBlocks, PoolType
<1>4. /\ VoteMessage("Prepare", b, n) \in Messages
      /\ VoteMessage("Prepare", b, n) \in VoteMessages
  BY <1>3 DEF VoteMessage, VoteMessages, Messages
<1>5. net \in Channels
  BY DEF WireType, Channels
<1>6. WireType' /\ OnTheWay' \subseteq OnTheWay \cup {VoteMessage("Prepare", b, n)}
  BY <1>1, <1>4, <1>5, BroadcastKeeps, NetOnTheWay
<1>7. PoolType'
  <2>1. AddVote(preparePool[n], Vote(b, n)) \in Pools(Block, Node)
    BY <1>3, AddVoteType DEF PoolType
  <2> QED
    BY <1>1, <1>2, <2>1 DEF PoolType
<1>8. RoundType' /\ state' = [state EXCEPT ![n] = "Prepared"]
  <2>1. "Prepared" \in States
    BY DEF States
  <2> QED
    BY <1>1, <1>2, <1>3, <2>1, ContinueType DEF RoundType
<1>9. TypeOK'
  BY <1>2, <1>6, <1>7, <1>8 DEF ChainType, TxType, chainVars, txVars
<1>10. KnownBlocks' \subseteq KnownBlocks
  BY <1>2, <1>4, <1>6, KnownKept, KnownWhere DEF chainVars, PoolType
<1>11. state[n] = "NewRound"
  BY DEF Prepare
<1> QED
  BY <1>1, <1>2, <1>3, <1>6, <1>8, <1>9, <1>10, <1>11 DEF Voting, chainVars

\* Prepared.update.
LEMMA CommitStep ==
  ASSUME TypeOK, BlockAtHand, NEW n \in Node, Commit(n)
  PROVE  TypeOK' /\ Voting(n, current[n])
<1> USE DEF TypeOK
<1> DEFINE b == current[n]
           nbVal == Cardinality(active[n])
<1>1. /\ state[n] = "Prepared"
      /\ EnoughPrepares(n)
      /\ preparePool' = [preparePool EXCEPT ![n] = Validate(ConfirmedPrepares(n), b, nbVal)]
      /\ commitPool' = [commitPool EXCEPT ![n] = AddVote(@, Vote(b, n))]
      /\ BroadcastMessage(n, VoteMessage("Commit", b, n), net)
      /\ Continue(n, "Committed")
      /\ UNCHANGED <<chainVars, current, blockPool, blockPoolNV, txVars>>
  BY DEF Commit
<1>2. b \in Block /\ b \in blockPool[n] /\ IsValidNewBlock(n, b)
  BY <1>1 DEF BlockAtHand, RoundType
<1> HIDE DEF b
<1>3. /\ VoteMessage("Commit", b, n) \in Messages
      /\ VoteMessage("Commit", b, n) \in VoteMessages
  BY <1>2 DEF VoteMessage, VoteMessages, Messages
<1>4. net \in Channels
  BY DEF WireType, Channels
<1>5. WireType' /\ OnTheWay' \subseteq OnTheWay \cup {VoteMessage("Commit", b, n)}
  BY <1>1, <1>3, <1>4, BroadcastKeeps, NetOnTheWay
<1>6. nbVal \in Nat
  BY ActiveSetFinite DEF ChainType
<1> HIDE DEF nbVal
<1>7. PoolType'
  <2>1. AddVote(commitPool[n], Vote(b, n)) \in Pools(Block, Node)
    BY <1>2, AddVoteType DEF PoolType
  <2>2. Validate(ConfirmedPrepares(n), b, nbVal) \in Pools(Block, Node)
    BY <1>2, <1>6, ConfirmedType, ValidateType
  <2> QED
    BY <1>1, <2>1, <2>2 DEF PoolType
<1>8. RoundType' /\ state' = [state EXCEPT ![n] = "Committed"]
  <2>1. "Committed" \in States
    BY DEF States
  <2> QED
    BY <1>1, <2>1, ContinueType DEF RoundType
<1>9. TypeOK'
  BY <1>1, <1>5, <1>7, <1>8 DEF ChainType, TxType, chainVars, txVars
<1>10. KnownBlocks' \subseteq KnownBlocks
  BY <1>1, <1>3, <1>5, KnownKept, KnownWhere DEF chainVars, PoolType
<1>11. current' = [current EXCEPT ![n] = b]
  BY <1>1 DEF b, RoundType
<1> QED
  BY <1>1, <1>2, <1>5, <1>8, <1>9, <1>10, <1>11 DEF Voting, chainVars, b

\* updateStateAfterCommit leads to a state of the program.
LEMMA StateAfterCommitType ==
  ASSUME NEW n, NEW validators, NEW prop
  PROVE  StateAfterCommit(n, validators, prop) \in States
BY DEF StateAfterCommit, States

\* AddUpdatedBlock, by whichever state.
LEMMA AddUpdatedBlockType ==
  ASSUME TypeOK, NEW n \in Node, NEW b \in Block, AddUpdatedBlock(n, b)
  PROVE  /\ ChainType'
         /\ txPool' \in [Node -> SUBSET Tx]
         /\ state' \in [Node -> States]
         /\ wake' \in [Node -> BOOLEAN]
         /\ updating' \in [Node -> BOOLEAN]
         /\ state' = [state EXCEPT ![n] =
              StateAfterCommit(n, ActiveAfter(active[n], b), NextProposer(n, b))]
<1> USE DEF TypeOK
<1> DEFINE validators == ActiveAfter(active[n], b)
           next == StateAfterCommit(n, validators, NextProposer(n, b))
<1>1. validators \in (SUBSET Node) \ {{}}
  BY ActiveAfterType DEF ChainType
<1>2. NextProposer(n, b) \in Node
  BY <1>1, ProposerIsActive DEF NextProposer
<1>3. /\ chain' = [chain EXCEPT ![n] = Append(@, b)]
      /\ active' = [active EXCEPT ![n] = validators]
      /\ proposer' = [proposer EXCEPT ![n] = NextProposer(n, b)]
      /\ txPool' = [txPool EXCEPT ![n] = Flushed(n, b)]
      /\ Continue(n, next)
  BY DEF AddUpdatedBlock, ChainType
<1>4. next \in States
  BY StateAfterCommitType
<1> HIDE DEF validators
<1>5. chain' \in [Node -> Seq(Block)] /\ \A k \in Node : chain'[k] # <<>>
  <2> DEFINE longer == Append(chain[n], b)
  <2>1. chain[n] \in Seq(Block)
    BY DEF ChainType
  <2>2. longer \in Seq(Block) /\ longer # <<>>
    BY <2>1
  <2>3. chain' = [chain EXCEPT ![n] = longer]
    BY <1>3
  <2> HIDE DEF longer
  <2> QED
    BY <2>2, <2>3 DEF ChainType
<1>6. ChainType'
  BY <1>1, <1>2, <1>3, <1>5 DEF ChainType
<1>7. Flushed(n, b) \in SUBSET Tx
  BY DEF Flushed, TxType
<1>8. txPool' \in [Node -> SUBSET Tx]
  BY <1>3, <1>7 DEF TxType
<1> QED
  BY <1>3, <1>4, <1>6, <1>8, ContinueType DEF validators

\* A step that extends one chain by a known block, pools only known blocks
\* and sends at most that block makes no block known.
LEMMA KnownKeptByExecution ==
  ASSUME TypeOK, NEW n \in Node, NEW b \in KnownBlocks,
         chain' = [chain EXCEPT ![n] = Append(@, b)],
         \A k \in Node : /\ blockPool'[k] \subseteq blockPool[k]
                         /\ blockPoolNV'[k] \subseteq blockPoolNV[k],
         \A m \in CarryingBlock(OnTheWay') : m \in OnTheWay \/ m.block = b
  PROVE  KnownBlocks' \subseteq KnownBlocks
<1> SUFFICES ASSUME NEW c \in KnownBlocks' PROVE c \in KnownBlocks
  OBVIOUS
<1>1. CASE \E k \in Node : c \in HeldBlocks(k)'
  <2>1. PICK k \in Node : c \in HeldBlocks(k)'
    BY <1>1
  <2>2. c \in blockPool'[k] \cup blockPoolNV'[k] \/ \E i \in DOMAIN chain'[k] : c = chain'[k][i]
    BY <2>1 DEF HeldBlocks
  <2>3. ASSUME NEW i \in DOMAIN chain'[k]
        PROVE  chain'[k][i] = b \/ (i \in DOMAIN chain[k] /\ chain'[k][i] = chain[k][i])
    <3>1. chain[k] \in Seq(Block) /\ b \in Block
      BY KnownAreBlocks DEF TypeOK, ChainType
    <3>2. CASE k = n
      <4>1. chain'[k] = Append(chain[k], b)
        BY <3>2 DEF TypeOK, ChainType
      <4> QED
        BY <3>1, <4>1
    <3>3. CASE k # n
      BY <3>3 DEF TypeOK, ChainType
    <3> QED
      BY <3>2, <3>3
  <2> QED
    BY <2>2, <2>3, KnownWhere
<1>2. CASE \E m \in CarryingBlock(OnTheWay') : m.block = c
  BY <1>2, KnownWhere DEF CarryingBlock
<1>3. \/ \E k \in Node : c \in HeldBlocks(k)'
      \/ \E m \in CarryingBlock(OnTheWay') : m.block = c
  BY DEF KnownBlocks
<1> QED
  BY <1>1, <1>2, <1>3

\* Committed.update.
LEMMA FinalizeStep ==
  ASSUME TypeOK, BlockAtHand, NEW n \in Node, Finalize(n)
  PROVE  TypeOK' /\ Executing(n, current[n])
<1> USE DEF TypeOK
<1> DEFINE b == current[n]
           nbVal == Cardinality(active[n])
           block == BlockMessage("BlocMsg", b)
<1>1. /\ state[n] = "Committed"
      /\ EnoughCommits(n)
      /\ commitPool' = [commitPool EXCEPT ![n] = Validate(ConfirmedCommits(n), b, nbVal)]
      /\ net' \in {net, Deliver(net, Peers[n] \ active[n], block)}
      /\ AddUpdatedBlock(n, b)
      /\ blockPool' = [blockPool EXCEPT ![n] = IF RamOpt THEN @ \ {b} ELSE @]
      /\ UNCHANGED <<current, blockPoolNV, preparePool, doomed, txInHand, outbox>>
  BY DEF Finalize
<1>2. b \in Block /\ b \in blockPool[n] /\ IsValidNewBlock(n, b)
  BY <1>1 DEF BlockAtHand, RoundType
<1> HIDE DEF b
<1>3. b \in KnownBlocks
  BY <1>2, KnownWhere
<1>4. block \in Messages /\ block.block = b
  BY <1>2 DEF BlockMessage, Messages, BlockMessages
<1> HIDE DEF block
<1>5. net \in Channels
  BY DEF WireType, Channels
<1>6. net' \in Channels /\ In(net') \subseteq OnTheWay \cup {block}
  BY <1>1, <1>4, <1>5, DeliverType, NetOnTheWay
<1>7. WireType' /\ OnTheWay' \subseteq OnTheWay \cup {block}
  BY <1>1, <1>6 DEF WireType, Channels, OnTheWay, In
<1>8. /\ ChainType'
      /\ txPool' \in [Node -> SUBSET Tx]
      /\ state' \in [Node -> States]
      /\ wake' \in [Node -> BOOLEAN]
      /\ updating' \in [Node -> BOOLEAN]
      /\ state' = [state EXCEPT ![n] =
           StateAfterCommit(n, ActiveAfter(active[n], b), NextProposer(n, b))]
  BY <1>1, <1>2, AddUpdatedBlockType
<1>9. nbVal \in Nat
  BY ActiveSetFinite DEF ChainType
<1> HIDE DEF nbVal
<1>10. PoolType'
  <2>1. Validate(ConfirmedCommits(n), b, nbVal) \in Pools(Block, Node)
    BY <1>2, <1>9, ConfirmedType, ValidateType
  <2> QED
    BY <1>1, <2>1 DEF PoolType
<1>11. TypeOK'
  BY <1>1, <1>7, <1>8, <1>10 DEF RoundType, TxType
<1>12. KnownBlocks' \subseteq KnownBlocks
  <2>1. \A k \in Node : /\ blockPool'[k] \subseteq blockPool[k]
                        /\ blockPoolNV'[k] \subseteq blockPoolNV[k]
    BY <1>1 DEF PoolType
  <2>2. \A m \in CarryingBlock(OnTheWay') : m \in OnTheWay \/ m.block = b
    BY <1>4, <1>7 DEF CarryingBlock
  <2>3. chain' = [chain EXCEPT ![n] = Append(@, b)]
    BY <1>1 DEF AddUpdatedBlock
  <2> QED
    BY <1>3, <2>1, <2>2, <2>3, KnownKeptByExecution
<1> QED
  BY <1>1, <1>2, <1>3, <1>7, <1>8, <1>11, <1>12
     DEF Executing, AddUpdatedBlock, PoolType, b, block

\* NewRoundNV.update.
LEMMA AppendNVStep ==
  ASSUME TypeOK, NEW n \in Node, AppendNV(n)
  PROVE  TypeOK' /\ \E b \in Block : Executing(n, b)
<1> USE DEF TypeOK
<1>1. PICK b \in ValidBlocksNV(n) :
        /\ current' = [current EXCEPT ![n] = b]
        /\ AddUpdatedBlock(n, b)
        /\ blockPoolNV' = [blockPoolNV EXCEPT ![n] = IF RamOpt THEN @ \ {b} ELSE @]
  BY DEF AppendNV
<1>2. UNCHANGED <<blockPool, preparePool, commitPool, doomed, txInHand, net, outbox>>
  BY DEF AppendNV
<1>3. b \in Block /\ IsValidNewBlock(n, b) /\ b \in KnownBlocks
  BY KnownWhere DEF ValidBlocksNV, PoolType
<1>4. /\ ChainType'
      /\ txPool' \in [Node -> SUBSET Tx]
      /\ state' \in [Node -> States]
      /\ wake' \in [Node -> BOOLEAN]
      /\ updating' \in [Node -> BOOLEAN]
      /\ state' = [state EXCEPT ![n] =
           StateAfterCommit(n, ActiveAfter(active[n], b), NextProposer(n, b))]
  BY <1>1, <1>3, AddUpdatedBlockType
<1>5. RoundType' /\ PoolType' /\ TxType' /\ WireType'
  BY <1>1, <1>2, <1>3, <1>4 DEF RoundType, PoolType, TxType, WireType
<1>6. KnownBlocks' \subseteq KnownBlocks
  <2>1. \A k \in Node : /\ blockPool'[k] \subseteq blockPool[k]
                        /\ blockPoolNV'[k] \subseteq blockPoolNV[k]
    BY <1>1, <1>2 DEF PoolType
  <2>2. \A m \in CarryingBlock(OnTheWay') : m \in OnTheWay \/ m.block = b
    BY <1>2 DEF CarryingBlock, OnTheWay
  <2>3. chain' = [chain EXCEPT ![n] = Append(@, b)]
    BY <1>1 DEF AddUpdatedBlock
  <2> QED
    BY <1>3, <2>1, <2>2, <2>3, KnownKeptByExecution
<1>7. OnTheWay' = OnTheWay
  BY <1>2 DEF OnTheWay
<1>8. state[n] = "NVRound" /\ b \in blockPoolNV[n]
  BY DEF AppendNV, ValidBlocksNV
<1> QED
  BY <1>1, <1>2, <1>3, <1>4, <1>5, <1>6, <1>7, <1>8
     DEF Executing, AddUpdatedBlock, RoundType

\* What a proposer puts in a block, and what it leaves to be removed.
LEMMA TxForBlocType ==
  ASSUME NEW n \in Node, NEW pool \in SUBSET Tx, NEW txs \in TxForBloc(n, pool)
  PROVE  /\ txs \in SUBSET Tx
         /\ Doomed(n, pool, txs) \subseteq SUBSET Command
BY DEF TxForBloc, Oldest, ValidCommands, Doomed, InvalidCommands

\* NewRoundProposer.update, with the order of the feedback control.
LEMMA ProposeStep ==
  ASSUME TypeOK, NEW n \in Node, Propose(n)
  PROVE  TypeOK' /\ \E b \in Block : Proposing(n, b)
<1> USE DEF TypeOK
<1> DEFINE order(c) == TxMessage(c, "DontBroadcast", FALSE)
           told(o) == IF o = {} THEN net
                      ELSE Deliver(net, {d \in Peers[n] : PoANV => d \in active[n]},
                                   order(CHOOSE c \in o : TRUE))
<1> DEFINE update(o, txs, D, b) ==
             /\ txPool' = [txPool EXCEPT ![n] = PoolWith(n, o)]
             /\ doomed' = [doomed EXCEPT ![n] = @ \cup D]
             /\ current' = [current EXCEPT ![n] = b]
             /\ blockPool' = [blockPool EXCEPT ![n] = @ \cup {b}]
             /\ BroadcastMessage(n, BlockMessage("PrePrepare", b), told(o))
<1>1. \E o \in Orders(n) : \E txs \in TxForBloc(n, PoolWith(n, o)) :
        \E D \in Doomed(n, PoolWith(n, o), txs) : \E b \in NewBlocks(n, txs) :
          update(o, txs, D, b)
  BY DEF Propose
<1> PICK o \in Orders(n) : \E txs \in TxForBloc(n, PoolWith(n, o)) :
           \E D \in Doomed(n, PoolWith(n, o), txs) : \E b \in NewBlocks(n, txs) :
             update(o, txs, D, b)
  BY <1>1
<1> PICK txs \in TxForBloc(n, PoolWith(n, o)) :
           \E D \in Doomed(n, PoolWith(n, o), txs) : \E b \in NewBlocks(n, txs) :
             update(o, txs, D, b)
  OBVIOUS
<1> PICK D \in Doomed(n, PoolWith(n, o), txs) : \E b \in NewBlocks(n, txs) :
             update(o, txs, D, b)
  OBVIOUS
<1> PICK b \in NewBlocks(n, txs) : update(o, txs, D, b)
  OBVIOUS
<1>2. /\ state[n] = "NewRoundProposer"
      /\ Continue(n, "NewRound")
      /\ UNCHANGED <<chainVars, blockPoolNV, preparePool, commitPool, txInHand>>
  BY DEF Propose, StateAfterProposal
<1>3. /\ b \in Block
      /\ lastHash[b] = Tip(n)
      /\ seqNb[b] = CurrentSeqNb(n) + 1
      /\ proposerOf[b] = n
      /\ transactions[b] = txs
  BY DEF NewBlocks
<1>4. o # {} => (CHOOSE c \in o : TRUE) \in Tx \cap ControlTx
  BY ConsensusAssumption DEF Orders
<1>5. PoolWith(n, o) \in SUBSET Tx
  BY <1>4, AddedType DEF PoolWith, TxType
<1>6. D \in SUBSET Command
  BY <1>5, TxForBlocType
<1>7. TxType'
  BY <1>1, <1>2, <1>5, <1>6 DEF TxType
<1>8. net \in Channels
  BY DEF WireType, Channels
<1>9. told(o) \in Channels /\ In(told(o)) \subseteq OnTheWay \cup Ordered
  <2>1. CASE o = {}
    BY <1>8, <2>1, NetOnTheWay
  <2>2. CASE o # {}
    <3> DEFINE m == order(CHOOSE c \in o : TRUE)
    <3>1. m \in Messages /\ m \in Ordered
      BY <1>4, <2>2 DEF TxMessage, TxMessages, Messages, BroadcastTypes, Ordered
    <3> HIDE DEF order
    <3>2. told(o) = Deliver(net, {d \in Peers[n] : PoANV => d \in active[n]}, m)
      BY <2>2
    <3> HIDE DEF m, told
    <3> QED
      BY <1>8, <3>1, <3>2, DeliverType, NetOnTheWay
  <2> QED
    BY <2>1, <2>2
<1> HIDE DEF told
<1> DEFINE block == BlockMessage("PrePrepare", b)
<1>10. block \in Messages /\ block.block = b
  BY <1>3 DEF BlockMessage, Messages, BlockMessages
<1> HIDE DEF block
<1>11. /\ WireType'
       /\ OnTheWay' \subseteq OnTheWay \cup Ordered \cup {block}
       /\ OnTheWay' \subseteq OnTheWay \cup TxMessages \cup {block}
  <2>1. WireType' /\ OnTheWay' \subseteq OnTheWay \cup Ordered \cup {block}
    BY <1>1, <1>9, <1>10, BroadcastKeeps DEF block
  <2> QED
    BY <2>1 DEF Ordered
<1>12. /\ blockPool' \in [Node -> SUBSET Block]
       /\ \A k \in Node : /\ blockPool[k] \subseteq blockPool'[k]
                          /\ blockPool'[k] \subseteq blockPool[k] \cup {b}
  BY <1>1, <1>3 DEF PoolType
<1>13. RoundType' /\ state' = [state EXCEPT ![n] = "NewRound"]
  <2>1. "NewRound" \in States
    BY DEF States
  <2> QED
    BY <1>1, <1>2, <1>3, <2>1, ContinueType DEF RoundType
<1>14. TypeOK'
  BY <1>2, <1>7, <1>11, <1>12, <1>13 DEF ChainType, PoolType, chainVars
<1>16. txPool'[n] = PoolWith(n, o)
  BY <1>1 DEF TxType
<1>15. KnownBlocks' \subseteq KnownBlocks \cup {b}
  <2> SUFFICES ASSUME NEW c \in KnownBlocks' PROVE c \in KnownBlocks \cup {b}
    OBVIOUS
  <2>1. CASE \E k \in Node : c \in HeldBlocks(k)'
    <3>1. PICK k \in Node : c \in HeldBlocks(k)'
      BY <2>1
    <3>2. c \in blockPool'[k] \cup blockPoolNV[k] \cup {chain[k][i] : i \in DOMAIN chain[k]}
      BY <1>2, <3>1 DEF HeldBlocks, chainVars
    <3> QED
      BY <1>12, <3>2, KnownWhere
  <2>2. CASE \E m \in CarryingBlock(OnTheWay') : m.block = c
    BY <1>10, <1>11, <2>2, KnownWhere DEF CarryingBlock, TxMessages
  <2>3. \/ \E k \in Node : c \in HeldBlocks(k)'
        \/ \E m \in CarryingBlock(OnTheWay') : m.block = c
    BY DEF KnownBlocks
  <2> QED
    BY <2>1, <2>2, <2>3
<1> QED
  BY ZenonT(30), <1>1, <1>2, <1>3, <1>11, <1>12, <1>13, <1>14, <1>15, <1>16
  DEF Proposing, chainVars, block

-----------------------------------------------------------------------------
(***************************************************************************)
(* The inductive invariant.                                                *)
(***************************************************************************)
\* A chain has as many blocks as its last block says, and its blocks are known.
LEMMA ChainShape ==
  ASSUME TypeOK, Linked, NEW n \in Node
  PROVE  /\ chain[n] \in Seq(Block)
         /\ Len(chain[n]) \in Nat \ {0}
         /\ DOMAIN chain[n] = 1..Len(chain[n])
         /\ Tip(n) \in Block /\ Tip(n) \in KnownBlocks
         /\ CurrentSeqNb(n) = Len(chain[n]) - 1
         /\ \A i \in DOMAIN chain[n] : chain[n][i] = Tip(n) => i = Len(chain[n])
<1>1. chain[n] \in Seq(Block) /\ chain[n] # <<>>
  BY DEF TypeOK, ChainType
<1>2. /\ Len(chain[n]) \in Nat \ {0}
      /\ DOMAIN chain[n] = 1..Len(chain[n])
      /\ Len(chain[n]) \in DOMAIN chain[n]
  BY <1>1
<1>3. Tip(n) \in Block /\ Tip(n) \in KnownBlocks
  BY <1>1, <1>2, KnownWhere DEF Tip
<1>4. \A i \in 1..Len(chain[n]) : seqNb[chain[n][i]] = i - 1
  BY DEF Linked
<1>5. CurrentSeqNb(n) = Len(chain[n]) - 1
  BY <1>2, <1>4 DEF CurrentSeqNb, Tip
<1>6. ASSUME NEW i \in DOMAIN chain[n], chain[n][i] = Tip(n)
      PROVE  i = Len(chain[n])
  BY <1>2, <1>4, <1>5, <1>6 DEF CurrentSeqNb
<1> QED
  BY <1>1, <1>2, <1>3, <1>5, <1>6

\* At the start every chain is Genesis, and no other block is known.
LEMMA InitInv == Init => IInv
<1> SUFFICES ASSUME Init PROVE IInv
  OBVIOUS
<1> USE DEF Init
<1>1. Node \in (SUBSET Node) \ {{}}
  <2>1. Cardinality({}) = 0
    BY FS_EmptySet
  <2>2. Cardinality(Node) # 0
    <3>1. MinValidators \in Nat \ {0} /\ MinValidators <= Cardinality(Node)
      BY ValidatorsAssumption
    <3>2. Cardinality(Node) \in Nat
      BY ValidatorsAssumption, FS_CardinalityType
    <3> QED
      BY <3>1, <3>2
  <2>3. Node # {}
    BY <2>1, <2>2
  <2> QED
    BY <2>3
<1>2. Genesis \in Block /\ seqNb[Genesis] = 0
  BY ConsensusAssumption
<1>3. ProposerAfter(Node, Genesis) \in Node
  BY <1>1, <1>2, ProposerIsActive
<1>4. ChainType
  BY <1>1, <1>2, <1>3 DEF ChainType
<1>5. RoundType
  BY <1>2 DEF RoundType, States
<1>6. PoolType
  BY EmptyPoolType DEF PoolType
<1>7. TxType
  BY DEF TxType
<1>8. \A r \in Requests : TxMessage(r.tx, r.broadcast, r.priority) \in TxMessages
  BY ConsensusAssumption DEF TxMessage, TxMessages
<1>9. \A n \in Node : net[n] \subseteq TxMessages /\ outbox[n] = {}
  BY <1>8
<1>10. WireType
  BY <1>9 DEF WireType, Messages
<1>11. TypeOK
  BY <1>4, <1>5, <1>6, <1>7, <1>10 DEF TypeOK
<1>12. OnTheWay \subseteq TxMessages
  BY <1>9 DEF OnTheWay
<1>13. KnownBlocks \subseteq {Genesis}
  <2> SUFFICES ASSUME NEW b \in KnownBlocks PROVE b = Genesis
    OBVIOUS
  <2>1. CarryingBlock(OnTheWay) = {}
    BY <1>12 DEF CarryingBlock, TxMessages
  <2>2. PICK k \in Node : b \in HeldBlocks(k)
    BY <2>1, KnownBecause
  <2> QED
    BY <2>2 DEF HeldBlocks
<1>14. Linked
  BY <1>2 DEF Linked
<1>15. Agreement
  BY DEF Agreement
<1>16. OneProposal /\ ProposedInTurn
  BY <1>13 DEF OneProposal, ProposedInTurn
<1>17. CacheFresh
  BY ValidatorsAfterAssumption DEF CacheFresh, Tip
<1>18. BlockAtHand /\ ProposerInTurn
  BY DEF BlockAtHand, ProposerInTurn
<1> QED
  BY <1>11, <1>14, <1>15, <1>16, <1>17, <1>18 DEF IInv

\* The steps that leave the rounds alone keep the invariant.
LEMMA StillKeepsInv ==
  ASSUME IInv, TypeOK', Still
  PROVE  IInv'
<1> USE DEF IInv, Still
<1>1. Linked' /\ Agreement'
  BY DEF Linked, Agreement
<1>2. OneProposal'
  BY DEF OneProposal
<1>3. CacheFresh' /\ ProposerInTurn'
  BY DEF CacheFresh, ProposerInTurn, Tip
<1>4. BlockAtHand'
  BY DEF BlockAtHand, IsValidNewBlock, CurrentSeqNb, Tip
<1>5. ProposedInTurn'
  BY DEF ProposedInTurn
<1> QED
  BY <1>1, <1>2, <1>3, <1>4, <1>5

\* A vote keeps the invariant: the block voted for is held.
LEMMA VotingKeepsInv ==
  ASSUME IInv, TypeOK', NEW n \in Node, NEW b \in Block, Voting(n, b)
  PROVE  IInv'
<1> USE DEF IInv
<1>1. UNCHANGED <<chain, active, proposer, blockPool>> /\ KnownBlocks' \subseteq KnownBlocks
  BY DEF Voting
<1>2. PICK s \in {"Prepared", "Committed"} : state' = [state EXCEPT ![n] = s]
  <2>1. \/ state' = [state EXCEPT ![n] = "Prepared"]
        \/ state' = [state EXCEPT ![n] = "Committed"]
    BY DEF Voting
  <2> QED
    BY <2>1
<1>3. Linked' /\ Agreement'
  BY <1>1 DEF Linked, Agreement
<1>4. OneProposal'
  BY <1>1 DEF OneProposal
<1>5. CacheFresh'
  BY <1>1 DEF CacheFresh, Tip
<1>6. \A k \in Node : state'[k] = IF k = n THEN s ELSE state[k]
  BY <1>2 DEF TypeOK, RoundType
<1>7. ProposerInTurn'
  BY <1>1, <1>6 DEF ProposerInTurn
<1>8. BlockAtHand'
  <2>1. \A k \in Node : current'[k] = IF k = n THEN b ELSE current[k]
    BY DEF Voting, TypeOK, RoundType
  <2> SUFFICES ASSUME NEW k \in Node, state'[k] \in {"Prepared", "Committed"}
               PROVE  current'[k] \in blockPool[k] /\ IsValidNewBlock(k, current'[k])
    BY <1>1 DEF BlockAtHand, IsValidNewBlock, CurrentSeqNb, Tip
  <2>2. CASE k = n
    BY <2>1, <2>2 DEF Voting
  <2>3. CASE k # n
    BY <1>6, <2>1, <2>3 DEF BlockAtHand
  <2> QED
    BY <2>2, <2>3
<1>9. ProposedInTurn'
  <2> SUFFICES ASSUME NEW c \in KnownBlocks \ {Genesis}
               PROVE  LET p == proposerOf[c] IN
                        /\ p = ProposerAfter(validatorsAfter[lastHash[c]], lastHash[c])
                        /\ \E i \in DOMAIN chain[p] :
                             /\ chain[p][i] = lastHash[c]
                             /\ i = Len(chain[p]) => state'[p] # "NewRoundProposer"
    BY <1>1 DEF ProposedInTurn
  <2>1. c \in Block
    BY KnownAreBlocks
  <2>2. proposerOf[c] \in Node
    BY <2>1, ConsensusAssumption
  <2> QED
    BY <1>6, <2>2 DEF ProposedInTurn
<1> QED
  BY <1>3, <1>4, <1>5, <1>7, <1>8, <1>9

\* A proposer has not proposed a child of its last block yet: that child would
\* have been made by this very node, which has left NewRoundProposer since.
LEMMA NothingProposed ==
  ASSUME IInv, NEW n \in Node, state[n] = "NewRoundProposer",
         NEW c \in KnownBlocks \ {Genesis}
  PROVE  lastHash[c] # Tip(n)
<1> USE DEF IInv
<1> SUFFICES ASSUME lastHash[c] = Tip(n) PROVE FALSE
  OBVIOUS
<1>1. proposerOf[c] = ProposerAfter(validatorsAfter[Tip(n)], Tip(n))
  BY DEF ProposedInTurn
<1>2. proposer[n] = n /\ proposer[n] = ProposerAfter(validatorsAfter[Tip(n)], Tip(n))
  BY DEF ProposerInTurn, CacheFresh
<1>3. PICK i \in DOMAIN chain[n] : /\ chain[n][i] = Tip(n)
                                   /\ i = Len(chain[n]) => state[n] # "NewRoundProposer"
  BY <1>1, <1>2 DEF ProposedInTurn
<1> QED
  BY <1>3, ChainShape

\* A proposal keeps the invariant: it is the only child of its parent.
LEMMA ProposingKeepsInv ==
  ASSUME IInv, TypeOK', NEW n \in Node, NEW b \in Block, Proposing(n, b)
  PROVE  IInv'
<1> USE DEF IInv
<1>1. UNCHANGED <<chain, active, proposer>>
  BY DEF Proposing
<1>2. \A k \in Node : /\ state'[k] = IF k = n THEN "NewRound" ELSE state[k]
                      /\ current'[k] = IF k = n THEN b ELSE current[k]
                      /\ blockPool[k] \subseteq blockPool'[k]
  BY DEF Proposing, TypeOK, RoundType
<1>3. Linked' /\ Agreement'
  BY <1>1 DEF Linked, Agreement
<1>4. CacheFresh'
  BY <1>1 DEF CacheFresh, Tip
<1>5. ProposerInTurn'
  BY <1>1, <1>2 DEF ProposerInTurn
<1>6. BlockAtHand'
  <2> SUFFICES ASSUME NEW k \in Node, state'[k] \in {"Prepared", "Committed"}
               PROVE  current'[k] \in blockPool'[k] /\ IsValidNewBlock(k, current'[k])
    BY <1>1 DEF BlockAtHand, IsValidNewBlock, CurrentSeqNb, Tip
  <2>1. k # n
    BY <1>2
  <2> QED
    BY <1>2, <2>1 DEF BlockAtHand
<1>7. OneProposal'
  <2> SUFFICES ASSUME NEW c \in KnownBlocks' \ {Genesis}, NEW d \in KnownBlocks' \ {Genesis},
                      lastHash[c] = lastHash[d]
               PROVE  c = d
    BY DEF OneProposal
  <2>1. c \in KnownBlocks \cup {b} /\ d \in KnownBlocks \cup {b} /\ lastHash[b] = Tip(n)
    BY DEF Proposing
  <2>2. state[n] = "NewRoundProposer"
    BY DEF Proposing
  <2>3. CASE c # b /\ d # b
    BY <2>1, <2>3 DEF OneProposal
  <2>4. CASE c = b \/ d = b
    BY <2>1, <2>2, <2>4, NothingProposed
  <2> QED
    BY <2>3, <2>4
<1>8. ProposedInTurn'
  <2> SUFFICES ASSUME NEW c \in KnownBlocks' \ {Genesis}
               PROVE  LET p == proposerOf[c] IN
                        /\ p = ProposerAfter(validatorsAfter[lastHash[c]], lastHash[c])
                        /\ \E i \in DOMAIN chain[p] :
                             /\ chain[p][i] = lastHash[c]
                             /\ i = Len(chain[p]) => state'[p] # "NewRoundProposer"
    BY <1>1 DEF ProposedInTurn
  <2>1. CASE c \in KnownBlocks
    <3>1. c \in Block
      BY <2>1, KnownAreBlocks
    <3>2. proposerOf[c] \in Node
      BY <3>1, ConsensusAssumption
    <3> QED
      BY <1>2, <2>1, <3>2 DEF ProposedInTurn
  <2>2. CASE c = b
    <3>1. proposerOf[c] = n /\ lastHash[c] = Tip(n) /\ state[n] = "NewRoundProposer"
      BY <2>2 DEF Proposing
    <3>2. n = ProposerAfter(validatorsAfter[Tip(n)], Tip(n))
      BY <3>1 DEF ProposerInTurn, CacheFresh
    <3>3. Len(chain[n]) \in DOMAIN chain[n] /\ chain[n][Len(chain[n])] = Tip(n)
      BY ChainShape DEF Tip
    <3> QED
      BY <1>2, <3>1, <3>2, <3>3
  <2> QED
    BY <2>1, <2>2 DEF Proposing
<1> QED
  BY <1>3, <1>4, <1>5, <1>6, <1>7, <1>8

\* Whoever is ahead of n has executed the block that n executes now.
LEMMA NextBlockAgreed ==
  ASSUME IInv, NEW n \in Node, NEW b \in Block, Executing(n, b),
         NEW m \in Node, Len(chain[m]) > Len(chain[n])
  PROVE  chain[m][Len(chain[n]) + 1] = b
<1> USE DEF IInv
<1> DEFINE L == Len(chain[n])
           c == chain[m][L + 1]
<1>1. /\ L \in Nat \ {0}
      /\ Len(chain[m]) \in Nat
      /\ L + 1 \in DOMAIN chain[m]
      /\ CurrentSeqNb(n) = L - 1
  BY ChainShape
<1>2. c \in KnownBlocks
  BY <1>1, KnownWhere
<1>3. seqNb[c] = L /\ lastHash[c] = chain[m][L]
  BY SMTT(30), <1>1, ChainShape DEF Linked
<1>4. chain[m][L] = chain[n][L]
  BY SMTT(30), <1>1 DEF Agreement
<1>5. lastHash[c] = lastHash[b] /\ seqNb[b] = L /\ b \in KnownBlocks
  BY <1>1, <1>3, <1>4 DEF Executing, IsValidNewBlock, Tip
<1>6. b # Genesis /\ c # Genesis
  BY <1>1, <1>3, <1>5, ConsensusAssumption
<1> HIDE DEF c
<1>7. c = b
  BY <1>2, <1>5, <1>6 DEF OneProposal
<1> QED
  BY <1>7 DEF c

\* An execution keeps the invariant.
LEMMA ExecutingKeepsInv ==
  ASSUME IInv, TypeOK', NEW n \in Node, NEW b \in Block, Executing(n, b)
  PROVE  IInv'
<1> USE DEF IInv
<1> DEFINE L == Len(chain[n])
           validators == ActiveAfter(active[n], b)
<1>1. /\ chain[n] \in Seq(Block)
      /\ L \in Nat \ {0}
      /\ DOMAIN chain[n] = 1..L
      /\ CurrentSeqNb(n) = L - 1
      /\ Tip(n) = chain[n][L]
  BY ChainShape DEF Tip
<1>2. /\ b \in KnownBlocks
      /\ seqNb[b] = L
      /\ lastHash[b] = Tip(n)
      /\ b # Genesis
  BY <1>1, ConsensusAssumption DEF Executing, IsValidNewBlock
<1>3. \A k \in Node \ {n} : chain'[k] = chain[k]
  BY DEF Executing, TypeOK, ChainType
<1>4. chain'[n] = Append(chain[n], b)
  BY DEF Executing, TypeOK, ChainType
<1>5. /\ Len(chain'[n]) = L + 1
      /\ DOMAIN chain'[n] = 1..(L + 1)
      /\ \A i \in 1..L : chain'[n][i] = chain[n][i]
      /\ chain'[n][L + 1] = b
  BY <1>1, <1>4
<1>6. \A k \in Node \ {n} : /\ active'[k] = active[k]
                            /\ proposer'[k] = proposer[k]
                            /\ state'[k] = state[k]
                            /\ current'[k] = current[k]
                            /\ blockPool'[k] = blockPool[k]
  BY DEF Executing, TypeOK, ChainType, RoundType
<1>7. /\ active'[n] = validators
      /\ proposer'[n] = ProposerAfter(validators, b)
      /\ state'[n] = StateAfterCommit(n, validators, proposer'[n])
  BY DEF Executing, TypeOK, ChainType, RoundType, NextProposer
<1>8. KnownBlocks' \subseteq KnownBlocks
  BY DEF Executing
<1> HIDE DEF L, validators
<1>9. Linked'
  <2> SUFFICES ASSUME NEW k \in Node
               PROVE  /\ chain'[k][1] = Genesis
                      /\ \A i \in 1..Len(chain'[k]) : seqNb[chain'[k][i]] = i - 1
                      /\ \A i \in 2..Len(chain'[k]) : lastHash[chain'[k][i]] = chain'[k][i - 1]
    BY DEF Linked
  <2>1. CASE k # n
    BY <1>3, <2>1 DEF Linked
  <2>2. CASE k = n
    <3>1. chain'[n][1] = Genesis
      BY <1>1, <1>5 DEF Linked
    <3>2. ASSUME NEW i \in 1..(L + 1) PROVE seqNb[chain'[n][i]] = i - 1
      <4>1. CASE i = L + 1
        BY <1>1, <1>2, <1>5, <4>1
      <4>2. CASE i # L + 1
        <5>1. i \in 1..L
          BY <1>1, <4>2
        <5>2. chain'[n][i] = chain[n][i]
          BY <1>5, <5>1
        <5>3. seqNb[chain[n][i]] = i - 1
          BY <5>1 DEF Linked, L
        <5> QED
          BY <5>2, <5>3
      <4> QED
        BY <4>1, <4>2
    <3>3. ASSUME NEW i \in 2..(L + 1) PROVE lastHash[chain'[n][i]] = chain'[n][i - 1]
      <4>1. CASE i = L + 1
        BY SMTT(30), <1>1, <1>2, <1>5, <4>1
      <4>2. CASE i # L + 1
        <5>1. i \in 2..L /\ i \in 1..L /\ i - 1 \in 1..L
          BY <1>1, <4>2
        <5> QED
          BY <1>5, <5>1 DEF Linked, L
      <4> QED
        BY <4>1, <4>2
    <3> QED
      BY <1>5, <2>2, <3>1, <3>2, <3>3
  <2> QED
    BY <2>1, <2>2
<1>10. Agreement'
  <2>1. ASSUME NEW m \in Node \ {n}, NEW i \in 1..Len(chain[m]), i \in 1..(L + 1)
        PROVE  chain[m][i] = chain'[n][i]
    <3>1. Len(chain[m]) \in Nat
      BY ChainShape
    <3>2. CASE i = L + 1
      <4>1. Len(chain[m]) > Len(chain[n])
        BY <1>1, <2>1, <3>1, <3>2 DEF L
      <4>2. chain[m][L + 1] = b
        BY <4>1, NextBlockAgreed DEF L
      <4> QED
        BY <1>5, <3>2, <4>2
    <3>3. CASE i # L + 1
      <4>1. i \in 1..L
        BY <1>1, <2>1, <3>3
      <4> QED
        BY <1>5, <4>1 DEF Agreement, L
    <3> QED
      BY <3>2, <3>3
  <2> SUFFICES ASSUME NEW m \in Node, NEW k \in Node,
                      NEW i \in 1..Len(chain'[m]), i \in 1..Len(chain'[k])
               PROVE  chain'[m][i] = chain'[k][i]
    BY DEF Agreement
  <2>2. CASE m = n /\ k = n
    BY <2>2
  <2>3. CASE m = n /\ k # n
    BY <1>3, <1>5, <2>1, <2>3
  <2>4. CASE m # n /\ k = n
    BY <1>3, <1>5, <2>1, <2>4
  <2>5. CASE m # n /\ k # n
    BY <1>3, <2>5 DEF Agreement
  <2> QED
    BY <2>2, <2>3, <2>4, <2>5
<1>11. OneProposal'
  BY <1>8 DEF OneProposal
<1>12. CacheFresh'
  <2> SUFFICES ASSUME NEW k \in Node
               PROVE  /\ active'[k] = validatorsAfter[Tip(k)']
                      /\ proposer'[k] = ProposerAfter(active'[k], Tip(k)')
    BY DEF CacheFresh
  <2>1. CASE k # n
    BY <1>3, <1>6, <2>1 DEF CacheFresh, Tip
  <2>2. CASE k = n
    <3>1. Tip(n)' = b
      BY <1>5 DEF Tip
    <3>2. validatorsAfter[b] = ActiveAfter(validatorsAfter[lastHash[b]], b)
      BY <1>2, ValidatorsAfterAssumption
    <3>3. validators = validatorsAfter[b]
      BY <1>2, <3>2 DEF CacheFresh, validators
    <3> QED
      BY <1>7, <2>2, <3>1, <3>3
  <2> QED
    BY <2>1, <2>2
<1>13. state'[n] \in {"NVRound", "NewRoundProposer", "NewRound"}
  BY <1>7 DEF StateAfterCommit
<1>14. BlockAtHand'
  <2> SUFFICES ASSUME NEW k \in Node, state'[k] \in {"Prepared", "Committed"}
               PROVE  current'[k] \in blockPool'[k] /\ IsValidNewBlock(k, current[k])'
    BY DEF BlockAtHand, IsValidNewBlock, CurrentSeqNb, Tip
  <2>1. k # n
    BY <1>13
  <2> QED
    BY <1>3, <1>6, <2>1 DEF BlockAtHand, IsValidNewBlock, CurrentSeqNb, Tip
<1>15. ProposerInTurn'
  <2> SUFFICES ASSUME NEW k \in Node, state'[k] = "NewRoundProposer"
               PROVE  proposer'[k] = k
    BY DEF ProposerInTurn
  <2>1. CASE k = n
    BY <1>7, <2>1 DEF StateAfterCommit
  <2>2. CASE k # n
    BY <1>6, <2>2 DEF ProposerInTurn
  <2> QED
    BY <2>1, <2>2
<1>16. ProposedInTurn'
  <2> SUFFICES ASSUME NEW c \in KnownBlocks \ {Genesis}
               PROVE  LET p == proposerOf[c] IN
                        /\ p = ProposerAfter(validatorsAfter[lastHash[c]], lastHash[c])
                        /\ \E i \in DOMAIN chain'[p] :
                             /\ chain'[p][i] = lastHash[c]
                             /\ i = Len(chain'[p]) => state'[p] # "NewRoundProposer"
    BY <1>8 DEF ProposedInTurn
  <2> DEFINE p == proposerOf[c]
  <2>1. c \in Block
    BY KnownAreBlocks
  <2>2. p \in Node
    BY <2>1, ConsensusAssumption
  <2>3. p = ProposerAfter(validatorsAfter[lastHash[c]], lastHash[c])
    BY DEF ProposedInTurn
  <2>4. PICK i \in DOMAIN chain[p] : /\ chain[p][i] = lastHash[c]
                                     /\ i = Len(chain[p]) => state[p] # "NewRoundProposer"
    BY DEF ProposedInTurn
  <2> HIDE DEF p
  <2>5. CASE p = n
    <3>1. i \in 1..L /\ i \in 1..(L + 1) /\ i # L + 1
      BY <1>1, <2>4, <2>5
    <3>2. i \in DOMAIN chain'[p] /\ chain'[p][i] = lastHash[c] /\ i # Len(chain'[p])
      BY <1>5, <2>4, <2>5, <3>1
    <3> QED
      BY <2>3, <3>2 DEF p
  <2>6. CASE p # n
    BY <1>3, <1>6, <2>2, <2>3, <2>4, <2>6 DEF p
  <2> QED
    BY <2>5, <2>6
<1> QED
  BY <1>9, <1>10, <1>11, <1>12, <1>14, <1>15, <1>16

\* Every step keeps the invariant, and extends no chain but with a block that
\* Executing allows.
LEMMA StepKeepsInv ==
  ASSUME IInv, [Next]_vars
  PROVE  /\ IInv'
         /\ chain' = chain \/ \E n \in Node, b \in Block : Executing(n, b)
<1>1. CASE UNCHANGED vars
  <2> USE <1>1 DEF vars, chainVars, roundVars, poolVars, txVars
  <2>1. TypeOK'
    BY DEF IInv, TypeOK, ChainType, RoundType, PoolType, TxType, WireType
  <2>2. KnownBlocks' = KnownBlocks /\ OnTheWay' = OnTheWay
    BY DEF KnownBlocks, OnTheWay, HeldBlocks
  <2>3. Still
    BY <2>2 DEF Still
  <2> QED
    BY <2>1, <2>3, StillKeepsInv
<1>2. CASE Next
  <2>1. PICK n \in Live : \/ MsgHandlerGoroutine(n)
                          \/ TransactionHandler(n)
                          \/ RemoveDoomed(n)
                          \/ HandleListSocket(n)
    BY <1>2 DEF Next
  <2>2. n \in Node
    BY ConsensusAssumption
  <2> USE DEF IInv
  <2>3. CASE ReceiveTransac(n)
    BY <2>2, <2>3, ReceiveTransacStep, StillKeepsInv DEF Still
  <2>4. CASE ReceivePrePrepare(n)
    BY <2>2, <2>4, ReceivePrePrepareStep, StillKeepsInv DEF Still
  <2>5. CASE ReceivePrepare(n)
    BY <2>2, <2>5, ReceivePrepareStep, StillKeepsInv DEF Still
  <2>6. CASE ReceiveCommit(n)
    BY <2>2, <2>6, ReceiveCommitStep, StillKeepsInv DEF Still
  <2>7. CASE ReceiveBlockMsg(n)
    BY <2>2, <2>7, ReceiveBlockMsgStep, StillKeepsInv DEF Still
  <2>8. CASE CheckTransaction(n)
    BY <2>2, <2>8, CheckTransactionStep, StillKeepsInv DEF Still
  <2>9. CASE AddTransaction(n)
    BY <2>2, <2>9, AddTransactionStep, StillKeepsInv DEF Still
  <2>10. CASE RemoveDoomed(n)
    BY <2>2, <2>10, RemoveDoomedStep, StillKeepsInv DEF Still
  <2>11. CASE FanOut(n)
    BY <2>2, <2>11, FanOutStep, StillKeepsInv DEF Still
  <2>12. CASE FanOutTransaction(n)
    BY <2>2, <2>12, FanOutTransactionStep, StillKeepsInv DEF Still
  <2>13. CASE EndUpdate(n)
    BY <2>2, <2>13, EndUpdateStep, StillKeepsInv DEF Still
  <2>14. CASE Propose(n)
    <3>1. PICK b \in Block : Proposing(n, b)
      BY <2>2, <2>14, ProposeStep
    <3>2. TypeOK'
      BY <2>2, <2>14, ProposeStep
    <3> QED
      BY <2>2, <3>1, <3>2, ProposingKeepsInv DEF Proposing
  <2>15. CASE Prepare(n)
    <3>1. PICK b \in Block : Voting(n, b)
      BY <2>2, <2>15, PrepareStep
    <3>2. TypeOK'
      BY <2>2, <2>15, PrepareStep
    <3> QED
      BY <2>2, <3>1, <3>2, VotingKeepsInv DEF Voting
  <2>16. CASE Commit(n)
    <3>1. current[n] \in Block
      BY <2>2 DEF TypeOK, RoundType
    <3> QED
      BY <2>2, <2>16, <3>1, CommitStep, VotingKeepsInv DEF Voting
  <2>17. CASE Finalize(n)
    <3>1. current[n] \in Block
      BY <2>2 DEF TypeOK, RoundType
    <3> QED
      BY <2>2, <2>17, <3>1, FinalizeStep, ExecutingKeepsInv
  <2>18. CASE AppendNV(n)
    <3>1. PICK b \in Block : Executing(n, b)
      BY <2>2, <2>18, AppendNVStep
    <3>2. TypeOK'
      BY <2>2, <2>18, AppendNVStep
    <3> QED
      BY <2>2, <3>1, <3>2, ExecutingKeepsInv
  <2> QED
    BY <2>1, <2>3, <2>4, <2>5, <2>6, <2>7, <2>8, <2>9, <2>10, <2>11, <2>12, <2>13,
       <2>14, <2>15, <2>16, <2>17, <2>18
       DEF MsgHandlerGoroutine, ReceiveMessage, UpdateStatus, TransactionHandler,
           HandleListSocket
<1> QED
  BY <1>1, <1>2

-----------------------------------------------------------------------------
\* The inductive invariant holds in every reachable state.
THEOREM Invariance == Spec => []IInv
<1>1. Init => IInv
  BY InitInv
<1>2. IInv /\ [Next]_vars => IInv'
  BY StepKeepsInv
<1> QED
  BY <1>1, <1>2, PTL DEF Spec

\* Whatever the order of the messages, every variable keeps its shape.
THEOREM TypeCorrect == Spec => []TypeOK
<1>1. IInv => TypeOK
  BY DEF IInv
<1> QED
  BY <1>1, Invariance, PTL

\* No two nodes execute different blocks at the same height, in any network of
\* honest nodes, with any flags and any changes of the validators.
THEOREM ChainsAgree == Spec => []Agreement
<1>1. IInv => Agreement
  BY DEF IInv
<1> QED
  BY <1>1, Invariance, PTL

\* A height is proposed once: no two blocks in the system have the same parent.
THEOREM ProposedOnce == Spec => []OneProposal
<1>1. IInv => OneProposal
  BY DEF IInv
<1> QED
  BY <1>1, Invariance, PTL

\* The cached proposer and the active set are always those of the last block.
THEOREM CacheIsFresh == Spec => []CacheFresh
<1>1. IInv => CacheFresh
  BY DEF IInv
<1> QED
  BY <1>1, Invariance, PTL

\* GetBlock always finds the block whose votes a node counts.
THEOREM BlockIsAtHand == Spec => []BlockAtHand
<1>1. IInv => BlockAtHand
  BY DEF IInv
<1> QED
  BY <1>1, Invariance, PTL

\* A block that is executed extends the ledger of its node the way the ledger
\* promises.
LEMMA ExecutingExtendsLedger ==
  ASSUME IInv, NEW n \in Node, NEW b \in Block, Executing(n, b)
  PROVE  Promise!Execute(n, b)
<1>1. lastHash[b] = chain[n][Len(chain[n])]
  BY DEF Executing, IsValidNewBlock, Tip
<1>2. \A m \in Node : Len(chain[m]) > Len(chain[n]) => chain[m][Len(chain[n]) + 1] = b
  BY NextBlockAgreed
<1>3. chain' = [chain EXCEPT ![n] = Append(@, b)]
  BY DEF Executing
<1> QED
  BY <1>1, <1>2, <1>3 DEF Promise!Execute, Promise!MayExecute

\* The consensus implements the ledger: every step that executes a block is a
\* step of the ledger, and every other step leaves the ledger alone.
THEOREM ImplementsLedger == Spec => LedgerSpec
<1>1. Init => Promise!Init
  BY DEF Init, Promise!Init
<1>2. IInv /\ [Next]_vars => [Promise!Next]_chain
  <2> SUFFICES ASSUME IInv, [Next]_vars PROVE [Promise!Next]_chain
    OBVIOUS
  <2>1. CASE chain' = chain
    BY <2>1
  <2>2. CASE \E n \in Node, b \in Block : Executing(n, b)
    BY <2>2, ExecutingExtendsLedger DEF Promise!Next
  <2> QED
    BY <2>1, <2>2, StepKeepsInv
<1> QED
  BY <1>1, <1>2, Invariance, PTL DEF Spec, LedgerSpec, Promise!Spec
=============================================================================
