----------------------------- MODULE Votes_proofs -----------------------------
(***************************************************************************)
(* Proofs about the votes of the consensus: that a quorum stands behind    *)
(* what is executed.                                                       *)
(***************************************************************************)
EXTENDS PBFTConsensus_proofs

-----------------------------------------------------------------------------
(***************************************************************************)
(* Quorums.                                                                *)
(***************************************************************************)
\* The voters of a block are nodes, so the quorum asked of them is a number.
LEMMA QuorumType ==
  ASSUME NEW b \in Block
  PROVE  /\ Voters(b) \in SUBSET Node
         /\ MinApprovals(Cardinality(Voters(b))) \in Nat
<1>1. Voters(b) \in SUBSET Node
  <2>1. lastHash[b] \in Block
    BY ConsensusAssumption
  <2> QED
    BY <2>1, ValidatorsAfterAssumption DEF Voters
<1>2. Cardinality(Voters(b)) \in Nat
  BY <1>1, ValidatorsAssumption, FS_Subset, FS_CardinalityType
<1> QED
  BY <1>1, <1>2 DEF MinApprovals

\* More supporters certify what fewer did.
LEMMA CertifiedByMore ==
  ASSUME NEW b \in Block, NEW more \in SUBSET Node, NEW supporters \in SUBSET more,
         Certified(b, supporters)
  PROVE  Certified(b, more)
<1> DEFINE S == supporters \cap Voters(b)
           T == more \cap Voters(b)
<1>1. IsFiniteSet(T) /\ S \in SUBSET T
  BY ValidatorsAssumption, FS_Subset
<1>2. IsFiniteSet(S) /\ Cardinality(S) <= Cardinality(T)
  BY <1>1, FS_Subset
<1>3. Cardinality(S) \in Nat /\ Cardinality(T) \in Nat
  BY <1>1, <1>2, FS_CardinalityType
<1>4. Cardinality(S) >= MinApprovals(Cardinality(Voters(b)))
  BY DEF Certified
<1>5. Cardinality(T) >= MinApprovals(Cardinality(Voters(b)))
  BY <1>2, <1>3, <1>4, QuorumType
<1> QED
  BY <1>5 DEF Certified

\* The votes for a block in a pool are at most as many as the voters: a node
\* has one vote.
LEMMA QuorumCounted ==
  ASSUME NEW pool \in Pools(Block, Node), NEW b \in Block, NEW supporters \in SUBSET Node,
         \A v \in VotesOf(pool.confirmed, b) : v.from \in supporters \cap Voters(b),
         NbConfirmed(pool, b) >= MinApprovals(Cardinality(Voters(b)))
  PROVE  Certified(b, supporters)
<1> DEFINE S == VotesOf(pool.confirmed, b)
           T == supporters \cap Voters(b)
           sender == [v \in S |-> v.from]
<1>1. IsFiniteSet(T)
  BY ValidatorsAssumption, FS_Subset
<1>2. sender \in [S -> T]
  OBVIOUS
<1>3. S \subseteq [block : {b}, from : Node]
  BY DEF VotesOf, Pools, Votes
<1>4. \A v, w \in S : sender[v] = sender[w] => v = w
  BY <1>3
<1> HIDE DEF S, T, sender
<1>5. sender \in Injection(S, T)
  BY <1>2, <1>4 DEF Injection, IsInjective
<1>6. IsFiniteSet(S) /\ Cardinality(S) <= Cardinality(T)
  BY <1>1, <1>5, FS_Injection
<1>7. Cardinality(S) \in Nat /\ Cardinality(T) \in Nat
  BY <1>1, <1>6, FS_CardinalityType
<1>8. NbConfirmed(pool, b) = Cardinality(S)
  BY DEF NbConfirmed, S
<1>9. Cardinality(T) >= MinApprovals(Cardinality(Voters(b)))
  BY <1>6, <1>7, <1>8, QuorumType
<1> QED
  BY <1>9 DEF Certified, T
-----------------------------------------------------------------------------
(***************************************************************************)
(* What a step may do to the votes.                                        *)
(***************************************************************************)
\* A step that does anything is a step of one node.
LEMMA StepOfNode ==
  ASSUME Next
  PROVE  \E n \in Node : \/ ReceiveTransac(n) \/ ReceivePrePrepare(n) \/ ReceivePrepare(n)
                        \/ ReceiveCommit(n) \/ ReceiveBlockMsg(n)
                        \/ CheckTransaction(n) \/ AddTransaction(n) \/ RemoveDoomed(n)
                        \/ FanOut(n) \/ FanOutTransaction(n)
                        \/ Propose(n) \/ Prepare(n) \/ Commit(n)
                        \/ Finalize(n) \/ AppendNV(n) \/ EndUpdate(n)
<1>1. Live \subseteq Node
  BY ConsensusAssumption
<1> QED
  BY <1>1 DEF Next, MsgHandlerGoroutine, ReceiveMessage, UpdateStatus, TransactionHandler,
              HandleListSocket

\* To the rounds, a step is one of four.
LEMMA RoundStep ==
  ASSUME IInv, [Next]_vars
  PROVE  \/ Still
         \/ \E n \in Node, b \in Block : \/ Voting(n, b)
                                       \/ Proposing(n, b)
                                       \/ Executing(n, b)
<1> USE DEF IInv
<1>1. CASE UNCHANGED vars
  BY <1>1 DEF vars, chainVars, roundVars, poolVars, txVars, Still, KnownBlocks, OnTheWay,
              HeldBlocks
<1>2. CASE Next
  <2>1. PICK n \in Node : \/ ReceiveTransac(n) \/ ReceivePrePrepare(n) \/ ReceivePrepare(n)
                        \/ ReceiveCommit(n) \/ ReceiveBlockMsg(n)
                        \/ CheckTransaction(n) \/ AddTransaction(n) \/ RemoveDoomed(n)
                        \/ FanOut(n) \/ FanOutTransaction(n)
                        \/ Propose(n) \/ Prepare(n) \/ Commit(n)
                        \/ Finalize(n) \/ AppendNV(n) \/ EndUpdate(n)
    BY <1>2, StepOfNode
  <2>2. current[n] \in Block
    BY DEF TypeOK, RoundType
  <2> QED
    BY <2>1, <2>2, ReceiveTransacStep, ReceivePrePrepareStep, ReceivePrepareStep,
       ReceiveCommitStep, ReceiveBlockMsgStep, CheckTransactionStep, AddTransactionStep,
       RemoveDoomedStep, FanOutStep, FanOutTransactionStep, EndUpdateStep, ProposeStep,
       PrepareStep, CommitStep, FinalizeStep, AppendNVStep
<1> QED
  BY <1>1, <1>2

\* A node does not go back: what it has prepared, committed or executed stays so.
LEMMA VotesStand ==
  ASSUME IInv, [Next]_vars, NEW v \in Node, NEW b \in Block
  PROVE  /\ ExistBlock(v, b) => ExistBlock(v, b)'
         /\ HasCommitted(v, b) => HasCommitted(v, b)'
         /\ HasPrepared(v, b) => HasPrepared(v, b)'
<1> USE DEF IInv
<1>1. CASE Still
  BY <1>1 DEF Still, ExistBlock, HasCommitted, HasPrepared
<1>2. ASSUME NEW n \in Node, NEW c \in Block, Voting(n, c)
      PROVE  /\ ExistBlock(v, b) => ExistBlock(v, b)'
             /\ HasCommitted(v, b) => HasCommitted(v, b)'
             /\ HasPrepared(v, b) => HasPrepared(v, b)'
  BY <1>2 DEF Voting, ExistBlock, HasCommitted, HasPrepared, TypeOK, RoundType
<1>3. ASSUME NEW n \in Node, NEW c \in Block, Proposing(n, c)
      PROVE  /\ ExistBlock(v, b) => ExistBlock(v, b)'
             /\ HasCommitted(v, b) => HasCommitted(v, b)'
             /\ HasPrepared(v, b) => HasPrepared(v, b)'
  BY <1>3 DEF Proposing, ExistBlock, HasCommitted, HasPrepared, TypeOK, RoundType
<1>4. ASSUME NEW n \in Node, NEW c \in Block, Executing(n, c)
      PROVE  /\ ExistBlock(v, b) => ExistBlock(v, b)'
             /\ HasCommitted(v, b) => HasCommitted(v, b)'
             /\ HasPrepared(v, b) => HasPrepared(v, b)'
  <2>1. CASE v # n
    BY <1>4, <2>1 DEF Executing, ExistBlock, HasCommitted, HasPrepared, TypeOK, ChainType,
                      RoundType
  <2>2. CASE v = n
    <3>1. chain'[n] = Append(chain[n], c) /\ chain[n] \in Seq(Block)
      BY <1>4 DEF Executing, TypeOK, ChainType
    <3>2. /\ \A i \in DOMAIN chain[n] : i \in DOMAIN chain'[n] /\ chain'[n][i] = chain[n][i]
          /\ Len(chain[n]) + 1 \in DOMAIN chain'[n]
          /\ chain'[n][Len(chain[n]) + 1] = c
      BY <3>1
    <3>3. ExistBlock(n, b) => ExistBlock(n, b)'
      BY <3>2 DEF ExistBlock
    <3>4. ExistBlock(n, c)'
      BY <3>2 DEF ExistBlock
    <3>5. (state[n] = "Committed" /\ current[n] = c) \/ state[n] = "NVRound"
      BY <1>4 DEF Executing
    <3> QED
      BY <2>2, <3>3, <3>4, <3>5 DEF HasCommitted, HasPrepared
  <2> QED
    BY <2>1, <2>2
<1> QED
  BY <1>1, <1>2, <1>3, <1>4, RoundStep

\* Few steps touch the prepares.
LEMMA PreparePoolSteps ==
  ASSUME [Next]_vars
  PROVE  \/ UNCHANGED preparePool
         \/ \E n \in Node : ReceivePrepare(n) \/ Prepare(n) \/ Commit(n) \/ EndUpdate(n)
<1>1. CASE UNCHANGED vars
  BY <1>1 DEF vars, poolVars
<1>2. ASSUME NEW n \in Node,
             \/ ReceiveTransac(n) \/ ReceivePrePrepare(n) \/ ReceiveCommit(n)
             \/ ReceiveBlockMsg(n) \/ CheckTransaction(n) \/ AddTransaction(n)
             \/ RemoveDoomed(n) \/ FanOut(n) \/ FanOutTransaction(n)
             \/ Propose(n) \/ Finalize(n) \/ AppendNV(n)
      PROVE  UNCHANGED preparePool
  BY <1>2 DEF ReceiveTransac, ReceivePrePrepare, ReceiveCommit, ReceiveBlockMsg,
              CheckTransaction, AddTransaction, RemoveDoomed, FanOut, FanOutTransaction,
              Propose, Finalize, AppendNV, poolVars
<1> QED
  BY <1>1, <1>2, StepOfNode

\* Few steps touch the commits.
LEMMA CommitPoolSteps ==
  ASSUME [Next]_vars
  PROVE  \/ UNCHANGED commitPool
         \/ \E n \in Node : ReceiveCommit(n) \/ Commit(n) \/ Finalize(n) \/ EndUpdate(n)
<1>1. CASE UNCHANGED vars
  BY <1>1 DEF vars, poolVars
<1>2. ASSUME NEW n \in Node,
             \/ ReceiveTransac(n) \/ ReceivePrePrepare(n) \/ ReceivePrepare(n)
             \/ ReceiveBlockMsg(n) \/ CheckTransaction(n) \/ AddTransaction(n)
             \/ RemoveDoomed(n) \/ FanOut(n) \/ FanOutTransaction(n)
             \/ Propose(n) \/ Prepare(n) \/ AppendNV(n)
      PROVE  UNCHANGED commitPool
  BY <1>2 DEF ReceiveTransac, ReceivePrePrepare, ReceivePrepare, ReceiveBlockMsg,
              CheckTransaction, AddTransaction, RemoveDoomed, FanOut, FanOutTransaction,
              Propose, Prepare, AppendNV, poolVars
<1> QED
  BY <1>1, <1>2, StepOfNode

\* Confirming moves votes, drops some, and adds none; and what it confirms are
\* votes of the validators it is given.
LEMMA ConfirmVotes ==
  ASSUME NEW pool \in Pools(Block, Node), NEW b, NEW validators
  PROVE  LET confirmed == Confirm(pool, b, validators) IN
         /\ confirmed.unconfirmed \subseteq pool.unconfirmed
         /\ confirmed.confirmed \subseteq pool.unconfirmed \cup pool.confirmed
         /\ \A v \in confirmed.confirmed :
              v \in pool.confirmed \/ (v.block = b /\ v.from \in validators)
         /\ confirmed.validated = pool.validated
BY DEF Confirm, VotesOf, Pools

\* Validate leaves the votes alone.
LEMMA ValidateVotes ==
  ASSUME NEW pool \in Pools(Block, Node), NEW b, NEW nbVal
  PROVE  /\ Validate(pool, b, nbVal).unconfirmed = pool.unconfirmed
         /\ Validate(pool, b, nbVal).confirmed = pool.confirmed
         /\ \A r \in Validate(pool, b, nbVal).validated : r.block = b \/ r \in pool.validated
BY DEF Validate, Pools

\* AddVote adds the vote to those not looked at, if it is new.
LEMMA AddVoteVotes ==
  ASSUME NEW pool \in Pools(Block, Node), NEW vote
  PROVE  /\ pool.unconfirmed \subseteq AddVote(pool, vote).unconfirmed
         /\ AddVote(pool, vote).unconfirmed \subseteq pool.unconfirmed \cup {vote}
         /\ AddVote(pool, vote).confirmed = pool.confirmed
         /\ AddVote(pool, vote).validated = pool.validated
         /\ ExistingVote(AddVote(pool, vote), vote)
BY DEF AddVote, ExistingVote, Pools

\* Remove adds nothing.
LEMMA RemoveVotes ==
  ASSUME NEW pool \in Pools(Block, Node), NEW b
  PROVE  /\ Remove(pool, b).unconfirmed \subseteq pool.unconfirmed
         /\ Remove(pool, b).confirmed \subseteq pool.confirmed
         /\ Remove(pool, b).validated \subseteq pool.validated
         /\ \A v \in pool.unconfirmed : v.block # b => v \in Remove(pool, b).unconfirmed
         /\ \A v \in pool.confirmed : v.block # b => v \in Remove(pool, b).confirmed
BY DEF Remove, VotesOf, Pools

\* The validators a node counts votes with are those of the height of the
\* block it counts them for.
LEMMA ActiveAreVoters ==
  ASSUME IInv, NEW n \in Node, state[n] \in {"Prepared", "Committed"}
  PROVE  active[n] = Voters(current[n])
BY DEF IInv, CacheFresh, BlockAtHand, IsValidNewBlock, Voters

\* What the counting of the votes leaves in the pools.
LEMMA ConfirmedVotes ==
  ASSUME IInv, NEW n \in Node
  PROVE  /\ ConfirmedPrepares(n) \in Pools(Block, Node)
         /\ ConfirmedPrepares(n).unconfirmed \subseteq preparePool[n].unconfirmed
         /\ ConfirmedPrepares(n).confirmed \subseteq PrepareVotes(n)
         /\ \A v \in ConfirmedPrepares(n).confirmed :
              v \in preparePool[n].confirmed \/ v.from \in Voters(v.block)
         /\ ConfirmedCommits(n) \in Pools(Block, Node)
         /\ ConfirmedCommits(n).unconfirmed \subseteq commitPool[n].unconfirmed
         /\ ConfirmedCommits(n).confirmed \subseteq CommitVotes(n)
         /\ \A v \in ConfirmedCommits(n).confirmed :
              v \in commitPool[n].confirmed \/ v.from \in Voters(v.block)
<1> USE DEF IInv
<1>1. preparePool[n] \in Pools(Block, Node) /\ commitPool[n] \in Pools(Block, Node)
  BY DEF TypeOK, PoolType
<1>2. ConfirmedPrepares(n) \in Pools(Block, Node) /\ ConfirmedCommits(n) \in Pools(Block, Node)
  BY ConfirmedType
<1>3. CASE state[n] = "Prepared"
  <2>1. active[n] = Voters(current[n])
    BY <1>3, ActiveAreVoters
  <2>2. /\ ConfirmedPrepares(n) = Confirm(preparePool[n], current[n], active[n])
        /\ ConfirmedCommits(n) = commitPool[n]
    BY <1>3 DEF ConfirmedPrepares, ConfirmedCommits
  <2> QED
    BY <1>1, <1>2, <2>1, <2>2, ConfirmVotes DEF PrepareVotes, CommitVotes
<1>4. CASE state[n] = "Committed"
  <2>1. active[n] = Voters(current[n])
    BY <1>4, ActiveAreVoters
  <2>2. /\ ConfirmedPrepares(n) = preparePool[n]
        /\ ConfirmedCommits(n) = Confirm(commitPool[n], current[n], active[n])
    BY <1>4 DEF ConfirmedPrepares, ConfirmedCommits
  <2> QED
    BY <1>1, <1>2, <2>1, <2>2, ConfirmVotes DEF PrepareVotes, CommitVotes
<1>5. CASE state[n] \notin {"Prepared", "Committed"}
  BY <1>1, <1>5 DEF ConfirmedPrepares, ConfirmedCommits, PrepareVotes, CommitVotes
<1> QED
  BY <1>3, <1>4, <1>5

\* Every prepare in a pool was there before, has just arrived, or is the vote
\* the node has just cast; and it is confirmed only as the vote of a voter.
LEMMA PreparesFrom ==
  ASSUME IInv, [Next]_vars, NEW k \in Node
  PROVE  /\ \A v \in PrepareVotes(k)' :
              \/ v \in PrepareVotes(k)
              \/ \E m \in OnTheWay : m.type = "Prepare" /\ v.block = m.block /\ v.from = m.from
              \/ v.from = k /\ state'[k] = "Prepared" /\ current'[k] = v.block
         /\ \A v \in preparePool'[k].confirmed :
              v \in preparePool[k].confirmed \/ v.from \in Voters(v.block)
<1> DEFINE Goal ==
      /\ \A v \in PrepareVotes(k)' :
              \/ v \in PrepareVotes(k)
              \/ \E m \in OnTheWay : m.type = "Prepare" /\ v.block = m.block /\ v.from = m.from
              \/ v.from = k /\ state'[k] = "Prepared" /\ current'[k] = v.block
      /\ \A v \in preparePool'[k].confirmed :
              v \in preparePool[k].confirmed \/ v.from \in Voters(v.block)
<1> USE DEF PrepareVotes
<1>1. preparePool \in [Node -> Pools(Block, Node)]
  BY DEF IInv, TypeOK, PoolType
<1>2. CASE UNCHANGED preparePool
  BY <1>2
<1>3. ASSUME NEW n \in Node, ReceivePrepare(n) PROVE Goal
  <2> DEFINE pool(m) == AddVote(preparePool[n], Vote(m.block, m.from))
  <2>1. PICK m \in net[n] :
          /\ m.type = "Prepare"
          /\ \/ UNCHANGED preparePool
             \/ preparePool' = [preparePool EXCEPT ![n] =
                  IF RamOpt /\ PrepareIsOld(n, pool(m), m.block)
                    THEN Remove(pool(m), m.block) ELSE pool(m)]
    BY <1>3 DEF ReceivePrepare
  <2>2. m \in Messages /\ m \in VoteMessages /\ m \in OnTheWay
    BY <2>1, MessageInNet DEF IInv, Messages, TxMessages, BlockMessages
  <2>3. /\ pool(m) \in Pools(Block, Node)
        /\ pool(m).unconfirmed \subseteq preparePool[n].unconfirmed \cup {Vote(m.block, m.from)}
        /\ pool(m).confirmed = preparePool[n].confirmed
    BY <1>1, <2>2, AddVoteType, AddVoteVotes DEF VoteMessages
  <2> HIDE DEF pool
  <2>4. /\ Remove(pool(m), m.block).unconfirmed \subseteq pool(m).unconfirmed
        /\ Remove(pool(m), m.block).confirmed \subseteq pool(m).confirmed
    BY <2>3, RemoveVotes
  <2>5. PICK after : /\ \/ UNCHANGED preparePool
                        \/ preparePool' = [preparePool EXCEPT ![n] = after]
                     /\ after.unconfirmed \subseteq preparePool[n].unconfirmed
                                                    \cup {Vote(m.block, m.from)}
                     /\ after.confirmed \subseteq preparePool[n].confirmed
    BY <2>1, <2>3, <2>4
  <2>6. preparePool'[k] = preparePool[k] \/ (k = n /\ preparePool'[k] = after)
    BY <1>1, <2>5
  <2> QED
    BY <2>1, <2>2, <2>5, <2>6 DEF Vote
<1>4. ASSUME NEW n \in Node, Prepare(n) PROVE Goal
  <2>1. PICK b \in ValidBlocks(n) :
          /\ current' = [current EXCEPT ![n] = b]
          /\ preparePool' = [preparePool EXCEPT ![n] = AddVote(@, Vote(b, n))]
    BY <1>4 DEF Prepare
  <2>2. state'[n] = "Prepared" /\ current'[n] = b
    BY <1>4, <2>1 DEF Prepare, Continue, IInv, TypeOK, RoundType
  <2>3. k # n => preparePool'[k] = preparePool[k]
    BY <1>1, <2>1
  <2>4. k = n => preparePool'[k] = AddVote(preparePool[k], Vote(b, n))
    BY <1>1, <2>1
  <2>5. /\ AddVote(preparePool[n], Vote(b, n)).unconfirmed
             \subseteq preparePool[n].unconfirmed \cup {Vote(b, n)}
        /\ AddVote(preparePool[n], Vote(b, n)).confirmed = preparePool[n].confirmed
    BY <1>1, AddVoteVotes
  <2> QED
    BY <2>2, <2>3, <2>4, <2>5 DEF Vote
<1>5. ASSUME NEW n \in Node, Commit(n) \/ EndUpdate(n) PROVE Goal
  <2>1. PICK after : /\ preparePool' = [preparePool EXCEPT ![n] = after]
                     /\ after.unconfirmed = ConfirmedPrepares(n).unconfirmed
                     /\ after.confirmed = ConfirmedPrepares(n).confirmed
    BY <1>5, ConfirmedVotes, ValidateVotes DEF Commit, EndUpdate
  <2>2. k # n => preparePool'[k] = preparePool[k]
    BY <1>1, <2>1
  <2>3. k = n => preparePool'[k] = after
    BY <1>1, <2>1
  <2> QED
    BY <2>1, <2>2, <2>3, ConfirmedVotes
<1> QED
  BY <1>2, <1>3, <1>4, <1>5, PreparePoolSteps

\* The same for the commits.
LEMMA CommitsFrom ==
  ASSUME IInv, [Next]_vars, NEW k \in Node
  PROVE  /\ \A v \in CommitVotes(k)' :
              \/ v \in CommitVotes(k)
              \/ \E m \in OnTheWay : m.type = "Commit" /\ v.block = m.block /\ v.from = m.from
              \/ v.from = k /\ state'[k] = "Committed" /\ current'[k] = v.block
         /\ \A v \in commitPool'[k].confirmed :
              v \in commitPool[k].confirmed \/ v.from \in Voters(v.block)
<1> DEFINE Goal ==
      /\ \A v \in CommitVotes(k)' :
              \/ v \in CommitVotes(k)
              \/ \E m \in OnTheWay : m.type = "Commit" /\ v.block = m.block /\ v.from = m.from
              \/ v.from = k /\ state'[k] = "Committed" /\ current'[k] = v.block
      /\ \A v \in commitPool'[k].confirmed :
              v \in commitPool[k].confirmed \/ v.from \in Voters(v.block)
<1> USE DEF CommitVotes
<1>1. commitPool \in [Node -> Pools(Block, Node)]
  BY DEF IInv, TypeOK, PoolType
<1>2. CASE UNCHANGED commitPool
  BY <1>2
<1>3. ASSUME NEW n \in Node, ReceiveCommit(n) PROVE Goal
  <2> DEFINE pool(m) == AddVote(commitPool[n], Vote(m.block, m.from))
  <2>1. PICK m \in net[n] :
          /\ m.type = "Commit"
          /\ \/ UNCHANGED commitPool
             \/ commitPool' = [commitPool EXCEPT ![n] =
                  IF RamOpt /\ CommitIsOld(n, pool(m), m.block)
                    THEN Remove(pool(m), m.block) ELSE pool(m)]
    BY <1>3 DEF ReceiveCommit
  <2>2. m \in Messages /\ m \in VoteMessages /\ m \in OnTheWay
    BY <2>1, MessageInNet DEF IInv, Messages, TxMessages, BlockMessages
  <2>3. /\ pool(m) \in Pools(Block, Node)
        /\ pool(m).unconfirmed \subseteq commitPool[n].unconfirmed \cup {Vote(m.block, m.from)}
        /\ pool(m).confirmed = commitPool[n].confirmed
    BY <1>1, <2>2, AddVoteType, AddVoteVotes DEF VoteMessages
  <2> HIDE DEF pool
  <2>4. /\ Remove(pool(m), m.block).unconfirmed \subseteq pool(m).unconfirmed
        /\ Remove(pool(m), m.block).confirmed \subseteq pool(m).confirmed
    BY <2>3, RemoveVotes
  <2>5. PICK after : /\ \/ UNCHANGED commitPool
                        \/ commitPool' = [commitPool EXCEPT ![n] = after]
                     /\ after.unconfirmed \subseteq commitPool[n].unconfirmed
                                                    \cup {Vote(m.block, m.from)}
                     /\ after.confirmed \subseteq commitPool[n].confirmed
    BY <2>1, <2>3, <2>4
  <2>6. commitPool'[k] = commitPool[k] \/ (k = n /\ commitPool'[k] = after)
    BY <1>1, <2>5
  <2> QED
    BY <2>1, <2>2, <2>5, <2>6 DEF Vote
<1>4. ASSUME NEW n \in Node, Commit(n) PROVE Goal
  <2> DEFINE b == current[n]
  <2>1. commitPool' = [commitPool EXCEPT ![n] = AddVote(@, Vote(b, n))]
    BY <1>4 DEF Commit
  <2>2. state'[n] = "Committed" /\ current'[n] = b
    BY <1>4 DEF Commit, Continue, IInv, TypeOK, RoundType
  <2> HIDE DEF b
  <2>3. k # n => commitPool'[k] = commitPool[k]
    BY <1>1, <2>1
  <2>4. k = n => commitPool'[k] = AddVote(commitPool[k], Vote(b, n))
    BY <1>1, <2>1
  <2>5. /\ AddVote(commitPool[n], Vote(b, n)).unconfirmed
             \subseteq commitPool[n].unconfirmed \cup {Vote(b, n)}
        /\ AddVote(commitPool[n], Vote(b, n)).confirmed = commitPool[n].confirmed
    BY <1>1, AddVoteVotes
  <2> QED
    BY <2>2, <2>3, <2>4, <2>5 DEF Vote
<1>5. ASSUME NEW n \in Node, Finalize(n) \/ EndUpdate(n) PROVE Goal
  <2>1. PICK after : /\ commitPool' = [commitPool EXCEPT ![n] = after]
                     /\ after.unconfirmed = ConfirmedCommits(n).unconfirmed
                     /\ after.confirmed = ConfirmedCommits(n).confirmed
    BY <1>5, ConfirmedVotes, ValidateVotes DEF Finalize, EndUpdate
  <2>2. k # n => commitPool'[k] = commitPool[k]
    BY <1>1, <2>1
  <2>3. k = n => commitPool'[k] = after
    BY <1>1, <2>1
  <2> QED
    BY <2>1, <2>2, <2>3, ConfirmedVotes
<1> QED
  BY <1>2, <1>3, <1>4, <1>5, CommitPoolSteps

\* The blocks of BlockPoolNV came as BlocMsg.
LEMMA BlocksSent ==
  ASSUME IInv, [Next]_vars, NEW k \in Node, NEW b \in blockPoolNV'[k]
  PROVE  b \in blockPoolNV[k] \/ \E m \in OnTheWay : m.type = "BlocMsg" /\ m.block = b
<1>1. blockPoolNV \in [Node -> SUBSET Block]
  BY DEF IInv, TypeOK, PoolType
<1>2. CASE UNCHANGED vars
  BY <1>2 DEF vars, poolVars
<1>3. ASSUME NEW n \in Node,
             \/ ReceiveTransac(n) \/ ReceivePrePrepare(n) \/ ReceivePrepare(n)
             \/ ReceiveCommit(n) \/ CheckTransaction(n) \/ AddTransaction(n)
             \/ RemoveDoomed(n) \/ FanOut(n) \/ FanOutTransaction(n)
             \/ Propose(n) \/ Prepare(n) \/ Commit(n) \/ Finalize(n) \/ EndUpdate(n)
      PROVE  UNCHANGED blockPoolNV
  BY <1>3 DEF ReceiveTransac, ReceivePrePrepare, ReceivePrepare, ReceiveCommit,
              CheckTransaction, AddTransaction, RemoveDoomed, FanOut, FanOutTransaction,
              Propose, Prepare, Commit, Finalize, EndUpdate, poolVars
<1>4. ASSUME NEW n \in Node, ReceiveBlockMsg(n)
      PROVE  b \in blockPoolNV[k] \/ \E m \in OnTheWay : m.type = "BlocMsg" /\ m.block = b
  BY <1>1, <1>4 DEF ReceiveBlockMsg, OnTheWay
<1>5. ASSUME NEW n \in Node, AppendNV(n)
      PROVE  b \in blockPoolNV[k]
  BY <1>1, <1>5 DEF AppendNV
<1> QED
  BY <1>2, <1>3, <1>4, <1>5, StepOfNode

-----------------------------------------------------------------------------
(***************************************************************************)
(* The certificates.                                                       *)
(***************************************************************************)
\* Enough prepares in the pool of a node are prepares of enough voters.
LEMMA PreparesCertify ==
  ASSUME IInv, VotesCast, ConfirmedByVoters, NEW n \in Node,
         state[n] = "Prepared", EnoughPrepares(n)
  PROVE  Certified(current[n], {v \in Node : HasPrepared(v, current[n])})
<1> DEFINE b == current[n]
           supporters == {v \in Node : HasPrepared(v, b)}
           pool == ConfirmedPrepares(n)
<1>1. b \in Block
  BY DEF IInv, TypeOK, RoundType
<1>2. pool \in Pools(Block, Node)
  BY ConfirmedVotes
<1>3. NbConfirmed(pool, b) >= MinApprovals(Cardinality(Voters(b)))
  BY ActiveAreVoters DEF EnoughPrepares, Approvals
<1>4. ASSUME NEW v \in VotesOf(pool.confirmed, b)
      PROVE  v.from \in supporters \cap Voters(b)
  <2>1. v \in pool.confirmed /\ v.block = b
    BY <1>4 DEF VotesOf
  <2>2. v \in PrepareVotes(n) /\ v.from \in Voters(v.block)
    BY <2>1, ConfirmedVotes DEF ConfirmedByVoters
  <2>3. v.from \in Node
    BY <1>2, <2>1 DEF Pools, Votes
  <2> QED
    BY <2>1, <2>2, <2>3 DEF VotesCast
<1> HIDE DEF b, supporters, pool
<1>5. supporters \in SUBSET Node
  BY DEF supporters
<1> QED
  BY <1>1, <1>2, <1>3, <1>4, <1>5, QuorumCounted DEF supporters, b

\* Enough commits in the pool of a node are commits of enough voters.
LEMMA CommitsCertify ==
  ASSUME IInv, VotesCast, ConfirmedByVoters, NEW n \in Node,
         state[n] = "Committed", EnoughCommits(n)
  PROVE  Certified(current[n], {v \in Node : HasCommitted(v, current[n])})
<1> DEFINE b == current[n]
           supporters == {v \in Node : HasCommitted(v, b)}
           pool == ConfirmedCommits(n)
<1>1. b \in Block
  BY DEF IInv, TypeOK, RoundType
<1>2. pool \in Pools(Block, Node)
  BY ConfirmedVotes
<1>3. NbConfirmed(pool, b) >= MinApprovals(Cardinality(Voters(b)))
  BY ActiveAreVoters DEF EnoughCommits, Approvals
<1>4. ASSUME NEW v \in VotesOf(pool.confirmed, b)
      PROVE  v.from \in supporters \cap Voters(b)
  <2>1. v \in pool.confirmed /\ v.block = b
    BY <1>4 DEF VotesOf
  <2>2. v \in CommitVotes(n) /\ v.from \in Voters(v.block)
    BY <2>1, ConfirmedVotes DEF ConfirmedByVoters
  <2>3. v.from \in Node
    BY <1>2, <2>1 DEF Pools, Votes
  <2> QED
    BY <2>1, <2>2, <2>3 DEF VotesCast
<1> HIDE DEF b, supporters, pool
<1>5. supporters \in SUBSET Node
  BY DEF supporters
<1> QED
  BY <1>1, <1>2, <1>3, <1>4, <1>5, QuorumCounted DEF supporters, b

\* The certificates of all blocks: those that no node knows need none.
Certificates ==
  \A n \in Node, b \in Block \ {Genesis} :
    /\ ExistBlock(n, b) => Certified(b, {v \in Node : HasCommitted(v, b)})
    /\ HasCommitted(n, b) => Certified(b, {v \in Node : HasPrepared(v, b)})

\* Whoever has committed a block knows it.
LEMMA CommittedIsKnown ==
  ASSUME IInv, NEW n \in Node, NEW b \in Block, HasCommitted(n, b)
  PROVE  b \in KnownBlocks
<1>1. b \in HeldBlocks(n)
  BY DEF IInv, BlockAtHand, HasCommitted, ExistBlock, HeldBlocks
<1> QED
  BY <1>1 DEF KnownBlocks

LEMMA KnownCertificates == IInv /\ CommitCertificate => Certificates
BY CommittedIsKnown DEF CommitCertificate, Certificates, HasCommitted

\* A certificate stands.
LEMMA CertificatesStand ==
  ASSUME IInv, [Next]_vars, NEW b \in Block
  PROVE  /\ Certified(b, {v \in Node : HasPrepared(v, b)})
              => Certified(b, {v \in Node : HasPrepared(v, b)'})
         /\ Certified(b, {v \in Node : HasCommitted(v, b)})
              => Certified(b, {v \in Node : HasCommitted(v, b)'})
<1>1. /\ {v \in Node : HasPrepared(v, b)} \in SUBSET {v \in Node : HasPrepared(v, b)'}
      /\ {v \in Node : HasCommitted(v, b)} \in SUBSET {v \in Node : HasCommitted(v, b)'}
  BY VotesStand
<1>2. /\ {v \in Node : HasPrepared(v, b)'} \in SUBSET Node
      /\ {v \in Node : HasCommitted(v, b)'} \in SUBSET Node
  OBVIOUS
<1> QED
  BY <1>1, <1>2, CertifiedByMore

\* What a node has newly executed it has counted the commits of, or was sent.
LEMMA NewlyExecuted ==
  ASSUME IInv, [Next]_vars, NEW n \in Node, NEW b \in Block, ExistBlock(n, b)'
  PROVE  \/ ExistBlock(n, b)
         \/ state[n] = "Committed" /\ current[n] = b /\ EnoughCommits(n)
         \/ state[n] = "NVRound" /\ b \in blockPoolNV[n]
<1> USE DEF IInv
<1>1. CASE chain' = chain
  BY <1>1 DEF ExistBlock
<1>2. ASSUME NEW k \in Node, NEW c \in Block, Executing(k, c)
      PROVE  \/ ExistBlock(n, b)
             \/ state[n] = "Committed" /\ current[n] = b /\ EnoughCommits(n)
             \/ state[n] = "NVRound" /\ b \in blockPoolNV[n]
  <2>1. CASE k # n
    BY <1>2, <2>1 DEF Executing, ExistBlock, TypeOK, ChainType
  <2>2. CASE k = n
    <3>1. chain'[n] = Append(chain[n], c) /\ chain[n] \in Seq(Block)
      BY <1>2, <2>2 DEF Executing, TypeOK, ChainType
    <3>2. \A i \in DOMAIN chain'[n] :
            chain'[n][i] = c \/ (i \in DOMAIN chain[n] /\ chain'[n][i] = chain[n][i])
      BY <3>1
    <3>3. b = c \/ ExistBlock(n, b)
      BY <3>2 DEF ExistBlock
    <3> QED
      BY <1>2, <2>2, <3>3 DEF Executing
  <2> QED
    BY <2>1, <2>2
<1> QED
  BY <1>1, <1>2, StepKeepsInv

\* What a node has newly committed it has counted the prepares of, or executed.
LEMMA NewlyCommitted ==
  ASSUME IInv, [Next]_vars, NEW n \in Node, NEW b \in Block, HasCommitted(n, b)'
  PROVE  \/ HasCommitted(n, b)
         \/ state[n] = "Prepared" /\ current[n] = b /\ EnoughPrepares(n)
         \/ state[n] = "NVRound" /\ b \in blockPoolNV[n]
<1> USE DEF IInv
<1>1. CASE ExistBlock(n, b)'
  BY <1>1, NewlyExecuted DEF HasCommitted
<1>2. CASE ~ExistBlock(n, b)'
  <2>1. state'[n] = "Committed" /\ current'[n] = b
    BY <1>2 DEF HasCommitted
  <2>2. CASE Still
    BY <2>1, <2>2 DEF Still, HasCommitted
  <2>3. ASSUME NEW k \in Node, NEW c \in Block, Voting(k, c)
        PROVE  \/ HasCommitted(n, b)
               \/ state[n] = "Prepared" /\ current[n] = b /\ EnoughPrepares(n)
    BY <2>1, <2>3 DEF Voting, HasCommitted, TypeOK, RoundType
  <2>4. ASSUME NEW k \in Node, NEW c \in Block, Proposing(k, c)
        PROVE  HasCommitted(n, b)
    BY <2>1, <2>4 DEF Proposing, HasCommitted, TypeOK, RoundType
  <2>5. ASSUME NEW k \in Node, NEW c \in Block, Executing(k, c)
        PROVE  HasCommitted(n, b)
    <3>1. StateAfterCommit(k, ActiveAfter(active[k], c), NextProposer(k, c)) # "Committed"
      BY DEF StateAfterCommit
    <3> QED
      BY <2>1, <2>5, <3>1 DEF Executing, HasCommitted, TypeOK, RoundType
  <2> QED
    BY <2>2, <2>3, <2>4, <2>5, RoundStep
<1> QED
  BY <1>1, <1>2

\* At the start no vote has been cast, and only Genesis has been executed.
LEMMA VotesInit == Init => VotesInv
<1> SUFFICES ASSUME Init PROVE VotesInv
  OBVIOUS
<1>1. /\ \A n \in Node : net[n] \subseteq TxMessages /\ outbox[n] = {}
      /\ \A n \in Node : /\ preparePool[n] = EmptyPool /\ commitPool[n] = EmptyPool
                         /\ blockPoolNV[n] = {} /\ chain[n] = <<Genesis>>
                        /\ state[n] \in {"NewRound", "NewRoundProposer"}
  BY ConsensusAssumption DEF Init, TxMessage, TxMessages
<1>2. OnTheWay \subseteq TxMessages
  BY <1>1 DEF OnTheWay
<1>3. VotesCast
  BY <1>1, <1>2 DEF VotesCast, PrepareVotes, CommitVotes, EmptyPool, TxMessages
<1>4. ConfirmedByVoters
  BY <1>1 DEF ConfirmedByVoters, EmptyPool
<1>5. SentWhenExecuted
  BY <1>1, <1>2 DEF SentWhenExecuted, TxMessages
<1>6. CommitCertificate
  <2>1. KnownBlocks \subseteq Block
    BY InitInv, KnownAreBlocks DEF IInv
  <2> QED
    BY <1>1, <2>1 DEF CommitCertificate, ExistBlock, HasCommitted
<1> QED
  BY <1>3, <1>4, <1>5, <1>6 DEF VotesInv

\* A step casts votes, counts them and executes blocks, and keeps all of it.
LEMMA StepKeepsVotes ==
  ASSUME IInv, VotesInv, [Next]_vars
  PROVE  VotesInv'
<1> USE DEF VotesInv
<1>0. Certificates
  BY KnownCertificates
<1>1. ASSUME NEW m \in OnTheWay
      PROVE  /\ m.type \in {"Prepare", "Commit"} => m.block \in Block /\ m.from \in Node
             /\ m.type = "BlocMsg" => m.block \in Block
  <2>1. m \in Messages
    BY DEF IInv, TypeOK, WireType, OnTheWay
  <2> QED
    BY <2>1 DEF Messages, TxMessages, BlockMessages, VoteMessages
<1>2. ASSUME NEW m \in OnTheWay'
      PROVE  /\ m.type = "Prepare" => HasPrepared(m.from, m.block)'
             /\ m.type = "Commit" => HasCommitted(m.from, m.block)'
             /\ m.type = "BlocMsg" => \E v \in Node : ExistBlock(v, m.block)'
  <2>1. CASE m \in OnTheWay
    <3>1. /\ m.type = "Prepare" => HasPrepared(m.from, m.block)
          /\ m.type = "Commit" => HasCommitted(m.from, m.block)
          /\ m.type = "BlocMsg" => \E v \in Node : ExistBlock(v, m.block)
      BY <2>1 DEF VotesCast, SentWhenExecuted
    <3>2. m.type = "Prepare" => HasPrepared(m.from, m.block)'
      BY <1>1, <2>1, <3>1, VotesStand
    <3>3. m.type = "Commit" => HasCommitted(m.from, m.block)'
      BY <1>1, <2>1, <3>1, VotesStand
    <3>4. m.type = "BlocMsg" => \E v \in Node : ExistBlock(v, m.block)'
      BY <1>1, <2>1, <3>1, VotesStand
    <3> QED
      BY <3>2, <3>3, <3>4
  <2>2. CASE m \in TxMessages
    BY <2>2 DEF TxMessages
  <2>3. ASSUME NEW n \in Node, NEW b \in Block, Voting(n, b), m \notin OnTheWay
        PROVE  \/ m = VoteMessage("Prepare", b, n) /\ HasPrepared(n, b)'
               \/ m = VoteMessage("Commit", b, n) /\ HasCommitted(n, b)'
    BY <1>2, <2>3 DEF Voting, HasPrepared, HasCommitted, IInv, TypeOK, RoundType
  <2>4. ASSUME NEW n \in Node, NEW b \in Block, Proposing(n, b), m \notin OnTheWay
        PROVE  m \in TxMessages \/ m = BlockMessage("PrePrepare", b)
    BY <1>2, <2>4 DEF Proposing
  <2>5. ASSUME NEW n \in Node, NEW b \in Block, Executing(n, b), m \notin OnTheWay
        PROVE  m = BlockMessage("BlocMsg", b) /\ ExistBlock(n, b)'
    <3>1. chain'[n] = Append(chain[n], b) /\ chain[n] \in Seq(Block)
      BY <2>5 DEF Executing, IInv, TypeOK, ChainType
    <3>2. Len(chain[n]) + 1 \in DOMAIN chain'[n] /\ chain'[n][Len(chain[n]) + 1] = b
      BY <3>1
    <3>3. ExistBlock(n, b)'
      BY <3>2 DEF ExistBlock
    <3> QED
      BY <1>2, <2>5, <3>3 DEF Executing
  <2>6. CASE Still
    BY <1>2, <2>1, <2>2, <2>6 DEF Still
  <2> QED
    BY <2>1, <2>2, <2>3, <2>4, <2>5, <2>6, RoundStep DEF VoteMessage, BlockMessage
<1>3. ASSUME NEW n \in Node
      PROVE  /\ preparePool[n] \in Pools(Block, Node) /\ commitPool[n] \in Pools(Block, Node)
             /\ \A v \in PrepareVotes(n) \cup CommitVotes(n) : v.block \in Block /\ v.from \in Node
  BY DEF IInv, TypeOK, PoolType, Pools, Votes, PrepareVotes, CommitVotes
<1>4. ASSUME NEW n \in Node, NEW v \in PrepareVotes(n)' PROVE HasPrepared(v.from, v.block)'
  <2>1. CASE v \in PrepareVotes(n)
    BY <1>3, <2>1, VotesStand DEF VotesCast
  <2>2. ASSUME NEW m \in OnTheWay, m.type = "Prepare", v.block = m.block, v.from = m.from
        PROVE  HasPrepared(v.from, v.block)'
    <3>1. HasPrepared(m.from, m.block) /\ m.block \in Block /\ m.from \in Node
      BY <1>1, <2>2 DEF VotesCast
    <3>2. HasPrepared(m.from, m.block)'
      BY <3>1, VotesStand
    <3> QED
      BY <2>2, <3>2
  <2>3. CASE v.from = n /\ state'[n] = "Prepared" /\ current'[n] = v.block
    BY <2>3 DEF HasPrepared
  <2> QED
    BY <1>4, <2>1, <2>2, <2>3, PreparesFrom
<1>5. ASSUME NEW n \in Node, NEW v \in CommitVotes(n)' PROVE HasCommitted(v.from, v.block)'
  <2>1. CASE v \in CommitVotes(n)
    BY <1>3, <2>1, VotesStand DEF VotesCast
  <2>2. ASSUME NEW m \in OnTheWay, m.type = "Commit", v.block = m.block, v.from = m.from
        PROVE  HasCommitted(v.from, v.block)'
    <3>1. HasCommitted(m.from, m.block) /\ m.block \in Block /\ m.from \in Node
      BY <1>1, <2>2 DEF VotesCast
    <3>2. HasCommitted(m.from, m.block)'
      BY <3>1, VotesStand
    <3> QED
      BY <2>2, <3>2
  <2>3. CASE v.from = n /\ state'[n] = "Committed" /\ current'[n] = v.block
    BY <2>3 DEF HasCommitted
  <2> QED
    BY <1>5, <2>1, <2>2, <2>3, CommitsFrom
<1>6. VotesCast'
  BY <1>2, <1>4, <1>5 DEF VotesCast
<1>7. ConfirmedByVoters'
  <2> SUFFICES ASSUME NEW n \in Node, NEW v \in preparePool'[n].confirmed \cup commitPool'[n].confirmed
               PROVE  v.from \in Voters(v.block)
    BY DEF ConfirmedByVoters, Voters
  <2> QED
    BY PreparesFrom, CommitsFrom DEF ConfirmedByVoters
<1>8. SentWhenExecuted'
  <2>1. ASSUME NEW n \in Node, NEW b \in blockPoolNV'[n]
        PROVE  \E v \in Node : ExistBlock(v, b)'
    <3>1. CASE b \in blockPoolNV[n]
      <4>1. b \in Block
        BY <3>1 DEF IInv, TypeOK, PoolType
      <4> QED
        BY <3>1, <4>1, VotesStand DEF SentWhenExecuted
    <3>2. ASSUME NEW m \in OnTheWay, m.type = "BlocMsg", m.block = b
          PROVE  \E v \in Node : ExistBlock(v, b)'
      BY <1>1, <3>2, VotesStand DEF SentWhenExecuted
    <3> QED
      BY <2>1, <3>1, <3>2, BlocksSent
  <2> QED
    BY <1>2, <2>1 DEF SentWhenExecuted
<1>9. Certificates'
  <2> SUFFICES ASSUME NEW n \in Node, NEW b \in Block \ {Genesis}
               PROVE  /\ ExistBlock(n, b)' => Certified(b, {v \in Node : HasCommitted(v, b)'})
                      /\ HasCommitted(n, b)' => Certified(b, {v \in Node : HasPrepared(v, b)'})
    BY DEF Certificates, Certified, Voters
  <2>1. \A k \in Node : ExistBlock(k, b) =>
             /\ Certified(b, {v \in Node : HasCommitted(v, b)})
             /\ Certified(b, {v \in Node : HasPrepared(v, b)})
    BY <1>0 DEF Certificates, HasCommitted
  <2>2. b \in blockPoolNV[n] =>
             /\ Certified(b, {v \in Node : HasCommitted(v, b)})
             /\ Certified(b, {v \in Node : HasPrepared(v, b)})
    BY <2>1 DEF SentWhenExecuted
  <2>3. ASSUME ExistBlock(n, b)'
        PROVE  Certified(b, {v \in Node : HasCommitted(v, b)'})
    <3>1. Certified(b, {v \in Node : HasCommitted(v, b)})
      BY <2>1, <2>2, <2>3, NewlyExecuted, CommitsCertify
    <3> QED
      BY <3>1, CertificatesStand
  <2>4. ASSUME HasCommitted(n, b)'
        PROVE  Certified(b, {v \in Node : HasPrepared(v, b)'})
    <3>1. Certified(b, {v \in Node : HasPrepared(v, b)})
      BY <1>0, <2>2, <2>4, NewlyCommitted, PreparesCertify DEF Certificates
    <3> QED
      BY <3>1, CertificatesStand
  <2> QED
    BY <2>3, <2>4
<1>10. \A n \in Node : \A b : HasCommitted(n, b)' => b \in Block
  <2>1. TypeOK'
    BY StepKeepsInv DEF IInv
  <2>2. \A n \in Node : chain'[n] \in Seq(Block) /\ current'[n] \in Block
    BY <2>1 DEF TypeOK, ChainType, RoundType
  <2> QED
    BY <2>2 DEF HasCommitted, ExistBlock
<1>11. CommitCertificate'
  BY <1>9, <1>10 DEF CommitCertificate, Certificates, HasCommitted
<1> QED
  BY <1>6, <1>7, <1>8, <1>11

\* Votes are cast, confirmed and counted as they should, in every reachable state.
THEOREM VotesInvariance == Spec => [](IInv /\ VotesInv)
<1>1. Init => IInv /\ VotesInv
  BY InitInv, VotesInit
<1>2. (IInv /\ VotesInv) /\ [Next]_vars => (IInv /\ VotesInv)'
  BY StepKeepsInv, StepKeepsVotes
<1> QED
  BY <1>1, <1>2, PTL DEF Spec

\* A quorum of the validators of its height has committed every block that is
\* executed, and prepared every block that is committed.
THEOREM QuorumsBehindBlocks == Spec => []CommitCertificate
BY VotesInvariance, PTL DEF VotesInv
-----------------------------------------------------------------------------
(***************************************************************************)
(* No vote is lost while every node is a voter (without PoANV).            *)
(***************************************************************************)
\* Delivering takes nothing out of a channel, and puts the message into those
\* of the nodes it is for.
LEMMA DeliverGrows ==
  ASSUME NEW channels, NEW nodes, NEW m, NEW k \in Node
  PROVE  /\ channels[k] \subseteq Deliver(channels, nodes, m)[k]
         /\ k \in nodes => m \in Deliver(channels, nodes, m)[k]
BY DEF Deliver

\* Handing over a message takes nothing out of a channel.
LEMMA SendingGrows ==
  ASSUME NEW n, NEW m, NEW rest, NEW k \in Node,
         \/ BroadcastMessage(n, m, rest) \/ TransmitTransaction(n, m, rest)
         \/ NoMessage(rest) \/ Relay(n, m, rest)
  PROVE  rest[k] \subseteq net'[k]
<1>1. CASE BroadcastMessage(n, m, rest)
  BY <1>1, DeliverGrows DEF BroadcastMessage
<1>2. CASE TransmitTransaction(n, m, rest)
  BY <1>2 DEF TransmitTransaction
<1>3. CASE NoMessage(rest)
  BY <1>3 DEF NoMessage
<1>4. CASE Relay(n, m, rest)
  BY <1>1, <1>3, <1>4 DEF Relay
<1> QED
  BY <1>1, <1>2, <1>3, <1>4

\* Receiving a message takes that message out of one channel.
LEMMA ReceivedKeeps ==
  ASSUME WireType, NEW n \in Node, NEW m, NEW k \in Node, NEW w \in net[k],
         w # m \/ k # n
  PROVE  w \in Received(n, m)[k]
BY DEF WireType, Received

\* A transaction that is accepted and passed on takes nothing out of a channel.
LEMMA TrustedGrows ==
  ASSUME NEW n, NEW m, NEW rest, NEW k \in Node, ReceiveTrustedMess(n, m, rest)
  PROVE  rest[k] \subseteq net'[k]
<1>1. \E w : \/ BroadcastMessage(n, w, rest) \/ TransmitTransaction(n, w, rest)
             \/ NoMessage(rest)
  BY DEF ReceiveTrustedMess
<1> QED
  BY <1>1, SendingGrows

\* What is in a channel stays there until its node receives it.
LEMMA NetKept ==
  ASSUME IInv, [Next]_vars, NEW k \in Node, NEW w \in net[k], w \notin net'[k]
  PROVE  \/ w.type = "Transaction" /\ (ReceiveTransac(k) \/ CheckTransaction(k))
         \/ w.type \in {"PrePrepare", "BlocMsg"}
         \/ w.type = "Prepare" /\ ReceivePrepare(k)
         \/ w.type = "Commit" /\ ReceiveCommit(k)
<1> DEFINE Goal == \/ w.type = "Transaction" /\ (ReceiveTransac(k) \/ CheckTransaction(k))
                   \/ w.type \in {"PrePrepare", "BlocMsg"}
                   \/ w.type = "Prepare" /\ ReceivePrepare(k)
                   \/ w.type = "Commit" /\ ReceiveCommit(k)
<1>1. WireType /\ net \in Channels
  BY DEF IInv, TypeOK, WireType, Channels
<1>2. \A n \in Node : \A m : Received(n, m) \in Channels
  BY <1>1, ReceivedType
<1>3. CASE UNCHANGED vars
  BY <1>3 DEF vars
<1>4. ASSUME NEW n \in Node, NEW m \in net[n], Received(n, m)[k] \subseteq net'[k]
      PROVE  k = n /\ w = m
  BY <1>1, <1>4, ReceivedKeeps
<1>5. ASSUME NEW n \in Node, ReceiveTransac(n) PROVE Goal
  <2>1. PICK m \in net[n] :
          /\ m.type = "Transaction"
          /\ ReceiveTrustedMess(n, m, Received(n, m)) \/ NoMessage(Received(n, m))
    BY <1>5 DEF ReceiveTransac
  <2> QED
    BY <1>2, <1>4, <1>5, <2>1, TrustedGrows, SendingGrows
<1>6. ASSUME NEW n \in Node, CheckTransaction(n) PROVE Goal
  <2>1. PICK m \in net[n] : m.type = "Transaction" /\ NoMessage(Received(n, m))
    BY <1>6 DEF CheckTransaction
  <2> QED
    BY <1>2, <1>4, <1>6, <2>1, SendingGrows
<1>7. ASSUME NEW n \in Node, ReceivePrePrepare(n) PROVE Goal
  <2>1. PICK m \in net[n] :
          /\ m.type = "PrePrepare"
          /\ Relay(n, m, Received(n, m)) \/ NoMessage(Received(n, m))
    BY <1>7 DEF ReceivePrePrepare
  <2> QED
    BY <1>2, <1>4, <2>1, SendingGrows
<1>8. ASSUME NEW n \in Node, ReceivePrepare(n) PROVE Goal
  <2>1. PICK m \in net[n] :
          /\ m.type = "Prepare"
          /\ Relay(n, m, Received(n, m)) \/ NoMessage(Received(n, m))
    BY <1>8 DEF ReceivePrepare
  <2> QED
    BY <1>2, <1>4, <1>8, <2>1, SendingGrows
<1>9. ASSUME NEW n \in Node, ReceiveCommit(n) PROVE Goal
  <2>1. PICK m \in net[n] :
          /\ m.type = "Commit"
          /\ Relay(n, m, Received(n, m)) \/ NoMessage(Received(n, m))
    BY <1>9 DEF ReceiveCommit
  <2> QED
    BY <1>2, <1>4, <1>9, <2>1, SendingGrows
<1>10. ASSUME NEW n \in Node, ReceiveBlockMsg(n) PROVE Goal
  <2>1. PICK m \in net[n] : m.type = "BlocMsg" /\ NoMessage(Received(n, m))
    BY <1>10 DEF ReceiveBlockMsg
  <2> QED
    BY <1>2, <1>4, <2>1, SendingGrows
<1>11. ASSUME NEW n \in Node,
              AddTransaction(n) \/ Prepare(n) \/ Commit(n)
       PROVE  net[k] \subseteq net'[k]
  BY <1>1, <1>11, TrustedGrows, SendingGrows DEF AddTransaction, Prepare, Commit
<1>12. ASSUME NEW n \in Node,
              \/ RemoveDoomed(n) \/ FanOut(n) \/ FanOutTransaction(n)
              \/ Finalize(n) \/ AppendNV(n) \/ EndUpdate(n)
       PROVE  net[k] \subseteq net'[k]
  <2>1. net' = net \/ \E nodes, m : net' = Deliver(net, nodes, m)
    BY <1>12 DEF RemoveDoomed, FanOut, FanOutTransaction, Finalize, AppendNV, EndUpdate
  <2> QED
    BY <2>1, DeliverGrows
<1>13. ASSUME NEW n \in Node, Propose(n)
       PROVE  net[k] \subseteq net'[k]
  <2>1. PICK told, m : /\ told = net \/ \E nodes, c : told = Deliver(net, nodes, c)
                       /\ BroadcastMessage(n, m, told)
    BY <1>13 DEF Propose
  <2> QED
    BY <1>1, <2>1, DeliverGrows, SendingGrows
<1> QED
  BY <1>3, <1>5, <1>6, <1>7, <1>8, <1>9, <1>10, <1>11, <1>12, <1>13, StepOfNode

\* Confirming keeps the votes of the validators, and those for other blocks.
LEMMA ConfirmKeeps ==
  ASSUME NEW pool \in Pools(Block, Node), NEW b, NEW validators, NEW vote,
         ExistingVote(pool, vote), vote.block = b => vote.from \in validators
  PROVE  ExistingVote(Confirm(pool, b, validators), vote)
BY DEF ExistingVote, Confirm, VotesOf, Pools

\* Counting keeps the votes of the voters of every block.
LEMMA CountingKeeps ==
  ASSUME IInv, NEW n \in Node, NEW b \in Block, NEW v \in Voters(b)
  PROVE  /\ ExistingVote(preparePool[n], Vote(b, v))
              => ExistingVote(ConfirmedPrepares(n), Vote(b, v))
         /\ ExistingVote(commitPool[n], Vote(b, v))
              => ExistingVote(ConfirmedCommits(n), Vote(b, v))
<1>1. preparePool[n] \in Pools(Block, Node) /\ commitPool[n] \in Pools(Block, Node)
  BY DEF IInv, TypeOK, PoolType
<1>2. Vote(b, v).block = b /\ Vote(b, v).from = v
  BY DEF Vote
<1>3. ASSUME state[n] = "Prepared", ExistingVote(preparePool[n], Vote(b, v))
      PROVE  ExistingVote(Confirm(preparePool[n], current[n], active[n]), Vote(b, v))
  BY <1>1, <1>2, <1>3, ActiveAreVoters, ConfirmKeeps
<1>4. ASSUME state[n] = "Committed", ExistingVote(commitPool[n], Vote(b, v))
      PROVE  ExistingVote(Confirm(commitPool[n], current[n], active[n]), Vote(b, v))
  BY <1>1, <1>2, <1>4, ActiveAreVoters, ConfirmKeeps
<1> QED
  BY <1>3, <1>4 DEF ConfirmedPrepares, ConfirmedCommits

\* A received vote is in the pool, unless the block is settled there; so is
\* every vote that was.
LEMMA ReceivedVoteKept ==
  ASSUME NEW pool \in Pools(Block, Node), NEW c \in Block, NEW from \in Node,
         NEW after, NEW settled, NEW vote,
         \/ after = pool /\ ExistingVote(pool, Vote(c, from))
         \/ after = AddVote(pool, Vote(c, from))
         \/ after = Remove(AddVote(pool, Vote(c, from)), c) /\ settled,
         vote = Vote(c, from) \/ ExistingVote(pool, vote),
         settled => vote.block # c
  PROVE  ExistingVote(after, vote)
<1> DEFINE added == AddVote(pool, Vote(c, from))
<1>1. added \in Pools(Block, Node)
  BY AddVoteType
<1>2. ExistingVote(added, vote)
  BY AddVoteVotes DEF ExistingVote
<1> HIDE DEF added
<1>3. ASSUME settled PROVE ExistingVote(Remove(added, c), vote)
  BY <1>1, <1>2, <1>3, RemoveVotes DEF ExistingVote
<1> QED
  BY <1>2, <1>3 DEF added, ExistingVote

\* A prepare of a voter that has reached a node, or will, still has or will
\* after a step, unless the node needs it no more.
LEMMA PrepareStays ==
  ASSUME IInv, VotesCast, [Next]_vars, NEW n \in Node, NEW b \in Block, NEW v \in Voters(b),
         ~HasCommitted(n, b),
         \/ ExistingVote(preparePool[n], Vote(b, v))
         \/ VoteMessage("Prepare", b, v) \in net[n]
  PROVE  \/ ExistingVote(preparePool[n], Vote(b, v))'
         \/ VoteMessage("Prepare", b, v) \in net'[n]
<1> DEFINE vote == Vote(b, v)
           message == VoteMessage("Prepare", b, v)
<1>1. preparePool \in [Node -> Pools(Block, Node)]
  BY DEF IInv, TypeOK, PoolType
<1>2. message.type = "Prepare" /\ message.block = b /\ message.from = v /\ vote.block = b
  BY DEF VoteMessage, Vote
<1>3. ASSUME ReceivePrepare(n),
             ExistingVote(preparePool[n], vote) \/ (message \in net[n] /\ message \notin net'[n])
      PROVE  ExistingVote(preparePool'[n], vote)
  <2> DEFINE pool(m) == AddVote(preparePool[n], Vote(m.block, m.from))
             old(m) == RamOpt /\ PrepareIsOld(n, pool(m), m.block)
  <2>1. PICK m \in net[n] :
          /\ m.type = "Prepare"
          /\ \/ /\ NoMessage(Received(n, m)) /\ UNCHANGED preparePool
                /\ ExistingVote(preparePool[n], Vote(m.block, m.from))
             \/ /\ Relay(n, m, Received(n, m))
                /\ preparePool' = [preparePool EXCEPT ![n] =
                     IF old(m) THEN Remove(pool(m), m.block) ELSE pool(m)]
    BY <1>3 DEF ReceivePrepare
  <2>2. m \in Messages /\ m \in VoteMessages
    BY <2>1, MessageInNet DEF IInv, Messages, TxMessages, BlockMessages
  <2>3. m.block \in Block /\ m.from \in Node
    BY <2>2 DEF VoteMessages
  <2>4. message \in net[n] /\ message \notin net'[n] => message = m
    <3>1. Received(n, m)[n] \subseteq net'[n]
      BY <2>1, SendingGrows
    <3> QED
      BY <3>1, ReceivedKeeps DEF IInv, TypeOK
  <2>5. vote = Vote(m.block, m.from) \/ ExistingVote(preparePool[n], vote)
    BY <1>2, <1>3, <2>4
  <2>6. old(m) => b # m.block
    <3> SUFFICES ASSUME old(m), b = m.block PROVE FALSE
      OBVIOUS
    <3>1. ExistingVote(commitPool[n], Vote(b, n))
      BY DEF PrepareIsOld, HaveCommitFrom, HasCommitted
    <3>2. HasCommitted(n, b)
      BY <3>1 DEF VotesCast, CommitVotes, ExistingVote, Vote
    <3> QED
      BY <3>2
  <2> HIDE DEF vote, message, old
  <2>7. \/ preparePool'[n] = preparePool[n] /\ ExistingVote(preparePool[n], Vote(m.block, m.from))
        \/ preparePool'[n] = pool(m)
        \/ preparePool'[n] = Remove(pool(m), m.block) /\ old(m)
    BY <1>1, <2>1
  <2> QED
    BY <1>1, <1>2, <2>3, <2>5, <2>6, <2>7, ReceivedVoteKept
<1>4. ASSUME message \in net[n], message \notin net'[n] PROVE ReceivePrepare(n)
  BY <1>2, <1>4, NetKept
<1>5. ASSUME ExistingVote(preparePool[n], vote)
      PROVE  ExistingVote(preparePool'[n], vote)
  <2>1. ASSUME NEW k \in Node, k # n,
               ReceivePrepare(k) \/ Prepare(k) \/ Commit(k) \/ EndUpdate(k)
        PROVE  preparePool'[n] = preparePool[n]
    <3>1. \/ UNCHANGED preparePool
          \/ \E after : preparePool' = [preparePool EXCEPT ![k] = after]
      BY <2>1 DEF ReceivePrepare, Prepare, Commit, EndUpdate
    <3> QED
      BY <1>1, <2>1, <3>1
  <2>2. CASE Prepare(n)
    <3>1. \E w : preparePool'[n] = AddVote(preparePool[n], w)
      BY <1>1, <2>2 DEF Prepare
    <3> QED
      BY <1>1, <1>5, <3>1, AddVoteVotes DEF ExistingVote
  <2>3. CASE Commit(n) \/ EndUpdate(n)
    <3>1. \/ preparePool'[n] = ConfirmedPrepares(n)
          \/ \E c, k : preparePool'[n] = Validate(ConfirmedPrepares(n), c, k)
      BY <1>1, <2>3 DEF Commit, EndUpdate
    <3>2. ExistingVote(ConfirmedPrepares(n), vote)
      BY <1>5, CountingKeeps
    <3>3. ConfirmedPrepares(n) \in Pools(Block, Node)
      BY ConfirmedVotes
    <3> QED
      BY <3>1, <3>2, <3>3, ValidateVotes DEF ExistingVote
  <2> QED
    BY <1>3, <1>5, <2>1, <2>2, <2>3, PreparePoolSteps
<1> QED
  BY <1>3, <1>4, <1>5

\* The same for a commit.
LEMMA CommitStays ==
  ASSUME IInv, [Next]_vars, NEW n \in Node, NEW b \in Block, NEW v \in Voters(b),
         ~ExistBlock(n, b),
         \/ ExistingVote(commitPool[n], Vote(b, v))
         \/ VoteMessage("Commit", b, v) \in net[n]
  PROVE  \/ ExistingVote(commitPool[n], Vote(b, v))'
         \/ VoteMessage("Commit", b, v) \in net'[n]
<1> DEFINE vote == Vote(b, v)
           message == VoteMessage("Commit", b, v)
<1>1. commitPool \in [Node -> Pools(Block, Node)]
  BY DEF IInv, TypeOK, PoolType
<1>2. message.type = "Commit" /\ message.block = b /\ message.from = v /\ vote.block = b
  BY DEF VoteMessage, Vote
<1>3. ASSUME ReceiveCommit(n),
             ExistingVote(commitPool[n], vote) \/ (message \in net[n] /\ message \notin net'[n])
      PROVE  ExistingVote(commitPool'[n], vote)
  <2> DEFINE pool(m) == AddVote(commitPool[n], Vote(m.block, m.from))
             old(m) == RamOpt /\ CommitIsOld(n, pool(m), m.block)
  <2>1. PICK m \in net[n] :
          /\ m.type = "Commit"
          /\ \/ /\ NoMessage(Received(n, m)) /\ UNCHANGED commitPool
                /\ ExistingVote(commitPool[n], Vote(m.block, m.from))
             \/ /\ Relay(n, m, Received(n, m))
                /\ commitPool' = [commitPool EXCEPT ![n] =
                     IF old(m) THEN Remove(pool(m), m.block) ELSE pool(m)]
    BY <1>3 DEF ReceiveCommit
  <2>2. m \in Messages /\ m \in VoteMessages
    BY <2>1, MessageInNet DEF IInv, Messages, TxMessages, BlockMessages
  <2>3. m.block \in Block /\ m.from \in Node
    BY <2>2 DEF VoteMessages
  <2>4. message \in net[n] /\ message \notin net'[n] => message = m
    <3>1. Received(n, m)[n] \subseteq net'[n]
      BY <2>1, SendingGrows
    <3> QED
      BY <3>1, ReceivedKeeps DEF IInv, TypeOK
  <2>5. vote = Vote(m.block, m.from) \/ ExistingVote(commitPool[n], vote)
    BY <1>2, <1>3, <2>4
  <2>6. old(m) => b # m.block
    BY DEF CommitIsOld
  <2> HIDE DEF vote, message, old
  <2>7. \/ commitPool'[n] = commitPool[n] /\ ExistingVote(commitPool[n], Vote(m.block, m.from))
        \/ commitPool'[n] = pool(m)
        \/ commitPool'[n] = Remove(pool(m), m.block) /\ old(m)
    BY <1>1, <2>1
  <2> QED
    BY <1>1, <1>2, <2>3, <2>5, <2>6, <2>7, ReceivedVoteKept
<1>4. ASSUME message \in net[n], message \notin net'[n] PROVE ReceiveCommit(n)
  BY <1>2, <1>4, NetKept
<1>5. ASSUME ExistingVote(commitPool[n], vote)
      PROVE  ExistingVote(commitPool'[n], vote)
  <2>1. ASSUME NEW k \in Node, k # n,
               ReceiveCommit(k) \/ Commit(k) \/ Finalize(k) \/ EndUpdate(k)
        PROVE  commitPool'[n] = commitPool[n]
    <3>1. \/ UNCHANGED commitPool
          \/ \E after : commitPool' = [commitPool EXCEPT ![k] = after]
      BY <2>1 DEF ReceiveCommit, Commit, Finalize, EndUpdate
    <3> QED
      BY <1>1, <2>1, <3>1
  <2>2. CASE Commit(n)
    <3>1. \E w : commitPool'[n] = AddVote(commitPool[n], w)
      BY <1>1, <2>2 DEF Commit
    <3> QED
      BY <1>1, <1>5, <3>1, AddVoteVotes DEF ExistingVote
  <2>3. CASE Finalize(n) \/ EndUpdate(n)
    <3>1. \/ commitPool'[n] = ConfirmedCommits(n)
          \/ \E c, k : commitPool'[n] = Validate(ConfirmedCommits(n), c, k)
      BY <1>1, <2>3 DEF Finalize, EndUpdate
    <3>2. ExistingVote(ConfirmedCommits(n), vote)
      BY <1>5, CountingKeeps
    <3>3. ConfirmedCommits(n) \in Pools(Block, Node)
      BY ConfirmedVotes
    <3> QED
      BY <3>1, <3>2, <3>3, ValidateVotes DEF ExistingVote
  <2> QED
    BY <1>3, <1>5, <2>1, <2>2, <2>3, CommitPoolSteps
<1> QED
  BY <1>3, <1>4, <1>5

\* Without inactive nodes, a node prepares and commits a block by voting for it.
LEMMA VoteIsCast ==
  ASSUME IInv, NoInactive, [Next]_vars, NEW v \in Node, NEW b \in Block
  PROVE  /\ HasPrepared(v, b)' /\ ~HasPrepared(v, b) => Prepare(v) /\ current'[v] = b
         /\ HasCommitted(v, b)' /\ ~HasCommitted(v, b) => Commit(v) /\ current[v] = b
<1> USE DEF IInv
<1>1. ASSUME ExistBlock(v, b)' PROVE HasCommitted(v, b)
  BY <1>1, NewlyExecuted DEF NoInactive, HasCommitted
<1>2. ASSUME state'[v] = "Prepared", current'[v] = b
      PROVE  HasPrepared(v, b) \/ Prepare(v)
  <2>1. CASE Still
    BY <1>2, <2>1 DEF Still, HasPrepared
  <2>2. ASSUME NEW k \in Node, NEW c \in Block, Voting(k, c)
        PROVE  HasPrepared(v, b) \/ Prepare(v)
    BY <1>2, <2>2 DEF Voting, HasPrepared, TypeOK, RoundType
  <2>3. ASSUME NEW k \in Node, NEW c \in Block, Proposing(k, c)
        PROVE  HasPrepared(v, b)
    BY <1>2, <2>3 DEF Proposing, HasPrepared, TypeOK, RoundType
  <2>4. ASSUME NEW k \in Node, NEW c \in Block, Executing(k, c)
        PROVE  HasPrepared(v, b)
    <3>1. StateAfterCommit(k, ActiveAfter(active[k], c), NextProposer(k, c)) # "Prepared"
      BY DEF StateAfterCommit
    <3> QED
      BY <1>2, <2>4, <3>1 DEF Executing, HasPrepared, TypeOK, RoundType
  <2> QED
    BY <2>1, <2>2, <2>3, <2>4, RoundStep
<1>3. ASSUME state'[v] = "Committed", current'[v] = b
      PROVE  HasCommitted(v, b) \/ (Commit(v) /\ current[v] = b)
  <2>1. CASE Still
    BY <1>3, <2>1 DEF Still, HasCommitted
  <2>2. ASSUME NEW k \in Node, NEW c \in Block, Voting(k, c)
        PROVE  HasCommitted(v, b) \/ (Commit(v) /\ current[v] = b)
    BY <1>3, <2>2 DEF Voting, HasCommitted, TypeOK, RoundType
  <2>3. ASSUME NEW k \in Node, NEW c \in Block, Proposing(k, c)
        PROVE  HasCommitted(v, b)
    BY <1>3, <2>3 DEF Proposing, HasCommitted, TypeOK, RoundType
  <2>4. ASSUME NEW k \in Node, NEW c \in Block, Executing(k, c)
        PROVE  HasCommitted(v, b)
    <3>1. StateAfterCommit(k, ActiveAfter(active[k], c), NextProposer(k, c)) # "Committed"
      BY DEF StateAfterCommit
    <3> QED
      BY <1>3, <2>4, <3>1 DEF Executing, HasCommitted, TypeOK, RoundType
  <2> QED
    BY <2>1, <2>2, <2>3, <2>4, RoundStep
<1>4. HasCommitted(v, b)' => ExistBlock(v, b)' \/ (state'[v] = "Committed" /\ current'[v] = b)
  BY DEF HasCommitted
<1>5. HasPrepared(v, b)' => HasCommitted(v, b)' \/ (state'[v] = "Prepared" /\ current'[v] = b)
  BY DEF HasPrepared
<1>6. HasCommitted(v, b) => HasPrepared(v, b)
  BY DEF HasPrepared
<1>7. Commit(v) /\ current[v] = b => HasPrepared(v, b)
  BY DEF Commit, HasPrepared
<1> QED
  BY <1>1, <1>2, <1>3, <1>4, <1>5, <1>6, <1>7

\* Nodes do not become inactive, and votes are kept.
LEMMA StepKeepsKept ==
  ASSUME ~PoANV, IInv, VotesInv, KeptInv, [Next]_vars
  PROVE  KeptInv'
<1> USE DEF KeptInv
<1>1. NoInactive'
  <2> SUFFICES ASSUME NEW k \in Node PROVE state'[k] # "NVRound"
    BY DEF NoInactive
  <2>1. state[k] # "NVRound"
    BY DEF NoInactive
  <2>2. ASSUME NEW n \in Node, NEW b \in Block, Executing(n, b) PROVE state'[k] # "NVRound"
    <3>1. StateAfterCommit(n, ActiveAfter(active[n], b), NextProposer(n, b)) # "NVRound"
      BY DEF StateAfterCommit
    <3> QED
      BY <2>1, <2>2, <3>1 DEF Executing, IInv, TypeOK, RoundType
  <2>3. ASSUME NEW n \in Node, NEW b \in Block, Voting(n, b) \/ Proposing(n, b)
        PROVE  state'[k] # "NVRound"
    BY <2>1, <2>3 DEF Voting, Proposing, IInv, TypeOK, RoundType
  <2> QED
    BY <2>1, <2>2, <2>3, RoundStep DEF Still
<1>2. VotesKept'
  <2> SUFFICES ASSUME NEW b \in Block \ {Genesis}, NEW v \in Voters(b), NEW n \in Peers[v] \cup {v}
               PROVE  /\ HasPrepared(v, b)' /\ ~HasCommitted(n, b)'
                           => \/ ExistingVote(preparePool[n], Vote(b, v))'
                              \/ VoteMessage("Prepare", b, v) \in net'[n]
                      /\ HasCommitted(v, b)' /\ ~ExistBlock(n, b)'
                           => \/ ExistingVote(commitPool[n], Vote(b, v))'
                              \/ VoteMessage("Commit", b, v) \in net'[n]
    BY DEF VotesKept, Voters
  <2>1. v \in Node /\ n \in Node
    BY QuorumType, PeersAreNodes
  <2>2. /\ ~HasCommitted(n, b)' => ~HasCommitted(n, b)
        /\ ~ExistBlock(n, b)' => ~ExistBlock(n, b)
    BY <2>1, VotesStand
  <2>3. ASSUME HasPrepared(v, b)', ~HasCommitted(n, b)'
        PROVE  \/ ExistingVote(preparePool[n], Vote(b, v))'
               \/ VoteMessage("Prepare", b, v) \in net'[n]
    <3>1. CASE HasPrepared(v, b)
      <4>1. \/ ExistingVote(preparePool[n], Vote(b, v))
            \/ VoteMessage("Prepare", b, v) \in net[n]
        BY <2>2, <2>3, <3>1 DEF VotesKept
      <4> QED
        BY <2>1, <2>2, <2>3, <4>1, PrepareStays DEF VotesInv
    <3>2. CASE ~HasPrepared(v, b)
      <4>1. Prepare(v) /\ current'[v] = b
        BY <2>1, <2>3, <3>2, VoteIsCast
      <4>2. /\ preparePool'[v] = AddVote(preparePool[v], Vote(b, v))
            /\ net' = Deliver(net, Peers[v], VoteMessage("Prepare", b, v))
        BY <2>1, <4>1 DEF Prepare, BroadcastMessage, IInv, TypeOK, PoolType, RoundType
      <4>3. preparePool[v] \in Pools(Block, Node)
        BY <2>1 DEF IInv, TypeOK, PoolType
      <4>4. CASE n = v
        BY <4>2, <4>3, <4>4, AddVoteVotes DEF ExistingVote
      <4>5. CASE n \in Peers[v]
        BY <2>1, <4>2, <4>5, DeliverGrows
      <4> QED
        BY <4>4, <4>5
    <3> QED
      BY <3>1, <3>2
  <2>4. ASSUME HasCommitted(v, b)', ~ExistBlock(n, b)'
        PROVE  \/ ExistingVote(commitPool[n], Vote(b, v))'
               \/ VoteMessage("Commit", b, v) \in net'[n]
    <3>1. CASE HasCommitted(v, b)
      <4>1. \/ ExistingVote(commitPool[n], Vote(b, v))
            \/ VoteMessage("Commit", b, v) \in net[n]
        BY <2>2, <2>4, <3>1 DEF VotesKept
      <4> QED
        BY <2>1, <2>2, <2>4, <4>1, CommitStays
    <3>2. CASE ~HasCommitted(v, b)
      <4>1. Commit(v) /\ current[v] = b
        BY <2>1, <2>4, <3>2, VoteIsCast
      <4>2. /\ commitPool'[v] = AddVote(commitPool[v], Vote(b, v))
            /\ net' = Deliver(net, Peers[v], VoteMessage("Commit", b, v))
        BY <2>1, <4>1 DEF Commit, BroadcastMessage, IInv, TypeOK, PoolType
      <4>3. commitPool[v] \in Pools(Block, Node)
        BY <2>1 DEF IInv, TypeOK, PoolType
      <4>4. CASE n = v
        BY <4>2, <4>3, <4>4, AddVoteVotes DEF ExistingVote
      <4>5. CASE n \in Peers[v]
        BY <2>1, <4>2, <4>5, DeliverGrows
      <4> QED
        BY <4>4, <4>5
    <3> QED
      BY <3>1, <3>2
  <2> QED
    BY <2>3, <2>4
<1> QED
  BY <1>1, <1>2

\* At the start nobody is inactive, and nobody has voted.
LEMMA KeptInit == Init => KeptInv
<1> SUFFICES ASSUME Init PROVE KeptInv
  OBVIOUS
<1>1. \A n \in Node : /\ state[n] \in {"NewRound", "NewRoundProposer"}
                      /\ chain[n] = <<Genesis>>
  BY DEF Init
<1>2. \A b \in Block : Voters(b) \subseteq Node
  BY QuorumType
<1> QED
  BY <1>1, <1>2 DEF KeptInv, NoInactive, VotesKept, HasPrepared, HasCommitted, ExistBlock

\* Without PoANV, no vote is lost while it is needed: whatever confirm discards
\* and RamOpt removes, each connected validator that has voted for the block a
\* node collects votes for is in its pool, or its vote is on its way.
THEOREM VotesAreNotLost ==
  ASSUME ~PoANV
  PROVE  Spec => []NoVoteLost
<1>1. Init => IInv /\ VotesInv /\ KeptInv
  BY InitInv, VotesInit, KeptInit
<1>2. (IInv /\ VotesInv /\ KeptInv) /\ [Next]_vars => (IInv /\ VotesInv /\ KeptInv)'
  BY StepKeepsInv, StepKeepsVotes, StepKeepsKept
<1>3. IInv /\ KeptInv => NoVoteLost
  <2> SUFFICES ASSUME IInv, KeptInv, NEW n \in Live, NEW v \in Live, 
                      v \in Voters(current[n]), n \in Peers[v] \cup {v}
               PROVE  LET b == current[n] IN
                 /\ state[n] = "Prepared" /\ HasPrepared(v, b)
                      => ExistingVote(preparePool[n], Vote(b, v)) \/ OnItsWay("Prepare", b, v, n)
                 /\ state[n] = "Committed" /\ HasCommitted(v, b)
                      => ExistingVote(commitPool[n], Vote(b, v)) \/ OnItsWay("Commit", b, v, n)
    BY DEF NoVoteLost
  <2> DEFINE b == current[n]
  <2>1. n \in Node /\ b \in Block
    BY ConsensusAssumption DEF IInv, TypeOK, RoundType
  <2>2. ASSUME state[n] \in {"Prepared", "Committed"}
        PROVE  b # Genesis /\ ~ExistBlock(n, b) /\ (state[n] = "Prepared" => ~HasCommitted(n, b))
    <3>1. seqNb[b] = CurrentSeqNb(n) + 1
      BY <2>1, <2>2 DEF IInv, BlockAtHand, IsValidNewBlock
    <3>2. CurrentSeqNb(n) = Len(chain[n]) - 1 /\ Len(chain[n]) \in Nat \ {0}
          /\ DOMAIN chain[n] = 1..Len(chain[n])
      BY <2>1, ChainShape DEF IInv
    <3>3. \A i \in DOMAIN chain[n] : seqNb[chain[n][i]] < seqNb[b]
      BY <2>1, <3>1, <3>2 DEF IInv, Linked
    <3> QED
      BY <2>1, <3>1, <3>2, <3>3, ConsensusAssumption DEF ExistBlock, HasCommitted
  <2> HIDE DEF b
  <2> QED
    BY <2>1, <2>2 DEF KeptInv, VotesKept, OnItsWay, b
<1> QED
  BY <1>1, <1>2, <1>3, PTL DEF Spec

-----------------------------------------------------------------------------
(***************************************************************************)
(* No wake-up is lost.                                                     *)
(***************************************************************************)
\* What the consensus goroutine of a node looks at.
View(n) ==
  <<chain[n], active[n], proposer[n], state[n], current[n], blockPool[n], blockPoolNV[n],
    preparePool[n], commitPool[n], txPool[n]>>

\* A step of one node changes neither what another looks at, nor whether it is
\* awake.
LEMMA OthersUntouched ==
  ASSUME TypeOK, NEW k \in Node, NEW n \in Node \ {k},
         \/ ReceiveTransac(k) \/ ReceivePrePrepare(k) \/ ReceivePrepare(k)
         \/ ReceiveCommit(k) \/ ReceiveBlockMsg(k)
         \/ CheckTransaction(k) \/ AddTransaction(k) \/ RemoveDoomed(k)
         \/ FanOut(k) \/ FanOutTransaction(k)
         \/ Propose(k) \/ Prepare(k) \/ Commit(k)
         \/ Finalize(k) \/ AppendNV(k) \/ EndUpdate(k)
  PROVE  View(n)' = View(n) /\ wake'[n] = wake[n] /\ updating'[n] = updating[n]
<1> USE DEF TypeOK, ChainType, RoundType, PoolType, TxType, View, chainVars, roundVars, poolVars,
            txVars
<1>1. CASE ReceiveTransac(k)
  BY <1>1 DEF ReceiveTransac, ReceiveTrustedMess
<1>2. CASE ReceivePrePrepare(k)
  BY <1>2 DEF ReceivePrePrepare
<1>3. CASE ReceivePrepare(k)
  BY <1>3 DEF ReceivePrepare
<1>4. CASE ReceiveCommit(k)
  BY <1>4 DEF ReceiveCommit
<1>5. CASE ReceiveBlockMsg(k)
  BY <1>5 DEF ReceiveBlockMsg
<1>6. CASE CheckTransaction(k)
  BY <1>6 DEF CheckTransaction
<1>7. CASE AddTransaction(k)
  BY <1>7 DEF AddTransaction, ReceiveTrustedMess
<1>8. CASE RemoveDoomed(k)
  BY <1>8 DEF RemoveDoomed
<1>9. CASE FanOut(k)
  BY <1>9 DEF FanOut
<1>10. CASE FanOutTransaction(k)
  BY <1>10 DEF FanOutTransaction
<1>11. CASE Propose(k)
  BY <1>11 DEF Propose, Continue, TakeMessage
<1>12. CASE Prepare(k)
  BY <1>12 DEF Prepare, Continue, TakeMessage
<1>13. CASE Commit(k)
  BY <1>13 DEF Commit, Continue, TakeMessage
<1>14. CASE Finalize(k)
  BY <1>14 DEF Finalize, AddUpdatedBlock, Continue, TakeMessage
<1>15. CASE AppendNV(k)
  BY <1>15 DEF AppendNV, AddUpdatedBlock, Continue, TakeMessage
<1>16. CASE EndUpdate(k)
  BY <1>16 DEF EndUpdate, TakeMessage
<1> QED
  BY <1>1, <1>2, <1>3, <1>4, <1>5, <1>6, <1>7, <1>8, <1>9, <1>10, <1>11, <1>12, <1>13,
     <1>14, <1>15, <1>16

\* A node that sees the same can do the same.
LEMMA SameView ==
  ASSUME NEW n \in Node, View(n)' = View(n)
  PROVE  CanChange(n)' = CanChange(n)
<1>1. ValidBlocks(n)' = ValidBlocks(n) /\ ValidBlocksNV(n)' = ValidBlocksNV(n)
  BY DEF View, ValidBlocks, ValidBlocksNV, IsValidNewBlock, CurrentSeqNb, Tip
<1>2. EnoughPrepares(n)' = EnoughPrepares(n) /\ EnoughCommits(n)' = EnoughCommits(n)
  BY DEF View, EnoughPrepares, EnoughCommits, ConfirmedPrepares, ConfirmedCommits, Approvals
<1> QED
  BY <1>1, <1>2 DEF View, CanChange

\* Confirming twice confirms no more than once.
LEMMA ConfirmTwice ==
  ASSUME NEW pool \in Pools(Block, Node), NEW b, NEW validators
  PROVE  Confirm(Confirm(pool, b, validators), b, validators) = Confirm(pool, b, validators)
<1> DEFINE once == Confirm(pool, b, validators)
           twice == Confirm(once, b, validators)
<1>1. once \in Pools(Block, Node) /\ VotesOf(once.unconfirmed, b) = {}
  BY ConfirmType DEF Confirm, VotesOf, Pools
<1> HIDE DEF once
<1>2. twice = [once EXCEPT !.unconfirmed = once.unconfirmed, !.confirmed = once.confirmed]
  BY <1>1 DEF Confirm
<1>3. twice = once
  BY <1>1, <1>2 DEF Pools
<1> QED
  BY <1>3 DEF once

\* Counting the votes once more changes nothing: what the goroutine found that
\* it could not do before it waited, it cannot do while it waits.
LEMMA EndUpdateStops ==
  ASSUME TypeOK, NEW n \in Node, EndUpdate(n)
  PROVE  ~CanChange(n)'
<1> USE DEF TypeOK
<1>1. /\ ~CanChange(n)
      /\ preparePool' = [preparePool EXCEPT ![n] = ConfirmedPrepares(n)]
      /\ commitPool' = [commitPool EXCEPT ![n] = ConfirmedCommits(n)]
      /\ UNCHANGED <<chainVars, state, current, blockPool, blockPoolNV, txVars>>
  BY DEF EndUpdate
<1>2. /\ preparePool'[n] = ConfirmedPrepares(n)
      /\ commitPool'[n] = ConfirmedCommits(n)
  BY <1>1 DEF PoolType
<1>3. ConfirmedPrepares(n)' = ConfirmedPrepares(n) /\ ConfirmedCommits(n)' = ConfirmedCommits(n)
  BY <1>1, <1>2, ConfirmTwice DEF ConfirmedPrepares, ConfirmedCommits, chainVars, PoolType
<1>4. EnoughPrepares(n)' = EnoughPrepares(n) /\ EnoughCommits(n)' = EnoughCommits(n)
  BY <1>1, <1>3 DEF EnoughPrepares, EnoughCommits, Approvals, chainVars
<1>5. ValidBlocks(n)' = ValidBlocks(n) /\ ValidBlocksNV(n)' = ValidBlocksNV(n)
  BY <1>1 DEF ValidBlocks, ValidBlocksNV, IsValidNewBlock, CurrentSeqNb, Tip, chainVars
<1> QED
  BY <1>1, <1>4, <1>5 DEF CanChange, txVars

\* A transaction less in the pool gives a node nothing to do.
LEMMA RemovingGivesNothing ==
  ASSUME TypeOK, NEW n \in Node, RemoveDoomed(n), CanChange(n)'
  PROVE  CanChange(n)
<1>1. /\ txPool'[n] \subseteq txPool[n]
      /\ UNCHANGED <<chainVars, roundVars, poolVars>>
  BY DEF RemoveDoomed, TypeOK, TxType
<1>2. ValidBlocks(n)' = ValidBlocks(n) /\ ValidBlocksNV(n)' = ValidBlocksNV(n)
  BY <1>1 DEF ValidBlocks, ValidBlocksNV, IsValidNewBlock, CurrentSeqNb, Tip, chainVars, poolVars
<1>3. EnoughPrepares(n)' = EnoughPrepares(n) /\ EnoughCommits(n)' = EnoughCommits(n)
  BY <1>1 DEF EnoughPrepares, EnoughCommits, ConfirmedPrepares, ConfirmedCommits, Approvals,
              chainVars, roundVars, poolVars
<1> QED
  BY <1>1, <1>2, <1>3 DEF CanChange, roundVars

\* Whatever gives a node something to do wakes it, and it goes on until there
\* is nothing left.
LEMMA StepKeepsAwake ==
  ASSUME TypeOK, NoLostWakeup, [Next]_vars
  PROVE  NoLostWakeup'
<1> SUFFICES ASSUME NEW n \in Live, CanChange(n)' PROVE Awake(n)'
  BY DEF NoLostWakeup
<1>1. n \in Node
  BY ConsensusAssumption
<1>2. CanChange(n) => wake[n] \/ updating[n]
  BY DEF NoLostWakeup, Awake
<1>3. CASE View(n)' = View(n) /\ wake'[n] = wake[n] /\ updating'[n] = updating[n]
  BY <1>1, <1>2, <1>3, SameView DEF Awake
<1>4. CASE UNCHANGED vars
  BY <1>3, <1>4 DEF vars, chainVars, roundVars, poolVars, txVars, View
<1>5. CASE \/ ReceiveTransac(n) \/ ReceivePrePrepare(n) \/ ReceivePrepare(n)
           \/ ReceiveCommit(n) \/ ReceiveBlockMsg(n) \/ AddTransaction(n)
  <2>1. wake' = [wake EXCEPT ![n] = TRUE]
    BY <1>5 DEF ReceiveTransac, ReceivePrePrepare, ReceivePrepare, ReceiveCommit,
                ReceiveBlockMsg, AddTransaction
  <2> QED
    BY <1>1, <2>1 DEF Awake, TypeOK, RoundType
<1>6. CASE CheckTransaction(n)
  <2>1. UNCHANGED <<chainVars, roundVars, poolVars, txPool>>
        /\ (wake' = wake \/ wake' = [wake EXCEPT ![n] = TRUE])
    BY <1>6 DEF CheckTransaction
  <2>2. CASE wake' = wake
    BY <1>3, <2>1, <2>2 DEF chainVars, roundVars, poolVars, View
  <2>3. CASE wake' = [wake EXCEPT ![n] = TRUE]
    BY <1>1, <2>3 DEF Awake, TypeOK, RoundType
  <2> QED
    BY <2>1, <2>2, <2>3
<1>7. CASE RemoveDoomed(n)
  <2>1. CanChange(n)
    BY <1>1, <1>7, RemovingGivesNothing
  <2> QED
    BY <1>2, <1>7, <2>1 DEF RemoveDoomed, Awake, roundVars
<1>8. CASE FanOut(n) \/ FanOutTransaction(n)
  <2>1. UNCHANGED <<chainVars, roundVars, poolVars, txVars, wake>>
    BY <1>8 DEF FanOut, FanOutTransaction
  <2> QED
    BY <1>3, <2>1 DEF chainVars, roundVars, poolVars, txVars, View
<1>9. CASE Propose(n) \/ Prepare(n) \/ Commit(n) \/ Finalize(n) \/ AppendNV(n)
  <2>1. updating' = [updating EXCEPT ![n] = TRUE]
    BY <1>9 DEF Propose, Prepare, Commit, Finalize, AppendNV, AddUpdatedBlock, Continue
  <2> QED
    BY <1>1, <2>1 DEF Awake, TypeOK, RoundType
<1>10. CASE EndUpdate(n)
  BY <1>1, <1>10, EndUpdateStops
<1>11. ASSUME NEW k \in Node, k # n,
              \/ ReceiveTransac(k) \/ ReceivePrePrepare(k) \/ ReceivePrepare(k)
              \/ ReceiveCommit(k) \/ ReceiveBlockMsg(k)
              \/ CheckTransaction(k) \/ AddTransaction(k) \/ RemoveDoomed(k)
              \/ FanOut(k) \/ FanOutTransaction(k)
              \/ Propose(k) \/ Prepare(k) \/ Commit(k)
              \/ Finalize(k) \/ AppendNV(k) \/ EndUpdate(k)
       PROVE  Awake(n)'
  BY <1>1, <1>3, <1>11, OthersUntouched
<1> QED
  BY <1>4, <1>5, <1>6, <1>7, <1>8, <1>9, <1>10, <1>11, StepOfNode

\* At the start nobody has anything to do: the requests are still on their way.
LEMMA AwakeInit == Init => NoLostWakeup
<1> SUFFICES ASSUME Init, NEW n \in Live PROVE ~CanChange(n)
  BY DEF NoLostWakeup
<1>1. n \in Node
  BY ConsensusAssumption
<1>2. state[n] \in {"NewRoundProposer", "NewRound"} /\ txPool[n] = {} /\ blockPool[n] = {}
  BY <1>1 DEF Init
<1> QED
  BY <1>2 DEF CanChange, ValidBlocks

\* No wake-up is lost: a node that waits has nothing left that it could do,
\* whatever has arrived while chanUpdateStatus was full.
THEOREM NoWakeupIsLost == Spec => []NoLostWakeup
<1>1. Init => NoLostWakeup
  BY AwakeInit
<1>2. IInv /\ NoLostWakeup /\ [Next]_vars => NoLostWakeup'
  BY StepKeepsAwake DEF IInv
<1> QED
  BY <1>1, <1>2, Invariance, PTL DEF Spec
=============================================================================
