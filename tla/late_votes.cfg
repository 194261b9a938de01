CONSTANTS
  Node <- MCNode4
  Live <- MCNode4
  Peers <- LeafPeers
  MinValidators = 2
  HashBytes = {1}
  TxLists <- ListsOne
  Requests <- RequestsOne
  ControlTx = {}
  PoANV = FALSE
  BroadcastFlag = FALSE
  RamOptFlag = TRUE
  AcceptTxFromUnknown = TRUE
  Tx <- MCTx
  Command <- MCCommand
  NewValidatorSet <- MCNewValidatorSet
  issuer <- MCIssuer
  timestamp <- MCTimestamp
  Block <- MCBlock
  Genesis <- MCGenesis
  seqNb <- MCSeqNb
  lastHash <- MCLastHash
  proposerOf <- MCProposerOf
  transactions <- MCTransactions
  hashByte <- MCHashByte
  validatorsAfter <- MCValidatorsAfter
  BlockSize = 5
  TransactionThreshold = 4
SPECIFICATION Spec
CHECK_DEADLOCK FALSE
INVARIANT NoVoteLost
