CONSTANTS
  Node <- MCNode2
  Live <- MCNode2
  Peers <- AllPeers
  MinValidators = 1
  HashBytes = {1}
  TxLists <- ListsDropTwo
  Requests <- RequestsLeft
  ControlTx = {}
  PoANV = FALSE
  BroadcastFlag = FALSE
  RamOptFlag = TRUE
  AcceptTxFromUnknown = TRUE
  Tx <- MCTx
  Command <- MCCommand
  NewValidatorSet <- MCOnlyNode0
  issuer <- MCIssuer
  timestamp <- MCTimestamp
  Block <- MCBlock
  Genesis <- MCGenesis
  seqNb <- MCSeqNb
  lastHash <- MCLastHash
  proposerOf <- MCProposerOf
  transactions <- MCTransactions
  hashByte <- MCHashByte
  validatorsAfter <- MCValidatorsAfter
  BlockSize = 1
  TransactionThreshold = 4
SPECIFICATION FairSpec
CHECK_DEADLOCK FALSE
INVARIANT ExecutedOnce
PROPERTY BlocksSpread

