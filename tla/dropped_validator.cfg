CONSTANTS
  Node <- MCNode3
  Live <- MCNode3
  Peers <- AllPeers
  MinValidators = 2
  HashBytes = {1}
  TxLists <- ListsDrop
  Requests <- RequestsDrop
  ControlTx = {}
  PoANV = TRUE
  BroadcastFlag = FALSE
  RamOptFlag = FALSE
  AcceptTxFromUnknown = TRUE
  Tx <- MCTx
  Command <- MCCommand
  NewValidatorSet <- MCNewValidatorSet
  issuer <- MCIssuer
  timestamp <- MCTimestamp
  Block <- MCBlock
  Genesis <- MCGenesis
  seqNb <- MCSeqNb
  lastHash <- MCLastHash
  proposerOf <- MCProposerOf
  transactions <- MCTransactions
  hashByte <- MCHashByte
  validatorsAfter <- MCValidatorsAfter
  BlockSize = 5
  TransactionThreshold = 4
SPECIFICATION FairSpec
CHECK_DEADLOCK FALSE
PROPERTY BlocksSpread
