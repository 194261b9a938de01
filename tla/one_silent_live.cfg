CONSTANTS
  Node <- MCNode4
  Live <- MCLive012
  Peers <- AllPeers
  MinValidators = 2
  HashBytes = {1}
  TxLists <- ListsOne
  Requests <- RequestsAsk
  ControlTx = {}
  PoANV = FALSE
  BroadcastFlag = FALSE
  RamOptFlag = FALSE
  AcceptTxFromUnknown = TRUE
  Tx <- MCTx
  Command <- MCCommand
  NewValidatorSet <- MCNewValidatorSet
  issuer <- MCIssuer
  timestamp <- MCTimestamp
  Block <- MCBlock
  Genesis <- MCGenesis
  seqNb <- MCSeqNb
  lastHash <- MCLastHash
  proposerOf <- MCProposerOf
  transactions <- MCTransactions
  hashByte <- MCHashByte
  validatorsAfter <- MCValidatorsAfter
  BlockSize = 5
  TransactionThreshold = 4
SPECIFICATION FairSpec
CHECK_DEADLOCK FALSE
PROPERTY RequestsExecuted
