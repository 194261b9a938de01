CONSTANTS
  Node <- MCNode2
  Live <- MCNode2
  Peers <- AllPeers
  MinValidators = 2
  HashBytes = {1}
  TxLists <- ListsKinds
  Requests <- RequestsKinds
  ControlTx = {11}
  PoANV = TRUE
  BroadcastFlag = FALSE
  RamOptFlag = TRUE
  AcceptTxFromUnknown = TRUE
  Tx <- MCTx
  Command <- MCCommand
  NewValidatorSet <- MCNewValidatorSet
  issuer <- MCIssuer
  timestamp <- MCTimestamp
  Block <- MCBlock
  Genesis <- MCGenesis
  seqNb <- MCSeqNb
  lastHash <- MCLastHash
  proposerOf <- MCProposerOf
  transactions <- MCTransactions
  hashByte <- MCHashByte
  validatorsAfter <- MCValidatorsAfter
  BlockSize = 1
  TransactionThreshold = 4
SPECIFICATION Spec
CHECK_DEADLOCK FALSE
INVARIANTS NoTxLost OneProposal NoLostWakeup
