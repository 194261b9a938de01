CONSTANTS
  Node <- MCNode3
  Live <- MCNode3
  Peers <- AllPeers
  MinValidators = 2
  HashBytes = {2}
  TxLists <- ListsCommands
  Requests <- RequestsCommands
  ControlTx = {}
  PoANV = FALSE
  BroadcastFlag = FALSE
  RamOptFlag = FALSE
  AcceptTxFromUnknown = TRUE
  Tx <- MCTx
  Command <- MCCommand
  NewValidatorSet <- MCNewValidatorSet
  issuer <- MCIssuer
  timestamp <- MCTimestamp
  Block <- MCBlock
  Genesis <- MCGenesis
  seqNb <- MCSeqNb
  lastHash <- MCLastHash
  proposerOf <- MCProposerOf
  transactions <- MCTransactions
  hashByte <- MCHashByte
  validatorsAfter <- MCValidatorsAfter
  BlockSize = 1
  TransactionThreshold = 4
SPECIFICATION Spec
CHECK_DEADLOCK FALSE
INVARIANTS CommandsAuthorised CacheFresh CommitCertificate BlockAtHand
PROPERTY LedgerSpec
