----------------------------- MODULE MCConsensus -----------------------------
(***************************************************************************)
(* Instances of PBFTConsensus for TLC.  A block is a number: the blocks    *)
(* form a tree, and every block of height h - 1 has one child per choice   *)
(* of a proposer, a hash byte and one of the transaction sets TxLists[h].  *)
(***************************************************************************)
EXTENDS PBFTConsensus

CONSTANTS
  HashBytes,    \* bound: the hash bytes a new block may have
  TxLists       \* bound: for each height up to the greatest one, the sequence
                \* of transaction sets a block of that height may hold

MCNode2 == 0..1
MCNode3 == 0..2
MCNode4 == 0..3
MCLive012 == 0..2
AllPeers == [n \in Node |-> Live \ {n}]
\* Node 3 is connected to node 0 only.
LeafPeers == [n \in Node |-> CASE n = 0 -> {1, 2, 3} [] n = 1 -> {0, 2}
                               [] n = 2 -> {0, 1} [] OTHER -> {0}]

ByteSeq == CHOOSE s \in [1..Cardinality(HashBytes) -> HashBytes] :
             \A i, j \in DOMAIN s : i < j => s[i] < s[j]
NbNode == Cardinality(Node)
NbByte == Cardinality(HashBytes)
MaxHeight == Len(TxLists)
NbChoice(h) == NbNode * NbByte * Len(TxLists[h])

\* How many blocks there are at a height, and the first of them.
NbBlock[h \in 0..MaxHeight] == IF h = 0 THEN 1 ELSE NbBlock[h - 1] * NbChoice(h)
FirstBlock[h \in 0..MaxHeight + 1] ==
  IF h = 0 THEN 0 ELSE FirstBlock[h - 1] + NbBlock[h - 1]

MCBlock == 0..(FirstBlock[MaxHeight + 1] - 1)
MCGenesis == 0
MCSeqNb == [b \in MCBlock |-> CHOOSE h \in 0..MaxHeight :
              FirstBlock[h] <= b /\ b < FirstBlock[h + 1]]
MCParent(b) == LET h == MCSeqNb[b] IN
  FirstBlock[h - 1] + (b - FirstBlock[h]) \div NbChoice(h)
MCChoice(b) == (b - FirstBlock[MCSeqNb[b]]) % NbChoice(MCSeqNb[b])
MCLastHash == [b \in MCBlock |-> IF b = 0 THEN 0 ELSE MCParent(b)]
MCProposerOf == [b \in MCBlock |-> IF b = 0 THEN 0 ELSE MCChoice(b) % NbNode]
MCHashByte == [b \in MCBlock |->
  IF b = 0 THEN 0 ELSE ByteSeq[((MCChoice(b) \div NbNode) % NbByte) + 1]]
MCTransactions == [b \in MCBlock |->
  IF b = 0 THEN {} ELSE TxLists[MCSeqNb[b]][(MCChoice(b) \div (NbNode * NbByte)) + 1]]
MCValidatorsAfter[b \in MCBlock] ==
  IF b = 0 THEN Node
  ELSE ActiveAfter(MCValidatorsAfter[MCParent(b)], b)
-----------------------------------------------------------------------------
(***************************************************************************)
(* The transactions: 1 and 2 are plain and signed by nodes, 3 is signed by *)
(* a stranger; 11 to 13 are commands: leave node 2 out, take it back, and  *)
(* one from node 2 that is invalid once node 2 is out.                     *)
(***************************************************************************)
MCTx == {1, 2, 3, 11, 12, 13}
MCCommand == {11, 12, 13}
MCNewValidatorSet ==
  [c \in MCCommand |-> IF c = 11 THEN <<0, 1>> ELSE <<2, 0, 1>>]
\* The command 11 leaves node 0 alone.
MCOnlyNode0 == [c \in MCCommand |-> IF c = 11 THEN <<0>> ELSE <<0, 1>>]
MCIssuer == [t \in MCTx |-> CASE t = 3 -> 99 [] t = 2 -> 1 [] t = 13 -> 2 [] OTHER -> 0]
MCTimestamp == [t \in MCTx |-> t]

Plain1 == <<{1}>>
Plain12 == <<{1}, {2}>>
ListsOne == <<Plain1>>
Kinds == <<{1}, {2}, {3}, {11}>>
ListsKinds == <<Kinds, Kinds>>
ListsDrop == <<<<{11}>>>>
ListsDropTwo == <<<<{11}>>, Plain12, Plain12>>
ListsDropInTurn == <<<<{11}>>, <<{1}>>, <<{2}>>>>
Commands == <<{}, {11}, {13}>>
ListsCommands == <<Commands, Commands>>

Request(t, b, p, n) == [tx |-> t, broadcast |-> b, priority |-> p, to |-> n]
\* One transaction that node 0 proposes, or that it broadcasts.
RequestsOne == {Request(1, "DontBroadcast", TRUE, 0)}
RequestsAsk == {Request(1, "AskToBroadcast", TRUE, 0)}
\* A change of validators, alone or with one or two transactions for the next proposer.
RequestsDrop == {Request(11, "DontBroadcast", TRUE, 0)}
RequestsDropOne == {Request(11, "DontBroadcast", TRUE, 0), Request(1, "DontBroadcast", TRUE, 1)}
RequestsDropTwo == RequestsDropOne \cup {Request(2, "DontBroadcast", TRUE, 1)}
\* A change of validators and two transactions, one of them sent twice, all for
\* a proposer that stays one.
RequestsLeft == {Request(11, "DontBroadcast", TRUE, 0), Request(1, "DontBroadcast", TRUE, 0),
                 Request(1, "AskToBroadcast", TRUE, 0), Request(2, "DontBroadcast", TRUE, 0)}
\* One of each kind of broadcasting, signed by nodes and by a stranger.
RequestsKinds == {Request(1, "DefaultBehaviour", FALSE, 1), Request(2, "DontBroadcast", TRUE, 0),
                  Request(3, "AskToBroadcast", FALSE, 0)}
\* Two commands, the first of which makes the second invalid.
RequestsCommands == {Request(11, "DontBroadcast", TRUE, 0), Request(13, "DontBroadcast", FALSE, 0)}
=============================================================================
