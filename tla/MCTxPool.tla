------------------------------ MODULE MCTxPool ------------------------------
(***************************************************************************)
(* Instances of TxPool for TLC: transactions 1 to 3, older first, commands *)
(* 11 and 12, the first of which makes the second invalid.                 *)
(***************************************************************************)
EXTENDS TxPool

MCTx == 1..3
MCCommand == {11, 12}
MCTimestamp == [t \in MCTx |-> t]
MCInvalidates == [c \in MCCommand |-> IF c = 11 THEN {12} ELSE {}]
\* No transaction is sent to both goroutines; both receive out of order.
InboxApart == [h \in Handler |-> IF h = "cons" THEN {2, 11} ELSE {1, 3, 12}]
\* What Test/disorder_test.go sends: without priority, broadcast to every node.
InboxLow == [h \in Handler |-> IF h = "cons" THEN {} ELSE {1, 2}]
\* Another node executes what transactionHandler may be about to add.
ForeignOne == {<<1>>}
=============================================================================
