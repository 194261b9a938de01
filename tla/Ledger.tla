-------------------------------- MODULE Ledger --------------------------------
(***************************************************************************)
(* What the consensus promises to its users: every node keeps a log of     *)
(* executed blocks that only grows, one block at a time, each block linked *)
(* to the one before, and no two nodes ever execute different blocks at    *)
(* the same place.                                                         *)
(***************************************************************************)
EXTENDS Naturals, Sequences

CONSTANTS Node, Block, Genesis, lastHash

VARIABLE log

Init == log = [n \in Node |-> <<Genesis>>]

\* b is linked to the end of the log of n, and whoever is ahead of n executed
\* b at that place too.
MayExecute(n, b) ==
  /\ lastHash[b] = log[n][Len(log[n])]
  /\ \A m \in Node :
       Len(log[m]) > Len(log[n]) => log[m][Len(log[n]) + 1] = b

Execute(n, b) ==
  /\ log' = [log EXCEPT ![n] = Append(@, b)]
  /\ MayExecute(n, b)

Next == \E n \in Node, b \in Block : Execute(n, b)

Spec == Init /\ [][Next]_log
=============================================================================
