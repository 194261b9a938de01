------------------------------ MODULE MCDealer ------------------------------
(* Instances of Dealer for TLC: how the dealer is started. *)
EXTENDS Dealer
StartWith(nb, random, messages) ==
  [nbOfNode |-> nb, randomDistrib |-> random, input |-> messages]
FourStarts ==
  { StartWith(1, FALSE, <<FALSE, TRUE, FALSE>>), StartWith(2, FALSE, <<TRUE, FALSE>>),
    StartWith(2, TRUE, <<TRUE, FALSE>>), StartWith(0, TRUE, <<FALSE>>) }
=============================================================================
