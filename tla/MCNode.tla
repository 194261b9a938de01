------------------------------- MODULE MCNode -------------------------------
(***************************************************************************)
(* Instances of Node for TLC: each way to start it lets one of its parts   *)
(* go far and the others a little.                                         *)
(***************************************************************************)
EXTENDS Node

NoModel == [kind |-> "Nul", table |-> <<>>]
Quiet ==
  [save |-> "no", metrics |-> FALSE, control |-> "none", selector |-> "Pivot", model |-> NoModel,
   buffer |-> 1, interrupt |-> TRUE, maxBlock |-> 0, maxTick |-> 0, maxTx |-> 0, maxAsk |-> 0, maxFault |-> 0,
   maxSave |-> 0, maxOrder |-> 0]

Line2D(nb, t) == [nbValid |-> nb, throughput |-> t]
Line3D(nb, l, t) == [nbValid |-> nb, lag |-> l, throughput |-> t]

\* Every table of three sizes, and every one of two sizes and two latencies.
Models ==
  {[kind |-> "2D", table |-> <<Line2D(2, a), Line2D(3, b), Line2D(5, c)>>] :
     a, b, c \in 0..3}
  \cup {[kind |-> "3D", table |-> <<Line3D(3, 0, a), Line3D(2, 0, b), Line3D(2, 4, c),
                                    Line3D(3, 4, d)>>] : a, b, c, d \in 0..2}

SaverStarts ==
  { [Quiet EXCEPT !.save = "one", !.maxBlock = 2, !.maxAsk = 1, !.maxFault = 2],
    [Quiet EXCEPT !.save = "parts", !.maxBlock = 3, !.maxAsk = 2],
    [Quiet EXCEPT !.save = "parts", !.maxBlock = 2, !.maxAsk = 2, !.maxFault = 1] }
MetricsStarts ==
  { [Quiet EXCEPT !.metrics = TRUE, !.maxBlock = 3, !.maxTick = 1],
    [Quiet EXCEPT !.metrics = TRUE, !.maxBlock = 1, !.maxTick = 2],
    [Quiet EXCEPT !.metrics = TRUE, !.maxTick = 2, !.maxSave = 1],
    [Quiet EXCEPT !.maxBlock = 1, !.maxTx = 2] }

\* Which law goes with which selector, and two models that know of fewer
\* validators than there are.
Law(law, selector) ==
  [Quiet EXCEPT !.control = law, !.selector = selector, !.maxBlock = 2, !.maxTick = 2,
                !.maxTx = 1, !.maxOrder = 1]
ControlStarts ==
  { [Law("Hysteresis", "Pivot") EXCEPT !.buffer = 2, !.maxTick = 4, !.maxOrder = 2,
                                            !.interrupt = FALSE],
    [Law("OneValidator", "Random") EXCEPT !.maxBlock = 1],
    [Law("OneValidator", "Pivot") EXCEPT !.maxBlock = 1],
    [Law("Hysteresis", "Centric") EXCEPT !.maxBlock = 1, !.maxOrder = 2],
    [Law("ModelComparison", "Centric") EXCEPT !.interrupt = FALSE,
        !.model = [kind |-> "2D", table |-> <<Line2D(2, 1)>>]],
    [Law("ModelComparison", "Random") EXCEPT !.maxBlock = 1,
        !.model = [kind |-> "3D", table |-> <<Line3D(2, 0, 2), Line3D(2, 4, 1)>>]],
    [Law("ModelComparison", "Pivot") EXCEPT !.maxBlock = 1,
        !.model = [kind |-> "3D", table |-> <<Line3D(2, 0, 2), Line3D(3, 0, 1)>>]] }
ModelStarts == { [Quiet EXCEPT !.model = m] : m \in Models }
AllStarts == SaverStarts \cup MetricsStarts \cup ControlStarts \cup ModelStarts
MatAdj == [n \in Node |-> [m \in Node |-> IF n < m THEN m - n ELSE n - m]]
=============================================================================
