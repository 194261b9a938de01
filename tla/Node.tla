--------------------------------- MODULE Node ---------------------------------
(***************************************************************************)
(* A node as its main goroutine sees it (node.go): the saver, the metrics  *)
(* and the feedback control run until an interrupt; then main saves the    *)
(* chain, waits for the saver, closes the sockets and the consensus, which *)
(* closes the metrics first.  The consensus itself is the part of it that  *)
(* they see: it appends a block, counts it, executes its order.            *)
(***************************************************************************)
EXTENDS ControlFeedBack

vars == <<start, main, sizeChain, saveVars, metricVars, controlVars>>

StartAssumption ==
  \A s \in Starts :
    /\ s.save \in {"no", "one", "parts"} /\ s.metrics \in BOOLEAN /\ s.interrupt \in BOOLEAN
    /\ s.control \in {"none", "OneValidator", "Hysteresis", "ModelComparison"}
    /\ s.selector \in {"Pivot", "Random", "Centric"}
    /\ s.model.kind \in {"Nul", "2D", "3D"}
    /\ s.model.kind = "2D" => s.model.table \in Seq([nbValid : Nat, throughput : Nat])
    /\ s.model.kind = "3D" => s.model.table \in Seq([nbValid : Nat, lag : Nat, throughput : Nat])
    /\ s.buffer \in Nat \ {0}
    /\ {s.maxBlock, s.maxTick, s.maxTx, s.maxAsk, s.maxFault, s.maxSave, s.maxOrder} \subseteq Nat
ASSUME StartAssumption

\* An interrupt, which some starts leave out (a bound).
Interrupt ==
  /\ main = "run" /\ start.interrupt
  /\ main' = "wait"
  /\ AskToSave
  /\ UNCHANGED <<start, sizeChain, fileVars, nbAsk, metricVars>>

\* Saver.Wait(), and then the sockets are closed.
WaitSaver ==
  /\ main = "wait" /\ waitWrite = 0
  /\ main' = "stop"
  /\ UNCHANGED <<start, sizeChain, saveVars, metricVars>>

Init ==
  /\ start \in Starts /\ main = "run"
  /\ SaverInit /\ MetricsInit /\ ControlInit

Running == main \notin {"ended", "panic"}

Consensus ==
  BeginBlock \/ AppendBlock \/ CountBlock \/ AskPool \/ PoolAnswers \/ RemoveTx \/ CountTx
Pool == ReceiveTx \/ CountReceived
Measuring == TickerLoop \/ SumLoop \/ \E u \in DOMAIN updaters : Updater(u)
Main == WaitSaver \/ CloseMetrics \/ KillConsensus
Order == CheckControl \/ MakeOrder \/ AddOrder \/ OrderAdded \/ Flush \/ HandPeriod

SaverStep == (RegularSave \/ SaverLoop) /\ UNCHANGED <<metricVars, controlVars>>
MetricsStep ==
  (Consensus \/ Pool \/ Measuring \/ StartSave \/ Save("ticker")) /\ UNCHANGED controlVars
MainStep == (Interrupt \/ Main) /\ UNCHANGED controlVars

Next == Running /\ (SaverStep \/ MetricsStep \/ MainStep \/ Order)
Spec == Init /\ [][Next]_vars

\* Every goroutine goes on; what is ready again and again in a select statement,
\* where Go chooses at random, is chosen in the end.
Fairness ==
  /\ WF_vars(Running /\ SaverLoop /\ UNCHANGED <<metricVars, controlVars>>)
  /\ WF_vars(Running /\ (WaitSaver \/ CloseMetrics) /\ UNCHANGED controlVars)
  /\ SF_vars(Running /\ KillConsensus /\ UNCHANGED controlVars)
  /\ WF_vars(Running /\ cons # "idle" /\ ((Consensus /\ UNCHANGED controlVars) \/ Flush))
  /\ WF_vars(Running /\ CountReceived /\ UNCHANGED controlVars)
  /\ WF_vars(Running /\ (MakeOrder \/ AddOrder \/ OrderAdded))
  /\ SF_vars(Running /\ HandPeriod)
  /\ WF_vars(Running /\ TickerLoop /\ UNCHANGED controlVars)
  /\ WF_vars(Running /\ SumLoop /\ UNCHANGED controlVars)
  /\ WF_vars(Running /\ \E u \in DOMAIN updaters : Updater(u) /\ UNCHANGED controlVars)
FairSpec == Spec /\ Fairness
-----------------------------------------------------------------------------
\* Every variable has its type; no channel holds more than its capacity.
TypeOK ==
  /\ start \in Starts
  /\ main \in {"run", "wait", "stop", "updates", "save", "killTicker", "killSum", "killCons",
               "ended", "panic"}
  /\ sizeChain \in Nat \ {0} /\ lastBlock \in 0..start.maxBlock /\ secLastBlock \in 0..lastBlock
  /\ askWrite \in BOOLEAN /\ waitWrite \in Nat
  /\ saver.step \in {"idle", "create", "write"}
  /\ saveFile \in Nat /\ parts \in Seq(Nat) /\ MultiPrev \in Nat
  /\ cons \in {"idle", "append", "countBlock", "flush", "remove", "countTx", "query", "asked",
               "killed"}
  /\ pool \in {"idle", "handler", "consensus", "control"}
  /\ addCommittedTx \in 0..ChanCap /\ addReceivedTx \in 0..ChanCap
  /\ addCommittedBlock \in 0..ChanCap
  /\ sums \in [DOMAIN None -> Nat] /\ period \in [DOMAIN None -> Nat]
  /\ ticker \in {"select", "report", "update", "spawn", "killed"}
  /\ throughputChan \in Seq(DOMAIN updaters) /\ Len(throughputChan) <= 2
  /\ stack.wait \in Nat /\ stack.list \in Seq(BOOLEAN)
  /\ control.step \in {"select", "adding", "panic"}
  /\ tor.currentIndex \in DOMAIN tor.data
  /\ active \subseteq Node /\ active # {} /\ changedAt \in 0..now

\* A goroutine waits for a place in a channel that nobody reads any more: the
\* consensus itself, or the loop of the pool, and the consensus waits for the
\* pool, or for the control that waits for it.
Jammed ==
  /\ sumLoop = "killed"
  /\ \/ cons = "countBlock" /\ addCommittedBlock = ChanCap
     \/ cons = "countTx" /\ addCommittedTx = ChanCap
     \/ /\ pool # "idle" /\ addReceivedTx = ChanCap
        /\ cons \in {"query", "remove"} \/ control.step = "adding"

\* The node panics over a block that was its own predecessor, over an updater
\* that was started although Stop had been called, or over an order.
Broken ==
  /\ main = "panic"
  /\ \/ \E i \in DOMAIN stack.list : stack.list[i]
     \/ Spawned > spawnedAtStop
     \/ control.step = "panic"

\* A node that does not save its chain in parts ends after an interrupt, unless
\* something is left to count when the metrics are closed, or it panics.
NodeEnds == (main = "wait" /\ start.save # "parts") ~> (main = "ended" \/ Jammed \/ Broken)
=============================================================================
