----------------------------- MODULE Node_proofs -----------------------------
(***************************************************************************)
(* Proofs about a node, for any way to start it: nothing is counted twice  *)
(* or lost on the way to the metrics, the saver covers what it was asked,  *)
(* a node that saves its chain in parts never ends, an order rests on at   *)
(* most one stale period, the file of the metrics is whole, the model says *)
(* what was measured, and the control panics only for want of validators.  *)
(***************************************************************************)
EXTENDS Node, Operators_proofs

LEMMA NoneDomain == DOMAIN None = {"committed", "received", "blocks"}
  BY DEF None
-----------------------------------------------------------------------------
(***************************************************************************)
(* Counted.  An order is only added while the consensus waits for it.      *)
(***************************************************************************)
Counts == [{"committed", "received", "blocks"} -> Int]
CountInv ==
  /\ lastBlock \in Int /\ nbReceived \in Int
  /\ addCommittedTx \in Int /\ addReceivedTx \in Int /\ addCommittedBlock \in Int
  /\ sums \in Counts /\ reported \in Counts
  /\ control.step = "adding" => cons = "asked"
  /\ pool = "control" => control.step = "adding"
  /\ pool = "consensus" => cons = "query"
  /\ Counted

countVars == <<cons, pool, lastBlock, nbReceived, addCommittedTx, addReceivedTx, addCommittedBlock,
               sums, reported, control>>

LEMMA NoneCounts == None \in Counts /\ \A c \in DOMAIN None : None[c] = 0
<1>1. None = [c \in {"committed", "received", "blocks"} |-> 0]
  BY DEF None
<1>2. QED BY <1>1 DEF Counts

LEMMA CountInit == Init => CountInv
<1> SUFFICES ASSUME Init PROVE CountInv
  OBVIOUS
<1>1. /\ cons = "idle" /\ pool = "idle" /\ lastBlock = 0 /\ nbReceived = 0
      /\ addCommittedTx = 0 /\ addReceivedTx = 0 /\ addCommittedBlock = 0
      /\ sums = None /\ reported = None /\ control = [step |-> "select"]
  BY DEF Init, MetricsInit, ControlInit
<1>2. control.step # "adding"
  BY <1>1
<1>3. QED BY <1>1, <1>2, NoneCounts, NoneDomain DEF CountInv, Counted

LEMMA CountStays == ASSUME CountInv, UNCHANGED countVars PROVE CountInv'
  BY DEF CountInv, Counted, Counts, countVars

\* The actions that count, or move the consensus.
LEMMA CountMoves ==
  ASSUME CountInv,
         Consensus \/ Pool \/ SumLoop \/ Tick
           \/ KillConsensus,
         UNCHANGED controlVars
  PROVE  CountInv'
<1>1. CASE BeginBlock
  BY <1>1 DEF BeginBlock, CountInv, Counted, Counts, sumVars, tickVars, poolVars, controlVars
<1>2. CASE AppendBlock
  BY <1>2 DEF AppendBlock, CountInv, Counted, Counts, sumVars, tickVars, poolVars, controlVars
<1>3. CASE CountBlock
  BY <1>3 DEF CountBlock, CountInv, Counted, Counts, blockVars, tickVars, poolVars, controlVars
<1>4. CASE CountTx
  <2>1. /\ cons = "countTx" /\ cons' = "idle" /\ addCommittedTx' = addCommittedTx + 1
        /\ UNCHANGED <<pool, nbReceived, lastBlock, addReceivedTx, addCommittedBlock, sums,
                       reported, control>>
    BY <1>4 DEF CountTx, blockVars, tickVars, poolVars, controlVars
  <2>2. pool \notin {"consensus", "control"} /\ control.step # "adding"
    BY <2>1 DEF CountInv
  <2>3. Counted'
    <3>1. /\ reported.committed \in Int /\ sums.committed \in Int
          /\ addCommittedTx \in Int /\ lastBlock \in Int
      BY DEF CountInv, Counts
    <3>2. reported.committed + sums.committed + addCommittedTx = lastBlock - 1
      BY <2>1 DEF CountInv, Counted
    <3>3. reported'.committed + sums'.committed + addCommittedTx' = lastBlock'
      BY <2>1, <3>1, <3>2
    <3>4. lastBlock' \in Int /\ cons' \notin {"countBlock", "flush", "remove", "countTx"}
      BY <2>1, <3>1
    <3>5. reported'.blocks + sums'.blocks + addCommittedBlock' = lastBlock'
      BY <2>1, <3>1 DEF CountInv, Counted
    <3>6. reported'.received + sums'.received + addReceivedTx'
            = nbReceived' - (IF pool' = "idle" THEN 0 ELSE 1)
      BY <2>1 DEF CountInv, Counted
    <3>7. QED BY <3>3, <3>4, <3>5, <3>6 DEF Counted
  <2>4. QED BY <2>1, <2>2, <2>3 DEF CountInv
<1>5. CASE AskPool \/ PoolAnswers
  BY <1>5 DEF AskPool, PoolAnswers, AddTransaction, CountInv, Counted, Counts, blockVars, sumVars,
              tickVars, poolVars, controlVars
<1>6. CASE RemoveTx
  BY <1>6 DEF RemoveTx, CountInv, Counted, Counts, blockVars, sumVars, tickVars, poolVars,
              controlVars
<1>7. CASE ReceiveTx
  BY <1>7 DEF ReceiveTx, AddTransaction, CountInv, Counted, Counts, blockVars, sumVars, tickVars,
              controlVars
<1>8. CASE CountReceived
  BY <1>8 DEF CountReceived, AddOneReceivedTx, CountInv, Counted, Counts, blockVars, tickVars,
              controlVars
<1>9. CASE SumLoop
  BY <1>9 DEF SumLoop, CountInv, Counted, Counts, blockVars, tickVars, poolVars, controlVars
<1>10. CASE Tick
  BY <1>10 DEF Tick, CountInv, Counted, Counts, blockVars, poolVars, controlVars, AfterSum, None
<1>11. CASE KillConsensus
  BY <1>11 DEF KillConsensus, CountInv, Counted, Counts, blockVars, sumVars, tickVars, poolVars,
               controlVars
<1>12. QED
  BY <1>1, <1>2, <1>3, <1>4, <1>5, <1>6, <1>7, <1>8, <1>9, <1>10, <1>11 DEF Consensus, Pool

\* What the control does to the consensus and to the transactions received.
LEMMA CountOrders == ASSUME CountInv, Order PROVE CountInv'
<1>1. CASE CheckControl
  BY <1>1 DEF CheckControl, CountInv, Counted, Counts, blockVars, sumVars, tickVars, poolVars,
              controlVars
<1>2. CASE MakeOrder
  <2>1. /\ cons = "asked" /\ cons' \in {"asked", "query"}
        /\ control'.step = "adding" => cons' = "asked"
        /\ pool # "control"
        /\ UNCHANGED <<lastBlock, pool, nbReceived, sumVars, reported>>
    BY <1>2 DEF MakeOrder, blockVars, tickVars, poolVars, CountInv
  <2>2. QED BY <2>1 DEF CountInv, Counted, Counts, sumVars
<1>3. CASE AddOrder
  BY <1>3 DEF AddOrder, AddTransaction, CountInv, Counted, Counts, blockVars, sumVars, tickVars
<1>4. CASE OrderAdded
  <2>1. /\ pool = "control" /\ pool' = "idle" /\ control'.step # "adding" /\ cons' = "query"
        /\ addReceivedTx' = addReceivedTx + 1
        /\ UNCHANGED <<nbReceived, lastBlock, addCommittedTx, addCommittedBlock, sums, reported>>
    BY <1>4 DEF OrderAdded, AddOneReceivedTx, blockVars, tickVars
  <2>2. cons = "asked"
    BY <2>1 DEF CountInv
  <2>3. QED BY <2>1, <2>2 DEF CountInv, Counted, Counts
<1>5. CASE Flush
  BY <1>5 DEF Flush, CountInv, Counted, Counts, blockVars, sumVars, tickVars, poolVars
<1>6. CASE HandPeriod
  <2>1. UNCHANGED countVars
    BY <1>6 DEF HandPeriod, countVars, blockVars, sumVars, poolVars
  <2>2. QED BY <2>1, CountStays
<1>7. QED BY <1>1, <1>2, <1>3, <1>4, <1>5, <1>6 DEF Order

LEMMA CountNext == ASSUME CountInv, [Next]_vars PROVE CountInv'
<1>1. CASE SaverStep
  <2>1. UNCHANGED countVars
    BY <1>1 DEF SaverStep, metricVars, sumVars, tickVars, poolVars, controlVars, countVars
  <2>2. QED BY <2>1, CountStays
<1>2. CASE MetricsStep
  <2>1. CASE Consensus \/ Pool \/ SumLoop \/ Tick
    BY <1>2, <2>1, CountMoves DEF MetricsStep, Consensus
  <2>2. CASE Update \/ Spawn \/ ServeThroughputs \/ StartSave \/ Save("ticker")
    <3>1. UNCHANGED countVars
      BY <1>2, <2>2 DEF MetricsStep, Update, Spawn, ServeThroughputs, StartSave, Save, countVars,
                        blockVars, sumVars, tickVars, poolVars, controlVars
    <3>2. QED BY <3>1, CountStays
  <2>3. ASSUME NEW u \in DOMAIN updaters, Updater(u)
        PROVE  CountInv'
    <3>1. UNCHANGED countVars
      BY <1>2, <2>3 DEF MetricsStep, Updater, ReadBlock, AskThroughputs, Keep, countVars,
                        blockVars, sumVars, tickVars, poolVars, controlVars
    <3>2. QED BY <3>1, CountStays
  <2>4. QED BY <1>2, <2>1, <2>2, <2>3 DEF MetricsStep, Measuring, TickerLoop
<1>3. CASE MainStep
  <2>1. CASE KillConsensus
    BY <1>3, <2>1, CountMoves DEF MainStep
  <2>2. CASE Interrupt \/ WaitSaver \/ CloseMetrics
    <3>1. UNCHANGED countVars
      BY <1>3, <2>2 DEF MainStep, Interrupt, WaitSaver, CloseMetrics, StopStack, WaitUpdates,
                        Save, KillTicker, KillSum, countVars, blockVars, sumVars, tickVars,
                        poolVars, metricVars, controlVars
    <3>2. QED BY <3>1, CountStays
  <2>3. QED BY <1>3, <2>1, <2>2 DEF MainStep, Main
<1>4. CASE Order
  BY <1>4, CountOrders
<1>5. CASE UNCHANGED vars
  <2>1. UNCHANGED countVars
    BY <1>5 DEF vars, metricVars, sumVars, tickVars, poolVars, controlVars, countVars
  <2>2. QED BY <2>1, CountStays
<1>6. QED BY <1>1, <1>2, <1>3, <1>4, <1>5 DEF Next

\* Whatever the channels hold and however the consensus, the ticker and Close
\* are interleaved, each block and transaction is counted once.
THEOREM NodeCounted == Spec => []Counted
<1>1. CountInv => Counted
  BY DEF CountInv
<1>2. QED BY <1>1, CountInit, CountNext, PTL DEF Spec
-----------------------------------------------------------------------------
(***************************************************************************)
(* NeverEndsInParts.  The WaitGroup counts an ask whose place is taken,    *)
(* and nothing counts it down again.                                       *)
(***************************************************************************)
NeverEndsInParts == start.save = "parts" => main \in {"run", "wait", "panic"}

PartsInv ==
  start.save = "parts" =>
    /\ main \in {"run", "wait", "panic"}
    /\ waitWrite \in Nat
    /\ askWrite => waitWrite > 0
    /\ main = "wait" => waitWrite > 0
    /\ DOMAIN saves = {"ticker", "close"} /\ saves["close"] = NoSave

LEMMA PartsInit == Init => PartsInv
  BY DEF Init, SaverInit, MetricsInit, PartsInv

LEMMA PartsAsk ==
  ASSUME PartsInv, start.save = "parts", AskToSave
  PROVE  /\ waitWrite' \in Nat /\ waitWrite' > 0
  BY DEF PartsInv, AskToSave, PlaceFree

LEMMA PartsSaver == ASSUME PartsInv, SaverStep PROVE PartsInv'
<1> SUFFICES ASSUME start.save = "parts" PROVE PartsInv'
  BY DEF SaverStep, RegularSave, SaverLoop, TakeAsk, CreateFile, CreateFails, WriteFile, WriteFails,
         PartsInv
<1>1. CASE RegularSave
  BY <1>1, PartsAsk DEF RegularSave, SaverStep, metricVars, stackVars, PartsInv
<1>2. CASE TakeAsk \/ CreateFile
  BY <1>2 DEF TakeAsk, CreateFile, SaverStep, metricVars, stackVars, PartsInv
<1>3. ASSUME NEW content, NEW new, Attempted(content, new)
      PROVE  waitWrite' = waitWrite
  BY <1>3 DEF Attempted, Done
<1>4. CASE CreateFails \/ WriteFile \/ WriteFails
  BY <1>3, <1>4 DEF CreateFails, WriteFile, WriteFails, SaverStep, metricVars, stackVars, PartsInv
<1>5. QED BY <1>1, <1>2, <1>4 DEF SaverStep, SaverLoop

LEMMA PartsStays ==
  ASSUME PartsInv, UNCHANGED <<start, saveVars, saves>>, main' \in {main, "panic"}
  PROVE  PartsInv'
  BY DEF PartsInv, saveVars

LEMMA PartsMetrics == ASSUME PartsInv, MetricsStep PROVE PartsInv'
<1>1. CASE Consensus \/ Pool \/ SumLoop \/ TickerLoop
  <2>1. UNCHANGED <<start, saveVars, saves, main>>
    BY <1>1 DEF Consensus, BeginBlock, AppendBlock, CountBlock, CountTx, AskPool, PoolAnswers,
                RemoveTx, Pool, ReceiveTx, CountReceived, SumLoop, TickerLoop, Tick, Update,
                Spawn, ServeThroughputs, stackVars
  <2>2. QED BY <2>1, PartsStays
<1>2. ASSUME NEW u \in DOMAIN updaters, Updater(u)
      PROVE  PartsInv'
  <2>1. UNCHANGED <<start, saveVars, saves>> /\ main' \in {main, "panic"}
    BY <1>2 DEF Updater, ReadBlock, AskThroughputs, Keep
  <2>2. QED BY <2>1, PartsStays
<1>3. CASE StartSave \/ Save("ticker")
  <2>1. UNCHANGED <<start, saveVars>> /\ main' \in {main, "panic"}
    BY <1>3 DEF StartSave, Save
  <2>2. saves' \in {saves} \/ \E v : saves' = [saves EXCEPT !["ticker"] = v]
    BY <1>3 DEF StartSave, Save
  <2>3. QED BY <2>1, <2>2 DEF PartsInv, saveVars
<1>4. QED BY <1>1, <1>2, <1>3 DEF MetricsStep, Measuring

LEMMA PartsMain == ASSUME PartsInv, Running, MainStep PROVE PartsInv'
<1> SUFFICES ASSUME start.save = "parts" PROVE PartsInv'
  BY DEF MainStep, Main, Interrupt, WaitSaver, CloseMetrics, StopStack, WaitUpdates, Save,
         KillTicker, KillSum, KillConsensus, PartsInv
<1>1. CASE Interrupt
  BY <1>1, PartsAsk DEF Interrupt, metricVars, stackVars, PartsInv
<1>2. ~WaitSaver /\ ~CloseMetrics /\ ~KillConsensus
  BY DEF WaitSaver, CloseMetrics, StopStack, WaitUpdates, Save, KillTicker, KillSum, KillConsensus,
         PartsInv, NoSave
<1>3. QED BY <1>1, <1>2 DEF MainStep, Main

LEMMA PartsNext == ASSUME PartsInv, [Next]_vars PROVE PartsInv'
<1>1. CASE Running /\ Order
  <2>1. UNCHANGED <<start, saveVars, saves>> /\ main' \in {main, "panic"}
    BY <1>1 DEF Order, CheckControl, MakeOrder, AddOrder, OrderAdded, Flush, HandPeriod, stackVars
  <2>2. QED BY <2>1, PartsStays
<1>2. CASE UNCHANGED vars
  BY <1>2, PartsStays DEF vars, metricVars, stackVars
<1>3. QED BY <1>1, <1>2, PartsSaver, PartsMetrics, PartsMain DEF Next

\* writeMultipleFile does not call Done: the main goroutine of a node that saves
\* its chain in parts waits for ever.
THEOREM NodeNeverEndsInParts == Spec => []NeverEndsInParts
<1>1. PartsInv => NeverEndsInParts
  BY DEF PartsInv, NeverEndsInParts
<1>2. QED BY <1>1, PartsInit, PartsNext, PTL DEF Spec
-----------------------------------------------------------------------------
(***************************************************************************)
(* SaveCovers.  What is waited for is an ask not taken yet and a write     *)
(* that goes on; a write that has no ask behind it has taken a chain as    *)
(* long as the last ask wanted.                                            *)
(***************************************************************************)
Writing == [step : {"create", "write"}, part : {0}, size : {0}, left : Int, taken : Nat]
SaveInv ==
  start.save = "one" =>
    /\ askWrite \in BOOLEAN /\ failed \in BOOLEAN
    /\ saver \in {Idle} \cup Writing
    /\ sizeChain \in Nat /\ asked \in Nat /\ saveFile \in Nat /\ asked <= sizeChain
    /\ waitWrite = (IF askWrite THEN 1 ELSE 0) + (IF saver = Idle THEN 0 ELSE 1)
    /\ saver.step = "write" /\ ~askWrite => saver.taken >= asked
    /\ saver = Idle /\ ~askWrite /\ ~failed => saveFile >= asked

LEMMA IdleStep == Idle.step # "write" /\ Idle \notin Writing
  BY DEF Idle, Writing

LEMMA SaveInit == Init => SaveInv
<1> SUFFICES ASSUME Init PROVE SaveInv
  OBVIOUS
<1>1. /\ askWrite = FALSE /\ failed = FALSE /\ saver = Idle /\ waitWrite = 0
      /\ sizeChain = 1 /\ asked = 0 /\ saveFile = 0
  BY DEF Init, SaverInit, MetricsInit
<1>2. saver.step # "write"
  BY <1>1, IdleStep
<1>3. waitWrite = (IF askWrite THEN 1 ELSE 0) + (IF saver = Idle THEN 0 ELSE 1)
  BY <1>1
<1>4. saver \in {Idle} \cup Writing
  BY <1>1
<1>5. askWrite \in BOOLEAN /\ failed \in BOOLEAN
  BY <1>1
<1>6. /\ sizeChain \in Nat /\ asked \in Nat /\ saveFile \in Nat /\ asked <= sizeChain
      /\ saver = Idle /\ ~askWrite /\ ~failed => saveFile >= asked
  BY <1>1
<1>7. QED BY <1>2, <1>3, <1>4, <1>5, <1>6 DEF SaveInv

\* There is one file, and it is done with the first attempt that is over.
LEMMA OneFile == NbParts(0) = 0
  BY SaverAssumption DEF NbParts, SaverAssumption

LEMMA SaveAttempted ==
  ASSUME SaveInv, start.save = "one", saver \in Writing, NEW content \in Nat, NEW new \in BOOLEAN,
         Attempted(content, new), saveFile' \in Nat,
         UNCHANGED <<start, sizeChain, askWrite, asked>>,
         new /\ ~askWrite => content >= asked /\ saveFile' = content
  PROVE  SaveInv'
<1>1. waitWrite = (IF askWrite THEN 1 ELSE 0) + 1 /\ saver # Idle
  BY DEF SaveInv, Writing, Idle
<1>2. CASE TryAgain(content)
  <2>1. /\ saver' = [saver EXCEPT !.step = "create", !.left = @ - 1]
        /\ UNCHANGED <<waitWrite, failed>>
    BY <1>2 DEF Attempted
  <2>2. saver' \in Writing /\ saver'.step = "create"
    <3>1. saver.left \in Int
      BY DEF Writing
    <3>2. saver' = [step |-> "create", part |-> saver.part, size |-> saver.size,
                    left |-> saver.left - 1, taken |-> saver.taken]
      BY <2>1 DEF Writing
    <3>3. QED BY <3>1, <3>2 DEF Writing
  <2>3. saver' # Idle
    BY <2>2, IdleStep
  <2>4. QED BY <1>1, <2>1, <2>2, <2>3 DEF SaveInv
<1>3. CASE ~TryAgain(content)
  <2>1. ~(saver.part < NbParts(saver.size))
    BY OneFile DEF Writing
  <2>2. saver' = Idle /\ waitWrite' = waitWrite - 1 /\ failed' = (failed \/ ~new)
    BY <1>3, <2>1 DEF Attempted, Done
  <2>3. saver'.step # "write"
    BY <2>2, IdleStep
  <2>4. waitWrite' = (IF askWrite THEN 1 ELSE 0)
    BY <1>1, <2>2
  <2>5. failed' \in BOOLEAN /\ (~askWrite /\ ~failed' => saveFile' >= asked)
    BY <2>2 DEF SaveInv
  <2>6. QED BY <2>2, <2>3, <2>4, <2>5 DEF SaveInv
<1>4. QED BY <1>2, <1>3

\* An ask puts what was missing into the channel.
LEMMA SaveAsk ==
  ASSUME SaveInv, AskToSave, UNCHANGED <<start, sizeChain, saver, saveFile, failed>>
  PROVE  SaveInv'
<1> SUFFICES ASSUME start.save = "one" PROVE SaveInv'
  BY DEF SaveInv
<1>1. askWrite' = TRUE /\ asked' = sizeChain
      /\ waitWrite' = IF askWrite THEN waitWrite ELSE waitWrite + 1
  BY DEF AskToSave, PlaceFree, SaveInv
<1>2. QED BY <1>1 DEF SaveInv

LEMMA SaveSaver == ASSUME SaveInv, SaverStep PROVE SaveInv'
<1> SUFFICES ASSUME start.save = "one" PROVE SaveInv'
  BY DEF SaverStep, RegularSave, SaverLoop, TakeAsk, CreateFile, CreateFails, WriteFile, WriteFails,
         SaveInv
<1>1. CASE RegularSave
  BY <1>1, SaveAsk DEF RegularSave, fileVars
<1>2. CASE TakeAsk
  <2>1. saver' = WritePart(0, 0) /\ saver = Idle /\ askWrite /\ askWrite' = FALSE
    BY <1>2 DEF TakeAsk, SaveInv
  <2>2. saver' \in Writing /\ saver'.step = "create"
    BY <2>1, SaverAssumption DEF WritePart, Writing, SaverAssumption
  <2>3. saver' # Idle
    BY <2>2, IdleStep
  <2>4. waitWrite' = (IF askWrite' THEN 1 ELSE 0) + (IF saver' = Idle THEN 0 ELSE 1)
    BY <1>2, <2>1, <2>3 DEF TakeAsk, SaveInv
  <2>5. askWrite' \in BOOLEAN
    BY <2>1
  <2>6. UNCHANGED <<start, sizeChain, asked, saveFile, failed>>
    BY <1>2 DEF TakeAsk
  <2>7. QED BY <2>2, <2>3, <2>4, <2>5, <2>6 DEF SaveInv
<1>3. saver.step \in {"create", "write"} => saver \in Writing
  BY DEF SaveInv, Idle
<1>4. CASE CreateFile
  <2>1. saver \in Writing /\ saver.part = 0
    BY <1>3, <1>4 DEF CreateFile, Writing
  <2>2. saver' = [saver EXCEPT !.step = "write", !.taken = sizeChain] /\ saveFile' = 0
    BY <1>4, <2>1 DEF CreateFile, ToWrite, Holds
  <2>3. saver' \in Writing /\ saver'.taken = sizeChain
    BY <2>1, <2>2 DEF Writing, SaveInv
  <2>4. saver' # Idle /\ saver # Idle
    BY <2>1, <2>3 DEF Writing, Idle
  <2>5. QED BY <1>4, <2>2, <2>3, <2>4 DEF CreateFile, SaveInv
<1>5. CASE CreateFails
  <2>1. saver \in Writing /\ saver.part = 0
    BY <1>3, <1>5 DEF CreateFails, Writing
  <2>2. QED BY <1>5, <2>1, SaveAttempted DEF CreateFails, SaveInv
<1>6. CASE WriteFile
  <2>1. saver \in Writing /\ saver.part = 0 /\ saver.taken \in Nat
    BY <1>3, <1>6 DEF WriteFile, Writing
  <2>2. ~askWrite => saver.taken >= asked
    BY <1>6 DEF WriteFile, SaveInv
  <2>3. saveFile' = saver.taken
    BY <1>6, <2>1 DEF WriteFile, Holds
  <2>4. QED BY <1>6, <2>1, <2>2, <2>3, SaveAttempted DEF WriteFile
<1>7. CASE WriteFails
  <2>1. saver \in Writing /\ saver.part = 0
    BY <1>3, <1>7 DEF WriteFails, Writing
  <2>2. PICK content \in 0..1 : Holds(saver.part, content) /\ Attempted(content, FALSE)
    BY <1>7 DEF WriteFails
  <2>3. saveFile' \in Nat /\ UNCHANGED <<start, sizeChain, askWrite, asked>>
    BY <1>7, <2>1, <2>2 DEF WriteFails, Holds
  <2>4. content \in Nat /\ FALSE \in BOOLEAN
    OBVIOUS
  <2>5. QED BY <2>1, <2>2, <2>3, <2>4, SaveAttempted
<1>8. QED BY <1>1, <1>2, <1>4, <1>5, <1>6, <1>7 DEF SaverStep, SaverLoop

\* The chain only grows.
LEMMA SaveStays ==
  ASSUME SaveInv, UNCHANGED <<start, saveVars>>,
         sizeChain' = sizeChain \/ sizeChain' = sizeChain + 1
  PROVE  SaveInv'
  BY DEF SaveInv, saveVars, fileVars

LEMMA SaveNext == ASSUME SaveInv, [Next]_vars PROVE SaveInv'
<1>1. CASE MetricsStep
  <2>1. CASE Consensus \/ Pool \/ SumLoop \/ TickerLoop \/ StartSave \/ Save("ticker")
    <3>1. UNCHANGED <<start, saveVars>> /\ (sizeChain' = sizeChain \/ sizeChain' = sizeChain + 1)
      BY <2>1 DEF Consensus, BeginBlock, AppendBlock, CountBlock, CountTx, AskPool, PoolAnswers,
                  RemoveTx, Pool, ReceiveTx, CountReceived, SumLoop, TickerLoop, Tick, Update,
                  Spawn, ServeThroughputs, StartSave, Save, blockVars
    <3>2. QED BY <3>1, SaveStays
  <2>2. ASSUME NEW u \in DOMAIN updaters, Updater(u)
        PROVE  SaveInv'
    <3>1. UNCHANGED <<start, saveVars, sizeChain>>
      BY <2>2 DEF Updater, ReadBlock, AskThroughputs, Keep, blockVars
    <3>2. QED BY <3>1, SaveStays
  <2>3. QED BY <1>1, <2>1, <2>2 DEF MetricsStep, Measuring
<1>2. CASE MainStep
  <2>1. CASE Interrupt
    BY <2>1, SaveAsk DEF Interrupt, fileVars
  <2>2. CASE Main
    <3>1. UNCHANGED <<start, saveVars, sizeChain>>
      BY <2>2 DEF Main, WaitSaver, CloseMetrics, StopStack, WaitUpdates, Save, KillTicker, KillSum,
                  KillConsensus, blockVars
    <3>2. QED BY <3>1, SaveStays
  <2>3. QED BY <1>2, <2>1, <2>2 DEF MainStep
<1>3. CASE Order
  <2>1. UNCHANGED <<start, saveVars, sizeChain>>
    BY <1>3 DEF Order, CheckControl, MakeOrder, AddOrder, OrderAdded, Flush, HandPeriod, blockVars
  <2>2. QED BY <2>1, SaveStays
<1>4. CASE UNCHANGED vars
  BY <1>4, SaveStays DEF vars
<1>5. QED BY <1>1, <1>2, <1>3, <1>4, SaveSaver DEF Next

\* A node that ends has its chain in the file, as long as it was at the last
\* ask: also when that ask found the channel full.
THEOREM NodeSaveCovers == Spec => []SaveCovers
<1>1. SaveInv => SaveCovers
  BY DEF SaveInv, SaveCovers
<1>2. QED BY <1>1, SaveInit, SaveNext, PTL DEF Spec

\* However often the chain is asked for, by the ticker, by main or by both, and
\* whatever fails, Wait waits for what is pending and under way, and for no more.
THEOREM NodeWaitedFor == Spec => []WaitedFor
<1>1. SaveInv => WaitedFor
  BY DEF SaveInv, WaitedFor
<1>2. QED BY <1>1, SaveInit, SaveNext, PTL DEF Spec
-----------------------------------------------------------------------------
(***************************************************************************)
(* PartsCover.  The numbered files are written one after the other, each   *)
(* full but the last, which the next write begins with.                    *)
(***************************************************************************)
EndOf(i) == i * blocFragmentMax
PartWriting ==
  [step : {"create", "write"}, part : Nat \ {0}, size : Nat \ {0}, left : Int, taken : Nat]

FilesShape ==
  /\ saver = Idle \/ saver \in PartWriting
  /\ parts \in Seq(Nat) /\ sizeChain \in Nat \ {0} /\ asked \in Nat /\ asked <= sizeChain
  /\ askWrite \in BOOLEAN /\ failed \in BOOLEAN /\ MultiPrev \in Nat
FilesBetween ==
  saver = Idle =>
    /\ MultiPrev = Len(parts)
    /\ \A i \in DOMAIN parts : i < Len(parts) => parts[i] = EndOf(i)
    /\ parts # <<>> =>
         /\ EndOf(Len(parts) - 1) < parts[Len(parts)] /\ parts[Len(parts)] <= EndOf(Len(parts))
         /\ parts[Len(parts)] <= sizeChain
    /\ ~askWrite /\ asked > 0 => parts # <<>> /\ parts[Len(parts)] >= asked
FilesDuring ==
  saver # Idle =>
    /\ Len(parts) = saver.part \/ (saver.step = "create" /\ Len(parts) = saver.part - 1)
    /\ \A i \in 1..saver.part - 1 : parts[i] = EndOf(i)
    /\ EndOf(saver.part - 1) < saver.size /\ saver.size <= sizeChain
    /\ ~askWrite => asked <= saver.size
    /\ saver.step = "write" => saver.taken = Shorter(EndOf(saver.part), saver.size)
FilesInv == start.save = "parts" => FilesShape /\ (~failed => FilesBetween /\ FilesDuring)

\* There is another part after one that ends before the chain does.
LEMMA EndOfType == \A i \in Nat : EndOf(i) \in Nat /\ EndOf(i + 1) = EndOf(i) + blocFragmentMax
  BY SaverAssumption DEF EndOf
LEMMA EndOfGrows == \A i, j \in Nat : i <= j => EndOf(i) <= EndOf(j)
<1> SUFFICES ASSUME NEW i \in Nat, NEW j \in Nat, i <= j PROVE EndOf(i) <= EndOf(j)
  OBVIOUS
<1> DEFINE d == j - i
<1>1. d \in Nat /\ j = i + d
  OBVIOUS
<1>2. \A a, b, c \in Nat : (a + b) * c = a * c + b * c /\ b * c \in Nat /\ a * c \in Nat
  OBVIOUS
<1> HIDE DEF d
<1>3. QED BY <1>1, <1>2, SaverAssumption DEF EndOf
LEMMA PartsOf ==
  ASSUME NEW size \in Nat, NEW i \in Nat
  PROVE  i < NbParts(size) <=> EndOf(i) < size
<1> DEFINE n == NbParts(size)
<1>1. /\ n \in Nat /\ n * blocFragmentMax <= size + blocFragmentMax - 1
      /\ size + blocFragmentMax - 1 < n * blocFragmentMax + blocFragmentMax
  BY SaverAssumption DEF NbParts
<1>2. /\ EndOf(n) \in Nat /\ EndOf(i) \in Nat /\ EndOf(i + 1) = EndOf(i) + blocFragmentMax
      /\ EndOf(n) = n * blocFragmentMax /\ blocFragmentMax \in Nat
  BY <1>1, EndOfType, SaverAssumption DEF EndOf
<1> HIDE DEF n
<1>3. CASE i < n
  <2>1. EndOf(i + 1) <= EndOf(n)
    BY <1>1, <1>3, EndOfGrows
  <2>2. EndOf(i) < size
    BY <1>1, <1>2, <2>1
  <2>3. QED BY <1>3, <2>2 DEF n
<1>4. CASE ~(i < n)
  <2>1. EndOf(n) <= EndOf(i)
    BY <1>1, <1>4, EndOfGrows
  <2>2. ~(EndOf(i) < size)
    BY <1>1, <1>2, <2>1
  <2>3. QED BY <1>4, <2>2 DEF n
<1>5. QED BY <1>3, <1>4

LEMMA NotIdle == Idle.step = "idle" /\ Idle \notin PartWriting
  BY DEF Idle, PartWriting

LEMMA FilesInitial == Init => FilesInv
<1> SUFFICES ASSUME Init PROVE FilesInv
  OBVIOUS
<1>1. /\ askWrite = FALSE /\ failed = FALSE /\ saver = Idle /\ MultiPrev = 0
      /\ sizeChain = 1 /\ asked = 0 /\ parts = <<>>
  BY DEF Init, SaverInit, MetricsInit
<1>2. FilesShape
  <2>1. <<>> \in Seq(Nat)
    OBVIOUS
  <2>2. parts \in Seq(Nat) /\ saver = Idle
    BY <1>1, <2>1
  <2>3. /\ sizeChain \in Nat \ {0} /\ asked \in Nat /\ asked <= sizeChain /\ MultiPrev \in Nat
    BY <1>1
  <2>4. askWrite \in BOOLEAN /\ failed \in BOOLEAN
    BY <1>1
  <2>5. QED BY <2>2, <2>3, <2>4 DEF FilesShape
<1>3. FilesBetween
  BY <1>1 DEF FilesBetween
<1>4. FilesDuring
  BY <1>1 DEF FilesDuring
<1>5. QED BY <1>2, <1>3, <1>4 DEF FilesInv

\* The chain only grows, and no file is touched.
LEMMA FilesStay ==
  ASSUME FilesInv, UNCHANGED <<start, saver, parts, MultiPrev, failed>>,
         sizeChain' = sizeChain \/ sizeChain' = sizeChain + 1,
         UNCHANGED <<askWrite, asked>> \/ (askWrite' = TRUE /\ asked' = sizeChain)
  PROVE  FilesInv'
<1> SUFFICES ASSUME start.save = "parts" PROVE FilesInv'
  BY DEF FilesInv
<1>1. FilesShape'
  <2>1. FilesShape
    BY DEF FilesInv
  <2>2. askWrite' \in BOOLEAN
    BY <2>1 DEF FilesShape
  <2>3. sizeChain' \in Nat \ {0} /\ asked' \in Nat /\ asked' <= sizeChain'
    BY <2>1 DEF FilesShape
  <2>4. QED BY <2>1, <2>2, <2>3 DEF FilesShape, PartWriting
<1>2. ASSUME ~failed PROVE FilesBetween'
  <2>1. CASE parts = <<>>
    BY <1>2, <2>1 DEF FilesInv, FilesShape, FilesBetween, EndOf
  <2>2. CASE parts # <<>>
    <3>1. Len(parts) \in DOMAIN parts /\ parts[Len(parts)] \in Nat
      BY <2>2 DEF FilesInv, FilesShape
    <3>2. QED BY <1>2, <2>2, <3>1 DEF FilesInv, FilesShape, FilesBetween, EndOf
  <2>3. QED BY <2>1, <2>2
<1>3. ASSUME ~failed PROVE FilesDuring'
  <2>1. saver # Idle => saver.size \in Nat
    BY DEF FilesInv, FilesShape, PartWriting
  <2>2. QED BY <1>3, <2>1 DEF FilesInv, FilesShape, FilesDuring, EndOf, Shorter
<1>4. QED BY <1>1, <1>2, <1>3 DEF FilesInv

\* The next write begins with the last file, or the first if there is none.
LEMMA FilesTake == ASSUME FilesInv, start.save = "parts", TakeAsk PROVE FilesInv'
<1> DEFINE p == FirstPart(MultiPrev)
<1>1. /\ askWrite' = FALSE /\ saver = Idle /\ saver' = WritePart(p, sizeChain)
      /\ UNCHANGED <<start, sizeChain, parts, asked, failed>>
  BY DEF TakeAsk
<1>2. FilesShape
  BY DEF FilesInv
<1>3. p \in Nat \ {0}
  BY <1>2 DEF FirstPart, FilesShape
<1>4. saver' \in PartWriting /\ saver' # Idle /\ saver'.step = "create" /\ saver'.part = p
      /\ saver'.size = sizeChain
  BY <1>1, <1>2, <1>3, NotIdle, SaverAssumption DEF WritePart, PartWriting, FilesShape
<1>5. FilesShape'
  <2>1. askWrite' \in BOOLEAN
    BY <1>1
  <2>2. MultiPrev' = MultiPrev
    BY DEF TakeAsk
  <2>3. QED BY <1>1, <1>2, <1>4, <2>1, <2>2 DEF FilesShape
<1>6. ASSUME ~failed PROVE FilesDuring'
  <2>1. /\ MultiPrev = Len(parts) /\ Len(parts) \in Nat /\ DOMAIN parts = 1..Len(parts)
        /\ \A i \in DOMAIN parts : i < Len(parts) => parts[i] = EndOf(i)
    BY <1>1, <1>2, <1>6 DEF FilesInv, FilesShape, FilesBetween
  <2>2. Len(parts) = p \/ Len(parts) = p - 1
    BY <2>1 DEF FirstPart
  <2>3. \A i \in 1..p - 1 : parts[i] = EndOf(i)
    BY <2>1 DEF FirstPart
  <2>4. EndOf(p - 1) < sizeChain
    <3>1. CASE Len(parts) = 0
      BY <1>2, <2>1, <3>1, SaverAssumption DEF FirstPart, EndOf, FilesShape
    <3>2. CASE Len(parts) # 0
      <4>1. p = Len(parts) /\ parts # <<>>
        BY <2>1, <3>2 DEF FirstPart
      <4>2. /\ EndOf(p - 1) < parts[p] /\ parts[p] <= sizeChain /\ parts[p] \in Nat
            /\ EndOf(p - 1) \in Nat /\ sizeChain \in Nat
        <5>1. EndOf(p - 1) < parts[p] /\ parts[p] <= sizeChain
          BY <1>1, <1>6, <4>1 DEF FilesInv, FilesBetween
        <5>2. parts[p] \in Nat /\ sizeChain \in Nat
          BY <1>2, <2>1, <4>1 DEF FilesShape
        <5>3. p - 1 \in Nat
          BY <1>3
        <5>4. QED BY <5>1, <5>2, <5>3, EndOfType
      <4>3. QED BY <4>2
    <3>3. QED BY <3>1, <3>2
  <2>5. asked <= sizeChain /\ sizeChain <= sizeChain
    BY <1>2 DEF FilesShape
  <2> HIDE DEF p
  <2>6. QED BY <1>1, <1>4, <2>2, <2>3, <2>4, <2>5 DEF FilesDuring, EndOf
<1>7. FilesBetween'
  BY <1>4 DEF FilesBetween
<1>8. QED BY <1>1, <1>5, <1>6, <1>7 DEF FilesInv

\* The file is there now, and empty.
LEMMA FilesCreate == ASSUME FilesInv, start.save = "parts", CreateFile PROVE FilesInv'
<1>1. /\ saver.step = "create" /\ saver' = [saver EXCEPT !.step = "write", !.taken = ToWrite]
      /\ Holds(saver.part, 0) /\ UNCHANGED <<start, sizeChain, askWrite, MultiPrev, asked, failed>>
  BY DEF CreateFile
<1>2. FilesShape /\ saver \in PartWriting
  BY <1>1, NotIdle DEF FilesInv, FilesShape
<1>3. /\ saver.part \in Nat \ {0} /\ saver.size \in Nat \ {0} /\ parts \in Seq(Nat)
      /\ Len(parts) \in Nat /\ DOMAIN parts = 1..Len(parts) /\ EndOf(saver.part) \in Nat
  BY <1>2, EndOfType DEF FilesShape, PartWriting
<1>4. ToWrite = Shorter(EndOf(saver.part), saver.size) /\ ToWrite \in Nat
  BY <1>3 DEF ToWrite, Shorter, EndOf
<1>5. /\ saver' \in PartWriting /\ saver' # Idle /\ saver # Idle /\ saver'.step = "write"
      /\ saver'.part = saver.part /\ saver'.size = saver.size
      /\ saver'.taken = Shorter(EndOf(saver.part), saver.size)
  BY <1>1, <1>2, <1>4, NotIdle DEF PartWriting
<1>6. parts' = IF saver.part \in DOMAIN parts THEN [parts EXCEPT ![saver.part] = 0]
               ELSE Append(parts, 0)
  BY <1>1, <1>3 DEF Holds
<1>7. parts' \in Seq(Nat)
  BY <1>3, <1>6
<1>8. FilesShape' /\ FilesBetween'
  BY <1>1, <1>2, <1>5, <1>7 DEF FilesShape, FilesBetween
<1>9. ASSUME ~failed PROVE FilesDuring'
  <2>1. /\ Len(parts) = saver.part \/ Len(parts) = saver.part - 1
        /\ \A i \in 1..saver.part - 1 : parts[i] = EndOf(i)
        /\ EndOf(saver.part - 1) < saver.size /\ saver.size <= sizeChain
        /\ ~askWrite => asked <= saver.size
    BY <1>1, <1>5, <1>9 DEF FilesInv, FilesDuring
  <2>2. Len(parts') = saver.part
    <3>1. CASE saver.part \in DOMAIN parts
      BY <1>3, <1>6, <2>1, <3>1
    <3>2. CASE saver.part \notin DOMAIN parts
      BY <1>3, <1>6, <2>1, <3>2
    <3>3. QED BY <3>1, <3>2
  <2>3. \A i \in 1..saver.part - 1 : i \in DOMAIN parts /\ parts'[i] = parts[i]
    <3>1. \A i \in 1..saver.part - 1 : i \in DOMAIN parts /\ i # saver.part
      BY <1>3, <2>1
    <3>2. QED BY <1>3, <1>6, <3>1
  <2>4. QED BY <1>1, <1>5, <2>1, <2>2, <2>3 DEF FilesDuring, EndOf, Shorter
<1>10. QED BY <1>1, <1>8, <1>9 DEF FilesInv

\* After an attempt the file is written again, or what comes next.
LEMMA FilesShapeKept ==
  ASSUME FilesShape, saver \in PartWriting, NEW content, NEW new \in BOOLEAN,
         Attempted(content, new), parts' \in Seq(Nat), UNCHANGED <<sizeChain, askWrite, asked>>
  PROVE  /\ FilesShape' /\ (failed => failed')
         /\ TryAgain(content) =>
              /\ saver' # Idle /\ saver'.step = "create" /\ saver'.part = saver.part
              /\ saver'.size = saver.size
<1>1. saver.part \in Nat \ {0} /\ saver.size \in Nat \ {0} /\ saver.left \in Int
  BY DEF PartWriting
<1>2. CASE TryAgain(content)
  <2>1. saver' = [saver EXCEPT !.step = "create", !.left = @ - 1] /\ UNCHANGED <<MultiPrev, failed>>
    BY <1>2 DEF Attempted
  <2>2. /\ saver' \in PartWriting /\ saver'.step = "create" /\ saver'.part = saver.part
        /\ saver'.size = saver.size
    <3>1. saver' = [step |-> "create", part |-> saver.part, size |-> saver.size,
                    left |-> saver.left - 1, taken |-> saver.taken]
      BY <2>1 DEF PartWriting
    <3>2. saver.taken \in Nat
      BY DEF PartWriting
    <3>3. QED BY <1>1, <3>1, <3>2 DEF PartWriting
  <2>3. QED BY <2>1, <2>2, NotIdle DEF FilesShape
<1>3. CASE ~TryAgain(content)
  <2>1. /\ failed' = (failed \/ ~new)
        /\ \/ saver' = WritePart(saver.part + 1, saver.size) /\ UNCHANGED MultiPrev
           \/ saver' = Idle /\ MultiPrev' = saver.part
    BY <1>3 DEF Attempted
  <2>2. WritePart(saver.part + 1, saver.size) \in PartWriting
    BY <1>1, SaverAssumption DEF WritePart, PartWriting
  <2>3. failed' \in BOOLEAN /\ (failed => failed')
    BY <2>1 DEF FilesShape
  <2>4. QED BY <1>1, <1>3, <2>1, <2>2, <2>3 DEF FilesShape
<1>4. QED BY <1>2, <1>3

LEMMA FilesWrite == ASSUME FilesInv, start.save = "parts", WriteFile PROVE FilesInv'
<1> DEFINE p == saver.part
<1>1. /\ saver.step = "write" /\ Holds(p, saver.taken) /\ Attempted(saver.taken, TRUE)
      /\ UNCHANGED <<start, sizeChain, askWrite, asked>>
  BY DEF WriteFile
<1>2. FilesShape /\ saver \in PartWriting /\ saver # Idle
  BY <1>1, NotIdle DEF FilesInv, FilesShape
<1>3. /\ p \in Nat \ {0} /\ saver.size \in Nat \ {0} /\ parts \in Seq(Nat)
      /\ Len(parts) \in Nat /\ DOMAIN parts = 1..Len(parts) /\ EndOf(p) \in Nat
      /\ sizeChain \in Nat /\ asked \in Nat
  BY <1>2, EndOfType DEF FilesShape, PartWriting
<1>4. parts' = IF p \in DOMAIN parts THEN [parts EXCEPT ![p] = saver.taken]
               ELSE Append(parts, saver.taken)
  BY <1>1, <1>3 DEF Holds
<1>5. CASE failed
  <2>1. saver.taken \in Nat
    BY <1>2 DEF PartWriting
  <2>2. parts' \in Seq(Nat)
    BY <1>3, <1>4, <2>1
  <2>3. FilesShape' /\ failed'
    BY <1>1, <1>2, <1>5, <2>2, FilesShapeKept
  <2>4. QED BY <2>3 DEF FilesInv
<1>6. CASE ~failed
  <2>1. /\ Len(parts) = p /\ \A i \in 1..p - 1 : parts[i] = EndOf(i)
        /\ EndOf(p - 1) < saver.size /\ saver.size <= sizeChain
        /\ ~askWrite => asked <= saver.size
        /\ saver.taken = Shorter(EndOf(p), saver.size)
    BY <1>1, <1>2, <1>6 DEF FilesInv, FilesDuring
  <2>2. p - 1 \in Nat /\ EndOf(p - 1) \in Nat /\ EndOf(p) = EndOf(p - 1) + blocFragmentMax
    <3>1. p - 1 \in Nat /\ (p - 1) + 1 = p
      BY <1>3
    <3>2. QED BY <3>1, EndOfType
  <2>3. /\ saver.taken \in Nat /\ saver.taken > EndOf(p - 1) /\ saver.taken <= EndOf(p)
        /\ saver.taken <= saver.size /\ saver.taken # 0
    BY <1>3, <2>1, <2>2, SaverAssumption DEF Shorter
  <2>4. /\ parts' \in Seq(Nat) /\ Len(parts') = p /\ parts' # <<>> /\ parts'[p] = saver.taken
        /\ \A i \in 1..p - 1 : parts'[i] = EndOf(i)
        /\ DOMAIN parts' = 1..p
    BY <1>3, <1>4, <2>1, <2>3
  <2>5. FilesShape'
    BY <1>1, <1>2, <2>4, FilesShapeKept
  <2>6. ~TryAgain(saver.taken)
    BY <2>3 DEF TryAgain
  <2>7. CASE p < NbParts(saver.size)
    <3>1. saver' = WritePart(p + 1, saver.size)
      BY <1>1, <2>6, <2>7 DEF Attempted
    <3>2. EndOf(p) < saver.size
      BY <1>3, <2>7, PartsOf
    <3>3. parts'[p] = EndOf(p)
      <4>1. saver.taken = EndOf(p)
        BY <2>1, <3>2 DEF Shorter
      <4>2. QED BY <2>4, <4>1
    <3>4. /\ saver' # Idle /\ saver'.step = "create" /\ saver'.part = p + 1
          /\ saver'.size = saver.size /\ saver'.part - 1 = p
      <4>1. /\ saver'.step = "create" /\ saver'.part = p + 1 /\ saver'.size = saver.size
        BY <3>1 DEF WritePart
      <4>2. saver' # Idle
        BY <4>1 DEF Idle
      <4>3. QED BY <1>3, <4>1, <4>2
    <3>5. \A i \in 1..p : parts'[i] = EndOf(i)
      BY <1>3, <2>4, <3>3
    <3> HIDE DEF p
    <3>6. FilesDuring' /\ FilesBetween'
      BY <1>1, <2>1, <2>4, <3>2, <3>4, <3>5 DEF FilesDuring, FilesBetween, EndOf
    <3>7. QED BY <2>5, <3>6 DEF FilesInv
  <2>8. CASE ~(p < NbParts(saver.size))
    <3>1. saver' = Idle /\ MultiPrev' = p
      BY <1>1, <2>6, <2>8 DEF Attempted
    <3>2. saver.size <= EndOf(p)
      BY <1>3, <2>8, PartsOf
    <3>3. saver.taken = saver.size
      BY <1>3, <2>1, <3>2 DEF Shorter
    <3>4. \A i \in DOMAIN parts' : i < p => i \in 1..p - 1
      BY <1>3, <2>4
    <3> HIDE DEF p
    <3>5. FilesBetween'
      BY <1>1, <1>3, <2>1, <2>3, <2>4, <3>1, <3>3, <3>4 DEF FilesBetween, EndOf
    <3>6. FilesDuring'
      BY <3>1 DEF FilesDuring
    <3>7. QED BY <2>5, <3>5, <3>6 DEF FilesInv
  <2>9. QED BY <2>7, <2>8
<1>7. QED BY <1>2, <1>5, <1>6 DEF FilesShape

\* What is torn is given up; what is empty is written again.
LEMMA FilesWriteFails == ASSUME FilesInv, start.save = "parts", WriteFails PROVE FilesInv'
<1>1. PICK content \in 0..1 : Holds(saver.part, content) /\ Attempted(content, FALSE)
  BY DEF WriteFails
<1>2. saver.step = "write" /\ UNCHANGED <<start, sizeChain, askWrite, asked>>
  BY DEF WriteFails
<1>3. FilesShape /\ saver \in PartWriting /\ saver # Idle
  BY <1>2, NotIdle DEF FilesInv, FilesShape
<1>4. /\ saver.part \in Nat \ {0} /\ parts \in Seq(Nat)
      /\ Len(parts) \in Nat /\ DOMAIN parts = 1..Len(parts)
  BY <1>3 DEF FilesShape, PartWriting
<1>5. parts' = IF saver.part \in DOMAIN parts THEN [parts EXCEPT ![saver.part] = content]
               ELSE Append(parts, content)
  BY <1>1, <1>4 DEF Holds
<1>6. parts' \in Seq(Nat) /\ FALSE \in BOOLEAN
  BY <1>4, <1>5
<1>7. FilesShape' /\ (failed => failed')
  BY <1>1, <1>2, <1>3, <1>6, FilesShapeKept
<1>8. CASE failed'
  BY <1>7, <1>8 DEF FilesInv
<1>9. CASE ~failed'
  <2>1. TryAgain(content)
    BY <1>1, <1>9 DEF Attempted
  <2>2. /\ saver' # Idle /\ saver'.step = "create" /\ saver'.part = saver.part
        /\ saver'.size = saver.size
    BY <1>1, <1>2, <1>3, <1>6, <2>1, FilesShapeKept
  <2>3. FilesDuring
    BY <1>7, <1>9 DEF FilesInv
  <2>4. Len(parts) = saver.part
    BY <1>2, <1>3, <2>3 DEF FilesDuring
  <2>5. Len(parts') = Len(parts) /\ \A i \in 1..saver.part - 1 : parts'[i] = parts[i]
    BY <1>4, <1>5, <2>4
  <2>6. FilesDuring' /\ FilesBetween'
    BY <1>2, <1>3, <2>2, <2>3, <2>4, <2>5 DEF FilesDuring, FilesBetween, EndOf
  <2>7. QED BY <1>7, <2>6 DEF FilesInv
<1>10. QED BY <1>8, <1>9

\* One part cannot be given up: the node panics.
LEMMA FilesSaver == ASSUME FilesInv, SaverStep PROVE FilesInv'
<1>1. UNCHANGED start
  BY DEF SaverStep, RegularSave, SaverLoop, TakeAsk, CreateFile, CreateFails, WriteFile, WriteFails
<1> SUFFICES ASSUME start.save = "parts" PROVE FilesInv'
  BY <1>1 DEF FilesInv
<1>2. CASE RegularSave
  <2>1. askWrite' = TRUE /\ asked' = sizeChain
    BY <1>2 DEF RegularSave, AskToSave, PlaceFree, FilesInv, FilesShape
  <2>2. QED BY <1>2, <2>1, FilesStay DEF RegularSave, fileVars
<1>3. CASE CreateFails
  <2>1. saver.step = "create"
    BY <1>3 DEF CreateFails
  <2>2. saver.part # 0
    BY <2>1, NotIdle DEF FilesInv, FilesShape, PartWriting
  <2>3. UNCHANGED <<start, sizeChain, askWrite, asked, saver, parts, MultiPrev, failed>>
    BY <1>3, <2>2 DEF CreateFails
  <2>4. QED BY <2>3, FilesStay
<1>4. QED BY <1>2, <1>3, FilesTake, FilesCreate, FilesWrite, FilesWriteFails
         DEF SaverStep, SaverLoop

LEMMA FilesNext == ASSUME FilesInv, [Next]_vars PROVE FilesInv'
<1>1. CASE MetricsStep
  <2>1. CASE Consensus \/ Pool \/ SumLoop \/ TickerLoop \/ StartSave \/ Save("ticker")
    <3>1. UNCHANGED <<start, saveVars>> /\ (sizeChain' = sizeChain \/ sizeChain' = sizeChain + 1)
      BY <2>1 DEF Consensus, BeginBlock, AppendBlock, CountBlock, CountTx, AskPool, PoolAnswers,
                  RemoveTx, Pool, ReceiveTx, CountReceived, SumLoop, TickerLoop, Tick, Update,
                  Spawn, ServeThroughputs, StartSave, Save, blockVars
    <3>2. QED BY <3>1, FilesStay DEF saveVars, fileVars
  <2>2. ASSUME NEW u \in DOMAIN updaters, Updater(u)
        PROVE  FilesInv'
    <3>1. UNCHANGED <<start, saveVars, sizeChain>>
      BY <2>2 DEF Updater, ReadBlock, AskThroughputs, Keep, blockVars
    <3>2. QED BY <3>1, FilesStay DEF saveVars, fileVars
  <2>3. QED BY <1>1, <2>1, <2>2 DEF MetricsStep, Measuring
<1>2. CASE MainStep
  <2>1. CASE Interrupt
    <3> SUFFICES ASSUME start.save = "parts" PROVE FilesInv'
      BY <2>1 DEF Interrupt, FilesInv
    <3>1. askWrite' = TRUE /\ asked' = sizeChain
      BY <2>1 DEF Interrupt, AskToSave, PlaceFree, FilesInv, FilesShape
    <3>2. QED BY <2>1, <3>1, FilesStay DEF Interrupt, fileVars
  <2>2. CASE Main
    <3>1. UNCHANGED <<start, saveVars, sizeChain>>
      BY <2>2 DEF Main, WaitSaver, CloseMetrics, StopStack, WaitUpdates, Save, KillTicker, KillSum,
                  KillConsensus, blockVars
    <3>2. QED BY <3>1, FilesStay DEF saveVars, fileVars
  <2>3. QED BY <1>2, <2>1, <2>2 DEF MainStep
<1>3. CASE Order
  <2>1. UNCHANGED <<start, saveVars, sizeChain>>
    BY <1>3 DEF Order, CheckControl, MakeOrder, AddOrder, OrderAdded, Flush, HandPeriod, blockVars
  <2>2. QED BY <2>1, FilesStay DEF saveVars, fileVars
<1>4. CASE UNCHANGED vars
  BY <1>4, FilesStay DEF vars, saveVars, fileVars
<1>5. QED BY <1>1, <1>2, <1>3, <1>4, FilesSaver DEF Next

\* Between two writes the numbered files have the chain without a gap, full but for
\* the last, up to where it was at the last ask that is not still waiting.
THEOREM NodePartsCover == Spec => []PartsCover
<1>1. FilesInv => PartsCover
  <2> SUFFICES ASSUME FilesInv, start.save = "parts", saver = Idle, ~failed PROVE PartsCover
    BY DEF PartsCover
  <2>1. FilesShape /\ FilesBetween
    BY DEF FilesInv
  <2>2. ASSUME NEW i \in DOMAIN parts
        PROVE  IF i < Len(parts) THEN parts[i] = i * blocFragmentMax
               ELSE parts[i] \in (i - 1) * blocFragmentMax + 1 .. i * blocFragmentMax
    <3>1. parts # <<>> /\ Len(parts) \in Nat /\ i \in 1..Len(parts) /\ parts[i] \in Nat
      BY <2>1 DEF FilesShape
    <3>2. CASE i < Len(parts)
      BY <2>1, <3>2 DEF FilesBetween, EndOf
    <3>3. CASE i = Len(parts)
      <4>1. EndOf(i - 1) < parts[i] /\ parts[i] <= EndOf(i)
        BY <2>1, <3>1, <3>3 DEF FilesBetween
      <4>2. EndOf(i - 1) \in Nat /\ EndOf(i) \in Nat
        <5>1. i - 1 \in Nat /\ i \in Nat
          BY <3>1
        <5>2. QED BY <5>1, EndOfType
      <4>3. parts[i] \in EndOf(i - 1) + 1 .. EndOf(i)
        BY <3>1, <4>1, <4>2
      <4>4. QED BY <3>3, <4>3 DEF EndOf
    <3>4. QED BY <3>1, <3>2, <3>3
  <2>3. QED BY <2>1, <2>2 DEF PartsCover, FilesBetween
<1>2. QED BY <1>1, FilesInitial, FilesNext, PTL DEF Spec
-----------------------------------------------------------------------------
(***************************************************************************)
(* StaleAtMostOne.  The buffer holds the periods handed over last, one of  *)
(* them after the other from currentIndex on; all periods but the last     *)
(* have been handed over.                                                  *)
(***************************************************************************)
Handed == IF ticker = "report" THEN now - 1 ELSE now
Slot(handed, index, size, i) ==
  IF i < index THEN handed - index + i + 1
  ELSE IF handed - index + i + 1 > size THEN handed - index + i + 1 - size ELSE 0
At(i) == Slot(Handed, tor.currentIndex, start.buffer, i)

TorInv ==
  /\ start.buffer \in Nat \ {0}
  /\ now \in Nat /\ changedAt \in 0..now
  /\ tor.currentIndex \in 0..start.buffer - 1 /\ tor.currentIndex <= Handed
  /\ DOMAIN tor.data = 0..start.buffer - 1
  /\ \A i \in 0..start.buffer - 1 : tor.data[i].at = At(i)
  /\ stale <= 1

LEMMA TorInit == Init => TorInv
<1> SUFFICES ASSUME Init PROVE TorInv
  OBVIOUS
<1>1. start.buffer \in Nat \ {0} /\ now = 0 /\ changedAt = 0 /\ ticker = "select" /\ stale = 0
  BY StartAssumption DEF Init, MetricsInit, ControlInit, StartAssumption
<1>2. /\ tor.currentIndex = 0 /\ DOMAIN tor.data = 0..start.buffer - 1
      /\ \A i \in 0..start.buffer - 1 : tor.data[i].at = 0
  BY DEF Init, ControlInit, NewFixTor
<1>3. \A i \in 0..start.buffer - 1 : At(i) = 0
  BY <1>1, <1>2 DEF At, Slot, Handed
<1>4. QED BY <1>1, <1>2, <1>3 DEF TorInv, Handed

LEMMA TorStays ==
  ASSUME TorInv, UNCHANGED <<start, now, changedAt, tor, stale>>, Handed' = Handed
  PROVE  TorInv'
<1>1. \A i \in 0..start.buffer - 1 : At(i)' = At(i)
  BY DEF At
<1>2. QED BY <1>1 DEF TorInv

LEMMA Turns ==
  ASSUME NEW n \in Nat \ {0}, NEW c \in 0..n - 1
  PROVE  (c + 1) % n = IF c + 1 = n THEN 0 ELSE c + 1
  OBVIOUS

LEMMA TorHand == ASSUME TorInv, HandPeriod PROVE TorInv'
<1> DEFINE n == start.buffer
           c == tor.currentIndex
<1>1. /\ Handed = now - 1 /\ Handed' = now /\ UNCHANGED <<start, now, changedAt, stale>>
      /\ tor' = AppendPeriod(period)
  BY DEF HandPeriod, Handed
<1>2. n \in Nat \ {0} /\ c \in 0..n - 1 /\ c <= now - 1 /\ now \in Nat
  BY <1>1 DEF TorInv
<1>3. tor'.currentIndex = IF c + 1 = n THEN 0 ELSE c + 1
  BY <1>1, <1>2, Turns DEF AppendPeriod, NextIndex
<1>4. DOMAIN tor'.data = 0..n - 1 /\ tor'.data[c].at = now
  BY <1>1, <1>2 DEF AppendPeriod, TorInv
<1>5. \A i \in 0..n - 1 : i # c => tor'.data[i].at = At(i)
  BY <1>1, <1>2 DEF AppendPeriod, TorInv
<1>6. ASSUME NEW i \in 0..n - 1
      PROVE  tor'.data[i].at = At(i)'
  <2>1. At(i)' = Slot(now, tor'.currentIndex, n, i) /\ At(i) = Slot(now - 1, c, n, i)
    BY <1>1 DEF At
  <2>2. tor'.data[i].at = IF i = c THEN now ELSE Slot(now - 1, c, n, i)
    BY <1>4, <1>5, <2>1
  <2>3. Slot(now, tor'.currentIndex, n, i) = IF i = c THEN now ELSE Slot(now - 1, c, n, i)
    <3> HIDE DEF n, c
    <3>1. QED BY <1>2, <1>3 DEF Slot
  <2>4. QED BY <2>1, <2>2, <2>3
<1>7. tor'.currentIndex \in 0..n - 1 /\ tor'.currentIndex <= Handed'
  BY <1>1, <1>2, <1>3
<1>8. QED BY <1>1, <1>4, <1>6, <1>7 DEF TorInv

\* Only the period at currentIndex may be older than the last change.
LEMMA OrderStale ==
  ASSUME TorInv, now - changedAt >= start.buffer
  PROVE  Cardinality({i \in DOMAIN tor.data : tor.data[i].at <= changedAt}) <= 1
<1> DEFINE S == {i \in DOMAIN tor.data : tor.data[i].at <= changedAt}
<1>1. Handed \in {now, now - 1}
  BY DEF Handed
<1>2. \A i \in 0..start.buffer - 1 : i # tor.currentIndex => ~(At(i) <= changedAt)
  <2> SUFFICES ASSUME NEW i \in 0..start.buffer - 1, i # tor.currentIndex
               PROVE  At(i) \in Int /\ At(i) > changedAt
    BY DEF TorInv
  <2>1. /\ start.buffer \in Nat \ {0} /\ tor.currentIndex \in 0..start.buffer - 1
        /\ changedAt \in Nat /\ now \in Nat /\ Handed >= now - 1 /\ Handed \in Int
        /\ now - changedAt >= start.buffer
    BY <1>1 DEF TorInv
  <2>2. At(i) = Slot(Handed, tor.currentIndex, start.buffer, i)
    BY DEF At
  <2>3. CASE i < tor.currentIndex
    <3>1. At(i) = Handed - tor.currentIndex + i + 1
      BY <2>2, <2>3 DEF Slot
    <3>2. QED BY <2>1, <3>1
  <2>4. CASE i > tor.currentIndex
    <3>1. Handed - tor.currentIndex + i + 1 > start.buffer
      BY <2>1, <2>4
    <3>2. At(i) = Handed - tor.currentIndex + i + 1 - start.buffer
      BY <2>1, <2>2, <2>4, <3>1 DEF Slot
    <3>3. QED BY <2>1, <2>4, <3>2
  <2>5. QED BY <2>1, <2>3, <2>4
<1>3. S \subseteq {tor.currentIndex}
  BY <1>2 DEF TorInv
<1>4. IsFiniteSet({tor.currentIndex}) /\ Cardinality({tor.currentIndex}) = 1
  BY FS_Singleton
<1>5. QED BY <1>3, <1>4, FS_Subset

LEMMA TorNext == ASSUME TorInv, [Next]_vars PROVE TorInv'
<1>1. CASE HandPeriod
  BY <1>1, TorHand
<1>2. CASE MakeOrder
  <2>1. UNCHANGED <<start, now, ticker, changedAt, tor>>
    BY <1>2 DEF MakeOrder, tickVars
  <2>2. stale' = stale \/ (now - changedAt >= start.buffer /\
          stale' = Cardinality({i \in DOMAIN tor.data : tor.data[i].at <= changedAt}))
    <3>1. PICK older \in OlderThan :
            stale' = IF older /\ emittedThroughput # 0 /\ committedThroughput # 0
                     THEN Cardinality({i \in DOMAIN tor.data : tor.data[i].at <= changedAt})
                     ELSE stale
      BY <1>2 DEF MakeOrder
    <3>2. older => now - changedAt >= start.buffer
      <4>1. now - changedAt \in Int /\ start.buffer \in Int
        BY DEF TorInv
      <4>2. CASE now - changedAt > start.buffer
        BY <4>1, <4>2
      <4>3. CASE now - changedAt = start.buffer
        BY <4>1, <4>3
      <4>4. CASE ~(now - changedAt > start.buffer) /\ now - changedAt # start.buffer
        BY <4>4 DEF OlderThan
      <4>5. QED BY <4>2, <4>3, <4>4
    <3>3. QED BY <3>1, <3>2
  <2>3. stale' <= 1
    BY <2>2, OrderStale DEF TorInv
  <2>4. \A i \in 0..start.buffer - 1 : At(i)' = At(i)
    BY <2>1 DEF At, Handed
  <2>5. QED BY <2>1, <2>3, <2>4 DEF TorInv, Handed
<1>3. CASE Flush
  <2>1. UNCHANGED <<start, now, ticker, tor, stale>> /\ changedAt' \in {changedAt, now}
    BY <1>3 DEF Flush, tickVars
  <2>2. \A i \in 0..start.buffer - 1 : At(i)' = At(i)
    BY <2>1 DEF At, Handed
  <2>3. QED BY <2>1, <2>2 DEF TorInv, Handed
<1>4. CASE CheckControl \/ AddOrder \/ OrderAdded
  BY <1>4, TorStays DEF CheckControl, AddOrder, OrderAdded, controlVars, tickVars, Handed
<1>5. CASE MetricsStep
  <2>1. CASE Tick
    <3>1. /\ now' = now + 1 /\ ticker = "select" /\ ticker' = "report"
          /\ UNCHANGED <<start, changedAt, tor, stale>>
      BY <1>5, <2>1 DEF MetricsStep, Tick, controlVars
    <3>2. Handed' = Handed /\ now' \in Nat /\ changedAt' \in 0..now'
      BY <3>1 DEF Handed, TorInv
    <3>3. \A i \in 0..start.buffer - 1 : At(i)' = At(i)
      BY <3>1, <3>2 DEF At
    <3>4. QED BY <3>1, <3>2, <3>3 DEF TorInv
  <2>2. CASE Consensus \/ Pool \/ SumLoop \/ Update \/ Spawn \/ ServeThroughputs \/ StartSave
               \/ Save("ticker")
    <3>1. UNCHANGED <<start, now, changedAt, tor, stale>> /\ Handed' = Handed
      BY <1>5, <2>2 DEF MetricsStep, Consensus, BeginBlock, AppendBlock, CountBlock, CountTx,
                        AskPool, PoolAnswers, RemoveTx, Pool, ReceiveTx, CountReceived, SumLoop,
                        Update, Spawn, ServeThroughputs, StartSave, Save, controlVars, tickVars,
                        Handed
    <3>2. QED BY <3>1, TorStays
  <2>3. ASSUME NEW u \in DOMAIN updaters, Updater(u)
        PROVE  TorInv'
    <3>1. UNCHANGED <<start, now, changedAt, tor, stale>> /\ Handed' = Handed
      BY <1>5, <2>3 DEF MetricsStep, Updater, ReadBlock, AskThroughputs, Keep, controlVars,
                        tickVars, Handed
    <3>2. QED BY <3>1, TorStays
  <2>4. QED BY <1>5, <2>1, <2>2, <2>3 DEF MetricsStep, Measuring, TickerLoop
<1>6. CASE MainStep
  <2>1. UNCHANGED <<start, now, changedAt, tor, stale>> /\ Handed' = Handed
    BY <1>6 DEF MainStep, Interrupt, Main, WaitSaver, CloseMetrics, StopStack, WaitUpdates, Save,
                KillTicker, KillSum, KillConsensus, controlVars, metricVars, tickVars, Handed
  <2>2. QED BY <2>1, TorStays
<1>7. CASE SaverStep \/ UNCHANGED vars
  <2>1. UNCHANGED <<now, changedAt, tor, stale>> /\ Handed' = Handed
    BY <1>7 DEF SaverStep, vars, controlVars, metricVars, tickVars, Handed
  <2>2. UNCHANGED start
    BY <1>7 DEF SaverStep, RegularSave, SaverLoop, TakeAsk, CreateFile, CreateFails, WriteFile,
                WriteFails, vars
  <2>3. QED BY <2>1, <2>2, TorStays
<1>8. QED BY <1>1, <1>2, <1>3, <1>4, <1>5, <1>6, <1>7 DEF Next, Order

\* An order is based on the periods since the last change, but for one.
THEOREM NodeStaleAtMostOne == Spec => []StaleAtMostOne
<1>1. TorInv => StaleAtMostOne
  BY DEF TorInv, StaleAtMostOne
<1>2. QED BY <1>1, TorInit, TorNext, PTL DEF Spec
-----------------------------------------------------------------------------
(***************************************************************************)
(* MetricsKept.  The WaitGroup counts the updaters under way and the list  *)
(* those that are done.                                                    *)
(***************************************************************************)
UnderWay == {u \in DOMAIN updaters : updaters[u].step \notin {"no", "done"}}
Over == {u \in DOMAIN updaters : updaters[u].step = "done"}

IsUpdater(r) == r = [step |-> r.step, last |-> r.last, previous |-> r.previous]
IsStack(r) == r = [list |-> r.list, stop |-> r.stop, wait |-> r.wait]

UpdaterInv ==
  /\ \A u \in DOMAIN updaters : IsUpdater(updaters[u])
  /\ IsStack(stack)
  /\ start.maxTick \in Nat /\ now \in Nat /\ now <= start.maxTick
  /\ DOMAIN updaters = 1..start.maxTick
  /\ \A u \in DOMAIN updaters : u > now => updaters[u].step = "no"
  /\ ticker \in {"report", "update", "spawn"} => now > 0 /\ updaters[now].step = "no"
  /\ throughputChan \in Seq(DOMAIN updaters)
  /\ \A i \in DOMAIN throughputChan : updaters[throughputChan[i]].step = "answer"
  /\ \A i, j \in DOMAIN throughputChan : throughputChan[i] = throughputChan[j] => i = j
  /\ stack.wait = Cardinality(UnderWay)
  /\ stack.list \in Seq(BOOLEAN) /\ Len(stack.list) = Cardinality(Over)

updaterVars == <<start, now, ticker, updaters, throughputChan, stack>>

LEMMA UpdaterRecord ==
  ASSUME NEW r, IsUpdater(r), NEW x
  PROVE  IsUpdater([r EXCEPT !.step = x]) /\ [r EXCEPT !.step = x].step = x
<1>1. r = [step |-> r.step, last |-> r.last, previous |-> r.previous]
  BY DEF IsUpdater
<1>2. [r EXCEPT !.step = x] = [step |-> x, last |-> r.last, previous |-> r.previous]
  BY <1>1
<1>3. QED BY <1>2 DEF IsUpdater

LEMMA StackRecord ==
  ASSUME NEW r, IsStack(r), NEW x
  PROVE  /\ IsStack([r EXCEPT !.stop = x])
         /\ [r EXCEPT !.stop = x].list = r.list /\ [r EXCEPT !.stop = x].wait = r.wait
<1>1. r = [list |-> r.list, stop |-> r.stop, wait |-> r.wait]
  BY DEF IsStack
<1>2. [r EXCEPT !.stop = x] = [list |-> r.list, stop |-> x, wait |-> r.wait]
  BY <1>1
<1>3. QED BY <1>2 DEF IsStack

LEMMA UpdaterInit == Init => UpdaterInv
<1> SUFFICES ASSUME Init PROVE UpdaterInv
  OBVIOUS
<1>1. start.maxTick \in Nat
  BY StartAssumption DEF Init, StartAssumption
<1>2. /\ now = 0 /\ ticker = "select" /\ throughputChan = <<>>
      /\ updaters = [u \in 1..start.maxTick |-> [step |-> "no", last |-> 0, previous |-> 0]]
      /\ stack.list = <<>> /\ stack.wait = 0 /\ IsStack(stack)
  BY DEF Init, MetricsInit, IsStack
<1>3. UnderWay = {} /\ Over = {}
  BY <1>2 DEF UnderWay, Over
<1>4. \A u \in DOMAIN updaters : IsUpdater(updaters[u])
  BY <1>2 DEF IsUpdater
<1>5. /\ throughputChan \in Seq(DOMAIN updaters) /\ DOMAIN throughputChan = {}
      /\ stack.list \in Seq(BOOLEAN) /\ Len(stack.list) = 0
  BY <1>2
<1>6. stack.wait = Cardinality(UnderWay) /\ Len(stack.list) = Cardinality(Over)
  BY <1>2, <1>3, <1>5, FS_EmptySet
<1>7. /\ now \in Nat /\ now <= start.maxTick /\ DOMAIN updaters = 1..start.maxTick
      /\ \A u \in DOMAIN updaters : u > now => updaters[u].step = "no"
      /\ ticker \notin {"report", "update", "spawn"}
  BY <1>1, <1>2
<1>8. QED BY <1>1, <1>2, <1>4, <1>5, <1>6, <1>7 DEF UpdaterInv

LEMMA UpdaterStays ==
  ASSUME UpdaterInv, UNCHANGED <<start, now, updaters, throughputChan>>,
         stack' \in {stack, [stack EXCEPT !.stop = TRUE]},
         ticker' \in {"report", "update", "spawn"} => ticker \in {"report", "update", "spawn"}
  PROVE  UpdaterInv'
<1>1. UnderWay' = UnderWay /\ Over' = Over
  BY DEF UnderWay, Over
<1>2. IsStack(stack') /\ stack'.wait = stack.wait /\ stack'.list = stack.list
  <2>1. IsStack(stack)
    BY DEF UpdaterInv
  <2>2. CASE stack' = stack
    BY <2>1, <2>2
  <2>3. CASE stack' = [stack EXCEPT !.stop = TRUE]
    BY <2>1, <2>3, StackRecord
  <2>4. QED BY <2>2, <2>3
<1>3. QED BY <1>1, <1>2 DEF UpdaterInv

LEMMA UpdatersFinite == ASSUME UpdaterInv PROVE IsFiniteSet(UnderWay) /\ IsFiniteSet(Over)
<1>1. start.maxTick \in Int /\ 1 \in Int
  BY DEF UpdaterInv
<1>2. IsFiniteSet(1..start.maxTick)
  BY <1>1, FS_Interval
<1>3. UnderWay \subseteq 1..start.maxTick /\ Over \subseteq 1..start.maxTick
  BY DEF UnderWay, Over, UpdaterInv
<1>4. QED BY <1>2, <1>3, FS_Subset

\* An updater goes on from one step under way to another, in the channel or not.
LEMMA UpdaterGoesOn ==
  ASSUME UpdaterInv, NEW u \in UnderWay, NEW e, updaters' = [updaters EXCEPT ![u] = e],
         IsUpdater(e), e.step \notin {"no", "done"}, UNCHANGED <<start, now, ticker, stack>>,
         \/ UNCHANGED throughputChan /\ updaters[u].step # "answer"
         \/ throughputChan' = Append(throughputChan, u) /\ updaters[u].step # "answer"
              /\ e.step = "answer"
         \/ throughputChan # <<>> /\ throughputChan' = Tail(throughputChan)
              /\ u = Head(throughputChan)
  PROVE  UpdaterInv'
<1>1. u \in DOMAIN updaters /\ updaters[u].step \notin {"no", "done"}
  BY DEF UnderWay
<1>2. /\ DOMAIN updaters' = DOMAIN updaters
      /\ \A v \in DOMAIN updaters : updaters'[v] = IF v = u THEN e ELSE updaters[v]
  BY <1>1
<1>3. UnderWay' = UnderWay /\ Over' = Over
  BY <1>1, <1>2 DEF UnderWay, Over
<1>4. /\ \A v \in DOMAIN updaters' : IsUpdater(updaters'[v])
      /\ \A v \in DOMAIN updaters' : v > now => updaters'[v].step = "no"
      /\ ticker \in {"report", "update", "spawn"} => updaters'[now].step = "no"
  BY <1>1, <1>2 DEF UpdaterInv
<1>5. /\ throughputChan' \in Seq(DOMAIN updaters)
      /\ \A i \in DOMAIN throughputChan' : updaters'[throughputChan'[i]].step = "answer"
      /\ \A i, j \in DOMAIN throughputChan' : throughputChan'[i] = throughputChan'[j] => i = j
  <2> DEFINE n == Len(throughputChan)
  <2>0. /\ n \in Nat
        /\ \A i \in 1..n : /\ throughputChan[i] \in DOMAIN updaters
                          /\ updaters[throughputChan[i]].step = "answer"
        /\ \A i, j \in 1..n : throughputChan[i] = throughputChan[j] => i = j
    <3>1. throughputChan \in Seq(DOMAIN updaters)
      BY DEF UpdaterInv
    <3>2. /\ n \in Nat /\ DOMAIN throughputChan = 1..n
          /\ \A i \in 1..n : throughputChan[i] \in DOMAIN updaters
      BY <3>1
    <3>3. /\ \A i \in DOMAIN throughputChan : updaters[throughputChan[i]].step = "answer"
          /\ \A i, j \in DOMAIN throughputChan :
               throughputChan[i] = throughputChan[j] => i = j
      BY DEF UpdaterInv
    <3> HIDE DEF n
    <3>4. QED BY <3>2, <3>3
  <2>1. CASE UNCHANGED throughputChan /\ updaters[u].step # "answer"
    BY <1>1, <1>2, <2>1 DEF UpdaterInv
  <2>2. CASE throughputChan' = Append(throughputChan, u) /\ updaters[u].step # "answer"
              /\ e.step = "answer"
    <3>1. /\ throughputChan' \in Seq(DOMAIN updaters)
          /\ DOMAIN throughputChan' = 1..n + 1
          /\ \A i \in 1..n : throughputChan'[i] = throughputChan[i]
          /\ throughputChan'[n + 1] = u
      BY <1>1, <2>2 DEF UpdaterInv
    <3> HIDE DEF n
    <3>2. \A i \in 1..n : throughputChan[i] # u
      BY <2>2, <2>0
    <3>3. ASSUME NEW i \in 1..n + 1
          PROVE  updaters'[throughputChan'[i]].step = "answer"
      <4>1. CASE i = n + 1
        BY <1>1, <1>2, <2>2, <3>1, <4>1
      <4>2. CASE i # n + 1
        <5>1. i \in 1..n
          BY <2>0, <4>2
        <5>2. throughputChan'[i] = throughputChan[i] /\ throughputChan[i] # u
          BY <3>1, <3>2, <5>1
        <5>3. QED BY <1>2, <2>0, <5>1, <5>2
      <4>3. QED BY <4>1, <4>2
    <3>4. ASSUME NEW i \in 1..n + 1, NEW j \in 1..n + 1, throughputChan'[i] = throughputChan'[j]
          PROVE  i = j
      <4>1. CASE i \in 1..n /\ j \in 1..n
        BY <2>0, <3>1, <3>4, <4>1
      <4>2. CASE i \in 1..n /\ j = n + 1
        BY <3>1, <3>2, <3>4, <4>2
      <4>3. CASE i = n + 1 /\ j \in 1..n
        BY <3>1, <3>2, <3>4, <4>3
      <4>4. CASE i = n + 1 /\ j = n + 1
        BY <4>4
      <4>5. QED BY <2>0, <4>1, <4>2, <4>3, <4>4
    <3>5. QED BY <3>1, <3>3, <3>4
  <2>3. CASE throughputChan # <<>> /\ throughputChan' = Tail(throughputChan)
              /\ u = Head(throughputChan)
    <3>1. /\ throughputChan' \in Seq(DOMAIN updaters)
          /\ DOMAIN throughputChan' = 1..n - 1
          /\ \A i \in 1..n - 1 : throughputChan'[i] = throughputChan[i + 1]
          /\ u = throughputChan[1] /\ n # 0
      BY <2>3 DEF UpdaterInv
    <3> HIDE DEF n
    <3>2. ASSUME NEW i \in 1..n - 1
          PROVE  updaters'[throughputChan'[i]].step = "answer"
      <4>1. i + 1 \in 1..n /\ 1 \in 1..n /\ i + 1 # 1
        BY <2>0
      <4>2. throughputChan'[i] = throughputChan[i + 1] /\ throughputChan[i + 1] # u
        BY <2>0, <3>1, <4>1
      <4>3. QED BY <1>2, <2>0, <4>1, <4>2
    <3>3. ASSUME NEW i \in 1..n - 1, NEW j \in 1..n - 1, throughputChan'[i] = throughputChan'[j]
          PROVE  i = j
      <4>1. i + 1 \in 1..n /\ j + 1 \in 1..n
        BY <2>0
      <4>2. throughputChan[i + 1] = throughputChan[j + 1]
        BY <3>1, <3>3
      <4>3. i + 1 = j + 1
        BY <2>0, <4>1, <4>2
      <4>4. QED BY <4>3
    <3>4. QED BY <3>1, <3>2, <3>3
  <2>4. QED BY <2>1, <2>2, <2>3
<1>6. QED BY <1>2, <1>3, <1>4, <1>5 DEF UpdaterInv

LEMMA UpdaterStep ==
  ASSUME UpdaterInv, NEW u \in DOMAIN updaters, Updater(u)
  PROVE  UpdaterInv'
<1> IsUpdater(updaters[u])
  BY DEF UpdaterInv
<1>1. CASE ReadBlock(u)
  <2>1. PICK e : updaters' = [updaters EXCEPT ![u] = e] /\ IsUpdater(e)
                   /\ e.step \in {"previous", "ask"}
    <3> DEFINE first == [step |-> IF lastBlock > 1 THEN "previous" ELSE "ask",
                         last |-> lastBlock, previous |-> 0]
               second == [step |-> "ask", last |-> updaters[u].last, previous |-> secLastBlock]
    <3>1. IsUpdater(first) /\ IsUpdater(second)
            /\ first.step \in {"previous", "ask"} /\ second.step = "ask"
      BY DEF IsUpdater
    <3>2. \/ updaters' = [updaters EXCEPT ![u] = first]
          \/ updaters' = [updaters EXCEPT ![u] = second]
      BY <1>1 DEF ReadBlock
    <3> HIDE DEF first, second
    <3>3. QED BY <3>1, <3>2
  <2>2. u \in UnderWay /\ updaters[u].step # "answer"
    BY <1>1 DEF ReadBlock, UnderWay
  <2>3. UNCHANGED <<start, now, ticker, throughputChan, stack>>
    BY <1>1 DEF ReadBlock, tickVars
  <2>4. QED BY <2>1, <2>2, <2>3, UpdaterGoesOn
<1>2. CASE AskThroughputs(u)
  <2>1. CASE ThroughputClosed
    BY <1>2, <2>1, UpdaterStays DEF AskThroughputs
  <2>2. CASE ~ThroughputClosed
    <3>1. /\ updaters[u].step = "ask" /\ throughputChan' = Append(throughputChan, u)
          /\ updaters' = [updaters EXCEPT ![u] = [updaters[u] EXCEPT !.step = "answer"]]
          /\ UNCHANGED <<start, now, ticker, stack>>
      BY <1>2, <2>2 DEF AskThroughputs
    <3>2. u \in UnderWay
      BY <3>1 DEF UnderWay
    <3>3. QED BY <3>1, <3>2, UpdaterRecord, UpdaterGoesOn
  <2>3. QED BY <2>1, <2>2
<1>3. CASE Keep(u)
  <2> DEFINE e == [updaters[u] EXCEPT !.step = "done"]
             l == Append(stack.list, Infinite(u))
  <2>1. /\ updaters[u].step = "append" /\ updaters' = [updaters EXCEPT ![u] = e]
        /\ stack' = [list |-> l, stop |-> stack.stop, wait |-> stack.wait - 1]
        /\ UNCHANGED <<start, now, ticker, throughputChan>>
    BY <1>3 DEF Keep, tickVars
  <2>2. IsUpdater(e) /\ e.step = "done"
    BY UpdaterRecord
  <2>3. /\ DOMAIN updaters' = DOMAIN updaters
        /\ \A v \in DOMAIN updaters : updaters'[v] = IF v = u THEN e ELSE updaters[v]
    BY <2>1
  <2>4. UnderWay' = UnderWay \ {u} /\ u \in UnderWay
    BY <2>1, <2>2, <2>3 DEF UnderWay
  <2>5. Over' = Over \cup {u} /\ u \notin Over
    BY <2>1, <2>2, <2>3 DEF Over
  <2>6. IsStack(stack') /\ stack'.list = l /\ stack'.wait = stack.wait - 1
    BY <2>1 DEF UpdaterInv, IsStack
  <2>7. stack'.wait = Cardinality(UnderWay')
    BY <2>4, <2>6, UpdatersFinite, FS_RemoveElement DEF UpdaterInv
  <2>8. Infinite(u) \in BOOLEAN
    BY DEF Infinite
  <2>9. stack'.list \in Seq(BOOLEAN) /\ Len(stack'.list) = Len(stack.list) + 1
    BY <2>6, <2>8 DEF UpdaterInv
  <2>10. Len(stack'.list) = Cardinality(Over')
    <3>1. Cardinality(Over \cup {u}) = Cardinality(Over) + 1
      BY <2>5, UpdatersFinite, FS_AddElement
    <3>2. QED BY <2>5, <2>9, <3>1 DEF UpdaterInv
  <2>11. QED BY <2>1, <2>2, <2>3, <2>6, <2>7, <2>9, <2>10 DEF UpdaterInv
<1>4. QED BY <1>1, <1>2, <1>3 DEF Updater

LEMMA UpdaterNext == ASSUME UpdaterInv, [Next]_vars PROVE UpdaterInv'
<1>1. CASE MetricsStep
  <2>1. CASE Tick
    <3>1. /\ now' = now + 1 /\ now < start.maxTick /\ ticker = "select" /\ ticker' = "report"
          /\ UNCHANGED <<start, updaters, throughputChan, stack>>
      BY <2>1 DEF Tick, stackVars
    <3>2. UnderWay' = UnderWay /\ Over' = Over
      BY <3>1 DEF UnderWay, Over
    <3>3. /\ now' \in Nat /\ now' <= start.maxTick /\ now' > 0 /\ now' \in DOMAIN updaters
          /\ updaters[now'].step = "no"
          /\ \A u \in DOMAIN updaters : u > now' => updaters[u].step = "no"
      <4>1. /\ now \in Nat /\ start.maxTick \in Nat /\ DOMAIN updaters = 1..start.maxTick
            /\ \A u \in 1..start.maxTick : u > now => updaters[u].step = "no"
        BY DEF UpdaterInv
      <4>2. now + 1 \in 1..start.maxTick /\ now + 1 > now
        BY <3>1, <4>1
      <4>3. updaters[now + 1].step = "no"
        BY <4>1, <4>2
      <4>4. \A u \in 1..start.maxTick : u > now + 1 => updaters[u].step = "no"
        BY <4>1
      <4>5. QED BY <3>1, <4>1, <4>2, <4>3, <4>4
    <3>4. QED BY <3>1, <3>2, <3>3 DEF UpdaterInv
  <2>2. CASE Spawn
    <3> DEFINE e == [updaters[now] EXCEPT !.step = "last"]
    <3>1. /\ ticker = "spawn" /\ ticker' = "select" /\ updaters' = [updaters EXCEPT ![now] = e]
          /\ stack' = [stack EXCEPT !.wait = @ + 1] /\ UNCHANGED <<start, now, throughputChan>>
      BY <2>2 DEF Spawn
    <3>2. now \in DOMAIN updaters /\ updaters[now].step = "no" /\ IsUpdater(updaters[now])
      BY <3>1 DEF UpdaterInv
    <3>3. IsUpdater(e) /\ e.step = "last"
      BY <3>2, UpdaterRecord
    <3> HIDE DEF e
    <3>4. /\ DOMAIN updaters' = DOMAIN updaters
          /\ \A v \in DOMAIN updaters : updaters'[v] = IF v = now THEN e ELSE updaters[v]
      BY <3>1, <3>2
    <3>5. UnderWay' = UnderWay \cup {now} /\ now \notin UnderWay /\ Over' = Over
      BY <3>2, <3>3, <3>4 DEF UnderWay, Over
    <3>6. stack = [list |-> stack.list, stop |-> stack.stop, wait |-> stack.wait]
      BY DEF UpdaterInv, IsStack
    <3>7. stack' = [list |-> stack.list, stop |-> stack.stop, wait |-> stack.wait + 1]
      BY <3>1, <3>6
    <3>8. IsStack(stack') /\ stack'.list = stack.list /\ stack'.wait = stack.wait + 1
      BY <3>7 DEF IsStack
    <3>9. Cardinality(UnderWay \cup {now}) = Cardinality(UnderWay) + 1
      BY <3>5, UpdatersFinite, FS_AddElement
    <3>10. stack'.wait = Cardinality(UnderWay')
      BY <3>5, <3>8, <3>9 DEF UpdaterInv
    <3>11. \A v \in DOMAIN updaters' : IsUpdater(updaters'[v])
      BY <3>2, <3>3, <3>4 DEF UpdaterInv
    <3>12. ASSUME NEW v \in DOMAIN updaters', v > now
           PROVE  updaters'[v].step = "no"
      <4>1. v # now /\ v \in DOMAIN updaters /\ updaters[v].step = "no"
        BY <3>4, <3>12 DEF UpdaterInv
      <4>2. QED BY <3>4, <4>1
    <3>13. ASSUME NEW i \in DOMAIN throughputChan
           PROVE  updaters'[throughputChan[i]].step = "answer"
      <4>1. throughputChan[i] \in DOMAIN updaters /\ updaters[throughputChan[i]].step = "answer"
        BY DEF UpdaterInv
      <4>2. throughputChan[i] # now
        BY <3>2, <4>1
      <4>3. QED BY <3>4, <4>1, <4>2
    <3>14. QED BY <3>1, <3>4, <3>5, <3>8, <3>10, <3>11, <3>12, <3>13 DEF UpdaterInv
  <2>3. CASE ServeThroughputs
    <3> DEFINE u == Head(throughputChan)
               e == [updaters[u] EXCEPT !.step = "append"]
    <3>1. /\ throughputChan # <<>> /\ throughputChan' = Tail(throughputChan)
          /\ updaters' = [updaters EXCEPT ![u] = e] /\ UNCHANGED <<start, now, ticker, stack>>
      BY <2>3 DEF ServeThroughputs
    <3>2. u \in DOMAIN updaters /\ updaters[u].step = "answer" /\ IsUpdater(updaters[u])
      BY <3>1 DEF UpdaterInv
    <3>3. IsUpdater(e) /\ e.step = "append"
      BY <3>2, UpdaterRecord
    <3>4. u \in UnderWay
      BY <3>2 DEF UnderWay
    <3> HIDE DEF e
    <3>5. QED BY <3>1, <3>3, <3>4, UpdaterGoesOn
  <2>4. CASE Consensus \/ Pool \/ SumLoop \/ Update \/ StartSave \/ Save("ticker")
    <3>1. UNCHANGED <<start, now, updaters, throughputChan, stack>>
      BY <2>4 DEF Consensus, BeginBlock, AppendBlock, CountBlock, CountTx, AskPool, PoolAnswers,
                  RemoveTx, Pool, ReceiveTx, CountReceived, SumLoop, Update, StartSave, Save,
                  tickVars, stackVars
    <3>2. ticker' \in {"report", "update", "spawn"} => ticker \in {"report", "update", "spawn"}
      BY <2>4 DEF Consensus, BeginBlock, AppendBlock, CountBlock, CountTx, AskPool, PoolAnswers,
                  RemoveTx, Pool, ReceiveTx, CountReceived, SumLoop, Update, StartSave, Save,
                  tickVars
    <3>3. QED BY <3>1, <3>2, UpdaterStays
  <2>5. QED BY <1>1, <2>1, <2>2, <2>3, <2>4, UpdaterStep DEF MetricsStep, Measuring, TickerLoop
<1>2. CASE MainStep
  <2>1. /\ UNCHANGED <<start, now, updaters, throughputChan>>
        /\ stack' \in {stack, [stack EXCEPT !.stop = TRUE]} /\ ticker' \in {ticker, "killed"}
    BY <1>2 DEF MainStep, Interrupt, Main, WaitSaver, CloseMetrics, StopStack, WaitUpdates, Save,
                KillTicker, KillSum, KillConsensus, metricVars, tickVars, stackVars
  <2>2. QED BY <2>1, UpdaterStays
<1>3. CASE Order
  <2>1. /\ UNCHANGED <<start, now, updaters, throughputChan, stack>>
        /\ (ticker' = ticker \/ (ticker = "report" /\ ticker' = "update"))
    BY <1>3 DEF Order, CheckControl, MakeOrder, AddOrder, OrderAdded, Flush, HandPeriod, tickVars,
                stackVars
  <2>2. QED BY <2>1, UpdaterStays
<1>4. CASE SaverStep \/ UNCHANGED vars
  <2>1. UNCHANGED <<now, updaters, throughputChan, stack, ticker>>
    BY <1>4 DEF SaverStep, vars, metricVars, tickVars, stackVars
  <2>2. UNCHANGED start
    BY <1>4 DEF SaverStep, RegularSave, SaverLoop, TakeAsk, CreateFile, CreateFails, WriteFile,
                WriteFails, vars
  <2>3. QED BY <2>1, <2>2, UpdaterStays
<1>5. QED BY <1>1, <1>2, <1>3, <1>4 DEF Next

LEMMA SpawnedFinite ==
  ASSUME UpdaterInv
  PROVE  /\ UnderWay \cap Over = {} /\ IsFiniteSet(UnderWay \cup Over)
         /\ Spawned = Cardinality(UnderWay \cup Over) /\ Spawned \in Nat
<1>1. UnderWay \cap Over = {}
  BY DEF UnderWay, Over
<1>2. IsFiniteSet(UnderWay \cup Over)
  BY UpdatersFinite, FS_Union
<1>3. {u \in DOMAIN updaters : updaters[u].step # "no"} = UnderWay \cup Over
  BY DEF UnderWay, Over
<1>4. QED BY <1>1, <1>2, <1>3, FS_CardinalityType DEF Spawned

\* What is done stays done, and what was started is not forgotten.
LEMMA UpdatersAdvance ==
  ASSUME UpdaterInv, [Next]_vars
  PROVE  \/ UNCHANGED updaters
         \/ \E u \in DOMAIN updaters : \E e :
              /\ updaters' = [updaters EXCEPT ![u] = e]
              /\ updaters[u].step # "done" /\ e.step # "no"
<1> DEFINE Advance == \/ UNCHANGED updaters
                      \/ \E u \in DOMAIN updaters : \E e :
                           /\ updaters' = [updaters EXCEPT ![u] = e]
                           /\ updaters[u].step # "done" /\ e.step # "no"
<1>1. CASE Spawn
  <2>1. now \in DOMAIN updaters /\ updaters[now].step = "no" /\ IsUpdater(updaters[now])
    BY <1>1 DEF Spawn, UpdaterInv
  <2>2. updaters' = [updaters EXCEPT ![now] = [updaters[now] EXCEPT !.step = "last"]]
    BY <1>1 DEF Spawn
  <2>3. [updaters[now] EXCEPT !.step = "last"].step = "last"
    BY <2>1, UpdaterRecord
  <2>4. Advance
    BY <2>1, <2>2, <2>3
  <2>5. QED BY <2>4
<1>2. CASE ServeThroughputs
  <2> DEFINE u == Head(throughputChan)
  <2>1. u \in DOMAIN updaters /\ updaters[u].step = "answer" /\ IsUpdater(updaters[u])
    BY <1>2 DEF ServeThroughputs, UpdaterInv
  <2>2. updaters' = [updaters EXCEPT ![u] = [updaters[u] EXCEPT !.step = "append"]]
    BY <1>2 DEF ServeThroughputs
  <2>3. [updaters[u] EXCEPT !.step = "append"].step = "append"
    BY <2>1, UpdaterRecord
  <2>4. Advance
    BY <2>1, <2>2, <2>3
  <2>5. QED BY <2>4
<1>3. ASSUME NEW u \in DOMAIN updaters, Updater(u)
      PROVE  Advance
  <2>1. IsUpdater(updaters[u])
    BY DEF UpdaterInv
  <2>2. CASE ReadBlock(u)
    BY <2>2 DEF ReadBlock
  <2>3. CASE AskThroughputs(u)
    <3>1. [updaters[u] EXCEPT !.step = "answer"].step = "answer"
      BY <2>1, UpdaterRecord
    <3>2. \/ UNCHANGED updaters
          \/ /\ updaters[u].step = "ask"
             /\ updaters' = [updaters EXCEPT ![u] = [updaters[u] EXCEPT !.step = "answer"]]
      BY <2>3 DEF AskThroughputs
    <3>3. QED BY <3>1, <3>2
  <2>4. CASE Keep(u)
    <3>1. [updaters[u] EXCEPT !.step = "done"].step = "done"
      BY <2>1, UpdaterRecord
    <3>2. /\ updaters[u].step = "append"
          /\ updaters' = [updaters EXCEPT ![u] = [updaters[u] EXCEPT !.step = "done"]]
      BY <2>4 DEF Keep
    <3>3. QED BY <3>1, <3>2
  <2>5. QED BY <1>3, <2>2, <2>3, <2>4 DEF Updater
<1>4. CASE Consensus \/ Pool \/ SumLoop \/ Tick \/ Update \/ StartSave \/ Save("ticker")
  BY <1>4 DEF Consensus, BeginBlock, AppendBlock, CountBlock, CountTx, AskPool, PoolAnswers,
              RemoveTx, Pool, ReceiveTx, CountReceived, SumLoop, Tick, Update, StartSave, Save,
              stackVars
<1>5. CASE MainStep \/ Order \/ SaverStep \/ UNCHANGED vars
  BY <1>5 DEF MainStep, Interrupt, Main, WaitSaver, CloseMetrics, StopStack, WaitUpdates, Save,
              KillTicker, KillSum, KillConsensus, Order, CheckControl, MakeOrder, AddOrder,
              OrderAdded, Flush, HandPeriod, SaverStep, vars, metricVars, stackVars
<1>6. QED BY <1>1, <1>2, <1>3, <1>4, <1>5 DEF Next, MetricsStep, Measuring, TickerLoop

LEMMA UpdatersGrow ==
  ASSUME UpdaterInv, UpdaterInv', [Next]_vars
  PROVE  Spawned' >= Spawned /\ Spawned' \in Nat /\ Len(stack'.list) >= Len(stack.list)
<1>1. UnderWay \cup Over \subseteq UnderWay' \cup Over' /\ Over \subseteq Over'
  BY UpdatersAdvance DEF UnderWay, Over
<1>2. IsFiniteSet(1..start'.maxTick)
  <2>1. start'.maxTick \in Int /\ 1 \in Int
    BY DEF UpdaterInv
  <2>2. QED BY <2>1, FS_Interval
<1>3. UnderWay' \cup Over' \subseteq 1..start'.maxTick /\ Over' \subseteq 1..start'.maxTick
  BY DEF UnderWay, Over, UpdaterInv
<1>4. IsFiniteSet(UnderWay' \cup Over') /\ IsFiniteSet(Over')
  BY <1>2, <1>3, FS_Subset
<1>5. Spawned = Cardinality(UnderWay \cup Over)
  BY SpawnedFinite
<1>6. Spawned' = Cardinality(UnderWay' \cup Over')
  <2>1. {u \in DOMAIN updaters' : updaters'[u].step # "no"} = UnderWay' \cup Over'
    BY DEF UnderWay, Over
  <2>2. QED BY <2>1 DEF Spawned
<1>7. Cardinality(UnderWay \cup Over) <= Cardinality(UnderWay' \cup Over')
        /\ Cardinality(Over) <= Cardinality(Over')
  BY <1>1, <1>4, FS_Subset
<1>8. Spawned' \in Nat
  BY <1>4, <1>6, FS_CardinalityType
<1>9. QED BY <1>5, <1>6, <1>7, <1>8 DEF UpdaterInv

LEMMA AllOver ==
  ASSUME UpdaterInv, stack.wait = 0
  PROVE  Spawned = Len(stack.list)
<1>1. UnderWay = {}
  BY UpdatersFinite, FS_EmptySet DEF UpdaterInv
<1>2. {u \in DOMAIN updaters : updaters[u].step # "no"} = Over
  BY <1>1 DEF UnderWay, Over
<1>3. QED BY <1>2 DEF Spawned, UpdaterInv

IsSave(r) == r = [step |-> r.step, size |-> r.size]
Closed == {"killTicker", "killSum", "killCons", "ended"}
Listed == Len(stack.list) >= spawnedAtStop
Enough(n) == n \in Nat /\ n >= spawnedAtStop

\* The records of the two saves, and Close's own, which exists while it saves.
KeptSaves ==
  /\ DOMAIN saves = {"ticker", "close"} /\ IsSave(saves["close"])
  /\ main \notin {"save", "panic"} => saves["close"] = NoSave
\* What was started before the stop is in the list when Close reads it.
KeptStarted == spawnedAtStop \in Nat /\ spawnedAtStop <= Spawned
KeptListed == main \in Closed \cup {"save"} => Listed
KeptSize == main = "save" /\ saves["close"].step = "write" => Enough(saves["close"].size)
\* Nobody else writes, unless the saves overlap.
KeptAlone == main \in Closed \cup {"save"} /\ ~overlapped => saves["ticker"] = NoSave
KeptFile ==
  /\ main = "save" /\ ~overlapped /\ saves["close"].step \in {"read", "write"} =>
       metricFile = Emptied
  /\ main \in Closed /\ ~overlapped =>
       metricFile.written = metricFile.length /\ Enough(metricFile.written)
KeptKilled == main \in Closed \ {"killTicker"} => ticker = "killed"

KeptInv ==
  start.metrics =>
    /\ KeptSaves /\ KeptStarted /\ KeptListed /\ KeptSize /\ KeptAlone /\ KeptFile
    /\ KeptKilled

LEMMA SaveRecord ==
  ASSUME NEW r, IsSave(r), NEW x
  PROVE  IsSave([r EXCEPT !.step = x]) /\ [r EXCEPT !.step = x].step = x
<1>1. r = [step |-> r.step, size |-> r.size]
  BY DEF IsSave
<1>2. [r EXCEPT !.step = x] = [step |-> x, size |-> r.size]
  BY <1>1
<1>3. QED BY <1>2 DEF IsSave

LEMMA KeptInit == Init => UpdaterInv /\ KeptInv
<1> SUFFICES ASSUME Init PROVE KeptInv
  BY UpdaterInit
<1>1. /\ main = "run" /\ spawnedAtStop = 0 /\ saves = [s \in {"ticker", "close"} |-> NoSave]
  BY DEF Init, MetricsInit
<1>2. IsSave(NoSave)
  BY DEF IsSave, NoSave
<1>3. Spawned \in Nat
  BY UpdaterInit, SpawnedFinite
<1>4. KeptSaves
  BY <1>1, <1>2 DEF KeptSaves
<1>5. KeptStarted
  BY <1>1, <1>3 DEF KeptStarted
<1>6. QED
  BY <1>1, <1>4, <1>5
  DEF KeptInv, KeptListed, KeptSize, KeptAlone, KeptFile, KeptKilled, Closed

keptVars == <<start, saves, spawnedAtStop, metricFile, overlapped>>

\* The list and the updaters only grow.
LEMMA KeptGrows ==
  ASSUME KeptStarted, UpdaterInv, UpdaterInv', [Next]_vars, UNCHANGED spawnedAtStop
  PROVE  KeptStarted' /\ (Listed => Listed')
<1>1. /\ Spawned \in Nat /\ Spawned' \in Nat /\ Spawned' >= Spawned
      /\ Len(stack'.list) >= Len(stack.list)
  BY SpawnedFinite, UpdatersGrow
<1>2. Len(stack.list) \in Nat /\ Len(stack'.list) \in Nat
  BY DEF UpdaterInv
<1>3. spawnedAtStop \in Nat /\ spawnedAtStop <= Spawned /\ spawnedAtStop' = spawnedAtStop
  BY DEF KeptStarted
<1>4. KeptStarted'
  BY <1>1, <1>3 DEF KeptStarted
<1>5. Listed => Listed'
  BY <1>1, <1>2, <1>3 DEF Listed
<1>6. QED BY <1>4, <1>5

LEMMA KeptStays ==
  ASSUME KeptInv, UpdaterInv, UpdaterInv', [Next]_vars, UNCHANGED keptVars,
         \/ main' \in {main, "panic"}
         \/ main \in {"run", "wait"} /\ main' \in {"wait", "stop"},
         ticker = "killed" => ticker' = "killed"
  PROVE  KeptInv'
<1> SUFFICES ASSUME start.metrics PROVE KeptInv'
  BY DEF KeptInv, keptVars
<1> USE DEF keptVars
<1>1. /\ KeptSaves /\ KeptStarted /\ KeptListed /\ KeptSize /\ KeptAlone /\ KeptFile
      /\ KeptKilled
  BY DEF KeptInv
<1>2. KeptStarted' /\ (Listed => Listed')
  BY <1>1, KeptGrows
<1>3. KeptListed'
  BY <1>1, <1>2 DEF KeptListed, Closed
<1>4. KeptSaves' /\ KeptAlone' /\ KeptKilled'
  BY <1>1 DEF KeptSaves, KeptAlone, KeptKilled, Closed
<1>5. KeptSize' /\ KeptFile'
  BY <1>1 DEF KeptSize, KeptFile, Closed, Enough, Emptied
<1>6. QED BY <1>2, <1>3, <1>4, <1>5 DEF KeptInv

\* A goroutine of the ticker, while Close saves or after it: they overlap.
LEMMA KeptTicker ==
  ASSUME KeptInv, UpdaterInv, UpdaterInv', [Next]_vars, StartSave \/ Save("ticker")
  PROVE  KeptInv'
<1> SUFFICES ASSUME start.metrics PROVE KeptInv'
  BY DEF KeptInv, StartSave, Save
<1>1. /\ KeptSaves /\ KeptStarted /\ KeptListed /\ KeptSize /\ KeptAlone /\ KeptFile
      /\ KeptKilled
  BY DEF KeptInv
<1>2. UNCHANGED <<ticker, spawnedAtStop>> /\ main' \in {main, "panic"}
  BY DEF StartSave, Save, tickVars
<1>3. DOMAIN saves' = DOMAIN saves /\ saves'["close"] = saves["close"]
  BY <1>1 DEF StartSave, Save, KeptSaves
<1>4. KeptStarted' /\ (Listed => Listed')
  BY <1>1, <1>2, KeptGrows
<1>5. KeptSaves' /\ KeptListed' /\ KeptKilled'
  BY <1>1, <1>2, <1>3, <1>4 DEF KeptSaves, KeptListed, KeptKilled, Closed
<1>6. KeptSize'
  BY <1>1, <1>2, <1>3 DEF KeptSize, Enough
<1>7. main' \in Closed \cup {"save"} /\ ~overlapped' =>
        ~overlapped /\ saves' = saves /\ metricFile' = metricFile
  <2>1. CASE StartSave
    BY <1>1, <2>1 DEF StartSave, KeptKilled, Closed
  <2>2. CASE Save("ticker")
    <3>1. saves["ticker"] # NoSave /\ UNCHANGED overlapped
      BY <2>2 DEF Save, NoSave
    <3>2. QED BY <1>1, <1>2, <3>1 DEF KeptAlone, Closed
  <2>3. QED BY <2>1, <2>2
<1>8. KeptAlone' /\ KeptFile'
  BY <1>1, <1>2, <1>7 DEF KeptAlone, KeptFile, Enough, Closed, Emptied
<1>9. QED BY <1>4, <1>5, <1>6, <1>8 DEF KeptInv

LEMMA KeptStop ==
  ASSUME start.metrics, KeptInv, UpdaterInv, UpdaterInv', [Next]_vars, StopStack \/ WaitUpdates
  PROVE  KeptInv'
<1>1. KeptSaves /\ KeptStarted
  BY DEF KeptInv
<1>2. UNCHANGED <<start, updaters>> /\ Spawned' = Spawned
  BY DEF StopStack, WaitUpdates, Spawned
<1>3. CASE StopStack
  <2>1. /\ main = "stop" /\ main' = "updates" /\ spawnedAtStop' = Spawned
        /\ UNCHANGED saves
    BY <1>3 DEF StopStack
  <2>2. KeptStarted'
    BY <2>1, <1>2, SpawnedFinite DEF KeptStarted
  <2>3. KeptSaves'
    BY <1>1, <2>1 DEF KeptSaves
  <2>4. QED
    BY <2>1, <2>2, <2>3
    DEF KeptInv, KeptListed, KeptSize, KeptAlone, KeptFile, KeptKilled, Closed
<1>4. CASE WaitUpdates
  <2>1. /\ main' = "save" /\ stack.wait = 0
        /\ saves' = [saves EXCEPT !["close"] = [saves["close"] EXCEPT !.step = "create"]]
        /\ overlapped' = (saves["ticker"] # NoSave)
        /\ UNCHANGED <<stack, spawnedAtStop>>
    BY <1>4 DEF WaitUpdates, Updated
  <2>2. /\ DOMAIN saves' = DOMAIN saves /\ saves'["ticker"] = saves["ticker"]
        /\ IsSave(saves'["close"]) /\ saves'["close"].step = "create"
    BY <1>1, <2>1, SaveRecord DEF KeptSaves
  <2>3. KeptSaves' /\ KeptSize' /\ KeptAlone' /\ KeptFile' /\ KeptKilled'
    BY <1>1, <2>1, <2>2 DEF KeptSaves, KeptSize, KeptAlone, KeptFile, KeptKilled, Closed
  <2>4. Len(stack.list) = Spawned
    BY <2>1, AllOver
  <2>5. Listed'
    BY <1>1, <2>1, <2>4, SpawnedFinite DEF Listed, KeptStarted
  <2>6. KeptListed' /\ KeptStarted'
    BY <1>1, <1>2, <2>1, <2>5 DEF KeptListed, KeptStarted
  <2>7. QED BY <2>3, <2>6 DEF KeptInv
<1>5. QED BY <1>3, <1>4

LEMMA KeptSave ==
  ASSUME start.metrics, Running, KeptInv, UpdaterInv, UpdaterInv', [Next]_vars, Save("close")
  PROVE  KeptInv'
<1>1. /\ KeptSaves /\ KeptStarted /\ KeptListed /\ KeptSize /\ KeptAlone /\ KeptFile
      /\ KeptKilled
  BY DEF KeptInv
<1>2. UNCHANGED <<start, ticker, spawnedAtStop, overlapped, stack>>
  BY DEF Save, tickVars
<1>3. KeptStarted' /\ (Listed => Listed')
  BY <1>1, <1>2, KeptGrows
<1>4. saves["close"] # NoSave
  BY DEF Save, NoSave
<1>5. main = "save"
  BY <1>1, <1>4 DEF KeptSaves, Running
<1>6. DOMAIN saves' = DOMAIN saves /\ saves'["ticker"] = saves["ticker"] /\ IsSave(saves'["close"])
  <2>1. PICK x : /\ saves' \in {saves, [saves EXCEPT !["close"] = x]}
                 /\ x \in {[saves["close"] EXCEPT !.step = "read"],
                           [step |-> "write", size |-> Len(stack.list)], NoSave}
    BY DEF Save
  <2>2. IsSave(saves["close"]) /\ "close" \in DOMAIN saves
    BY <1>1 DEF KeptSaves
  <2>3. IsSave([saves["close"] EXCEPT !.step = "read"])
    BY <2>2, SaveRecord
  <2>4. IsSave([step |-> "write", size |-> Len(stack.list)]) /\ IsSave(NoSave)
    BY DEF IsSave, NoSave
  <2>5. IsSave(x)
    BY <2>1, <2>3, <2>4
  <2>6. CASE saves' = saves
    BY <2>2, <2>6
  <2>7. CASE saves' = [saves EXCEPT !["close"] = x]
    <3>1. saves'["close"] = x /\ saves'["ticker"] = saves["ticker"] /\ DOMAIN saves' = DOMAIN saves
      BY <2>2, <2>7
    <3>2. QED BY <2>5, <3>1
  <2>8. QED BY <2>1, <2>6, <2>7
<1>7. CASE saves["close"].step = "create"
  <2>1. /\ metricFile' = Emptied /\ main' = main
        /\ saves' = [saves EXCEPT !["close"] = [saves["close"] EXCEPT !.step = "read"]]
    BY <1>7 DEF Save
  <2>2. saves'["close"].step = "read"
    BY <1>1, <2>1, SaveRecord DEF KeptSaves
  <2>3. KeptSaves' /\ KeptListed' /\ KeptAlone' /\ KeptKilled'
    BY <1>1, <1>2, <1>3, <1>5, <1>6, <2>1
    DEF KeptSaves, KeptListed, KeptAlone, KeptKilled, Closed
  <2>4. KeptSize' /\ KeptFile'
    BY <1>5, <2>1, <2>2 DEF KeptSize, KeptFile, Closed, Emptied
  <2>5. QED BY <1>3, <2>3, <2>4 DEF KeptInv
<1>8. CASE saves["close"].step = "read"
  <2>1. /\ UNCHANGED metricFile
        /\ \/ main' = "panic"
           \/ /\ main' = main
              /\ saves' = [saves EXCEPT !["close"] = [step |-> "write", size |-> Len(stack.list)]]
    BY <1>8 DEF Save
  <2>2. CASE main' = "panic"
    BY <1>1, <1>3, <1>6, <2>2
    DEF KeptInv, KeptSaves, KeptListed, KeptSize, KeptAlone, KeptFile, KeptKilled, Closed
  <2>3. CASE main' = main /\ main' # "panic"
    <3>1. saves' = [saves EXCEPT !["close"] = [step |-> "write", size |-> Len(stack.list)]]
      BY <2>1, <2>3
    <3>2. saves'["close"].step = "write" /\ saves'["close"].size = Len(stack.list)
      BY <1>1, <3>1 DEF KeptSaves
    <3>3. KeptSaves' /\ KeptListed' /\ KeptAlone' /\ KeptKilled'
      BY <1>1, <1>2, <1>3, <1>5, <1>6, <2>3
      DEF KeptSaves, KeptListed, KeptAlone, KeptKilled, Closed
    <3>4. Listed
      BY <1>1, <1>5 DEF KeptListed
    <3>5. KeptSize'
      BY <1>2, <3>2, <3>4 DEF KeptSize, Enough, Listed, UpdaterInv
    <3>6. KeptFile'
      BY <1>1, <1>2, <1>5, <1>8, <2>1, <2>3 DEF KeptFile, Closed, Emptied
    <3>7. QED BY <1>3, <3>3, <3>5, <3>6 DEF KeptInv
  <2>4. QED BY <2>1, <2>2, <2>3, <1>5
<1>9. CASE saves["close"].step = "write"
  <2>1. /\ saves' = [saves EXCEPT !["close"] = NoSave] /\ main' = "killTicker"
        /\ metricFile' = [written |-> saves["close"].size,
                          length |-> IF metricFile.length > saves["close"].size
                                     THEN metricFile.length ELSE saves["close"].size]
    BY <1>9 DEF Save
  <2>2. saves'["close"] = NoSave
    BY <1>1, <2>1 DEF KeptSaves
  <2>3. KeptSaves' /\ KeptListed' /\ KeptAlone' /\ KeptKilled'
    BY <1>1, <1>2, <1>3, <1>5, <1>6, <2>1, <2>2
    DEF KeptSaves, KeptListed, KeptAlone, KeptKilled, Closed
  <2>4. KeptSize' /\ KeptFile'
    <3>1. Enough(saves["close"].size) /\ saves["close"].size \in Nat
      BY <1>1, <1>5, <1>9 DEF KeptSize, Enough
    <3>2. metricFile'.written = saves["close"].size
      BY <2>1
    <3>3. ~overlapped => metricFile.length = 0
      BY <1>1, <1>5, <1>9 DEF KeptFile, Emptied
    <3>4. ~overlapped => metricFile'.length = saves["close"].size
      BY <2>1, <3>1, <3>3
    <3>5. Enough(metricFile.written)'
      BY <1>2, <3>1, <3>2 DEF Enough
    <3>6. QED BY <1>2, <2>1, <3>2, <3>4, <3>5 DEF KeptSize, KeptFile
  <2>5. QED BY <1>3, <2>3, <2>4 DEF KeptInv
<1>10. QED BY <1>7, <1>8, <1>9 DEF Save

\* The kills that follow the save of Close.
LEMMA KeptKill ==
  ASSUME KeptInv, UpdaterInv, UpdaterInv', [Next]_vars, UNCHANGED keptVars,
         main \in Closed, main' \in Closed, start.metrics => ticker' = "killed"
  PROVE  KeptInv'
<1> SUFFICES ASSUME start.metrics PROVE KeptInv'
  BY DEF KeptInv, keptVars
<1>1. KeptSaves /\ KeptStarted /\ KeptListed /\ KeptAlone /\ KeptFile
  BY DEF KeptInv
<1>2. UNCHANGED <<saves, spawnedAtStop, metricFile, overlapped>>
  BY DEF keptVars
<1>3. KeptStarted' /\ (Listed => Listed')
  BY <1>1, <1>2, KeptGrows
<1>4. main # "save" /\ main \notin {"save", "panic"} /\ main' \notin {"save", "panic"}
  BY DEF Closed
<1>5. KeptSaves' /\ KeptListed' /\ KeptAlone' /\ KeptKilled'
  BY <1>1, <1>2, <1>3, <1>4 DEF KeptSaves, KeptListed, KeptAlone, KeptKilled
<1>6. KeptSize' /\ KeptFile'
  BY <1>1, <1>2, <1>4 DEF KeptSize, KeptFile, Enough
<1>7. QED BY <1>3, <1>5, <1>6 DEF KeptInv

LEMMA KeptClose ==
  ASSUME Running, KeptInv, UpdaterInv, UpdaterInv', [Next]_vars, CloseMetrics
  PROVE  KeptInv'
<1> SUFFICES ASSUME start.metrics PROVE KeptInv'
  BY DEF KeptInv, CloseMetrics, StopStack, WaitUpdates, Save, KillTicker, KillSum
<1>1. CASE StopStack \/ WaitUpdates
  BY <1>1, KeptStop
<1>2. CASE Save("close")
  BY <1>2, KeptSave
<1>3. CASE KillTicker \/ KillSum
  <2>1. /\ KeptSaves /\ KeptStarted /\ KeptListed /\ KeptAlone /\ KeptFile /\ KeptKilled
    BY DEF KeptInv
  <2>2. /\ UNCHANGED keptVars /\ main \in Closed /\ main' \in Closed /\ ticker' = "killed"
    BY <1>3, <2>1 DEF KillTicker, KillSum, keptVars, stackVars, tickVars, KeptKilled, Closed
  <2>3. QED BY <2>1, <2>2, KeptKill
<1>4. QED BY <1>1, <1>2, <1>3 DEF CloseMetrics

LEMMA KeptNext == ASSUME KeptInv, UpdaterInv, UpdaterInv', [Next]_vars PROVE KeptInv'
<1>1. CASE Running /\ MetricsStep
  <2>1. CASE StartSave \/ Save("ticker")
    BY <2>1, KeptTicker
  <2>2. CASE Consensus \/ Pool \/ SumLoop \/ TickerLoop
    <3>1. UNCHANGED keptVars /\ main' = main /\ (ticker = "killed" => ticker' = "killed")
      BY <2>2 DEF Consensus, BeginBlock, AppendBlock, CountBlock, CountTx, AskPool, PoolAnswers,
                  RemoveTx, Pool, ReceiveTx, CountReceived, SumLoop, TickerLoop, Tick, Update,
                  Spawn, ServeThroughputs, stackVars, tickVars, keptVars
    <3>2. QED BY <3>1, KeptStays
  <2>3. ASSUME NEW u \in DOMAIN updaters, Updater(u)
        PROVE  KeptInv'
    <3>1. UNCHANGED keptVars /\ main' \in {main, "panic"} /\ ticker' = ticker
      BY <2>3 DEF Updater, ReadBlock, AskThroughputs, Keep, tickVars, keptVars
    <3>2. QED BY <3>1, KeptStays
  <2>4. QED BY <1>1, <2>1, <2>2, <2>3 DEF MetricsStep, Measuring
<1>2. CASE Running /\ MainStep
  <2>1. CASE CloseMetrics
    BY <1>2, <2>1, KeptClose
  <2>2. CASE Interrupt \/ WaitSaver
    <3>1. UNCHANGED keptVars /\ ticker' = ticker
          /\ main \in {"run", "wait"} /\ main' \in {"wait", "stop"}
      BY <2>2 DEF Interrupt, WaitSaver, metricVars, stackVars, tickVars, keptVars
    <3>2. QED BY <3>1, KeptStays
  <2>3. CASE KillConsensus
    <3>1. /\ UNCHANGED keptVars /\ ticker' = ticker
          /\ main = "killCons" /\ main' = "ended"
      BY <2>3 DEF KillConsensus, stackVars, tickVars, keptVars
    <3>2. start.metrics => ticker' = "killed"
      BY <3>1 DEF KeptInv, KeptKilled, Closed
    <3>3. main \in Closed /\ main' \in Closed
      BY <3>1 DEF Closed
    <3>4. QED BY <3>1, <3>2, <3>3, KeptKill
  <2>4. QED BY <1>2, <2>1, <2>2, <2>3 DEF MainStep, Main
<1>3. CASE Running /\ (Order \/ SaverStep)
  <2>1. UNCHANGED <<saves, spawnedAtStop, metricFile, overlapped>>
        /\ main' \in {main, "panic"} /\ (ticker = "killed" => ticker' = "killed")
    BY <1>3 DEF Order, CheckControl, MakeOrder, AddOrder, OrderAdded, Flush, HandPeriod,
                SaverStep, RegularSave, SaverLoop, TakeAsk, CreateFile, CreateFails, WriteFile,
                WriteFails, metricVars, stackVars, tickVars
  <2>2. UNCHANGED start
    BY <1>3 DEF Order, CheckControl, MakeOrder, AddOrder, OrderAdded, Flush, HandPeriod,
                SaverStep, RegularSave, SaverLoop, TakeAsk, CreateFile, CreateFails, WriteFile,
                WriteFails
  <2>3. QED BY <2>1, <2>2, KeptStays DEF keptVars
<1>4. CASE UNCHANGED vars
  <2>1. UNCHANGED keptVars /\ main' = main /\ ticker' = ticker
    BY <1>4 DEF vars, metricVars, stackVars, tickVars, keptVars
  <2>2. QED BY <2>1, KeptStays
<1>5. QED BY <1>1, <1>2, <1>3, <1>4 DEF Next

\* The file of a node that has ended holds what every updater started before the
\* stop has measured.
THEOREM NodeMetricsKept == Spec => []MetricsKept
<1>1. KeptInv => MetricsKept
  BY DEF KeptInv, MetricsKept, KeptFile, Enough, Closed
<1>2. UpdaterInv /\ KeptInv /\ [Next]_vars => (UpdaterInv /\ KeptInv)'
  BY UpdaterNext, KeptNext
<1>3. QED BY <1>1, <1>2, KeptInit, PTL DEF Spec

-----------------------------------------------------------------------------
(***************************************************************************)
(* PanicsBeyond and ModelSound.  The model stays what was imported of the  *)
(* table; the sums of the buffer are natural numbers, so there is a size   *)
(* to ask for, and a list of that size as long as there are the nodes.     *)
(***************************************************************************)
Figures == [{"committed", "received", "blocks"} -> Nat]
IsPeriod(d) == \A c \in {"committed", "received", "blocks"} : d[c] \in Nat

Beyond ==
  \/ /\ start.model.kind = "3D"
     /\ \A l \in DOMAIN start.model.table : start.model.table[l].nbValid < Cardinality(active)
  \/ start.selector # "Pivot" /\ NewSize > Cardinality(Node)

ModelInv == start \in Starts /\ modelVal = Imported(start.model)
FiguresInv ==
  /\ sums \in Figures /\ period \in Figures
  /\ IsFiniteSet(DOMAIN tor.data) /\ \A i \in DOMAIN tor.data : IsPeriod(tor.data[i])
ListsInv ==
  /\ active \subseteq Node /\ active # {}
  /\ \A o \in orders : o.list \in Seq(Int)
  /\ control.step = "adding" => control.list \in Seq(Int)
  /\ cons = "asked" => start.control # "none"
PanicInv == control.step = "panic" => main = "panic" /\ Beyond

LEMMA ModelTable ==
  ASSUME ModelInv
  PROVE  /\ start.model.kind \in {"Nul", "2D", "3D"}
         /\ start.control \in {"none", "OneValidator", "Hysteresis", "ModelComparison"}
         /\ start.selector \in {"Pivot", "Random", "Centric"}
         /\ start.model.kind = "2D" => /\ start.model.table \in Seq(Sample)
                                       /\ modelVal = Import2D(start.model.table)
         /\ start.model.kind = "3D" => /\ start.model.table \in Seq(Sample3D)
                                       /\ modelVal = Import3D(start.model.table)
<1>1. /\ start.model.kind \in {"Nul", "2D", "3D"}
      /\ start.control \in {"none", "OneValidator", "Hysteresis", "ModelComparison"}
      /\ start.selector \in {"Pivot", "Random", "Centric"}
      /\ start.model.kind = "2D" => start.model.table \in Seq(Sample)
      /\ start.model.kind = "3D" => start.model.table \in Seq(Sample3D)
  BY StartAssumption DEF ModelInv, StartAssumption, Sample, Sample3D
<1>2. start.model.kind = "2D" => modelVal = Import2D(start.model.table)
  BY DEF ModelInv, Imported
<1>3. start.model.kind = "3D" => modelVal = Import3D(start.model.table)
  BY DEF ModelInv, Imported
<1>4. QED BY <1>1, <1>2, <1>3

\* A table without a line has no number of validators.
LEMMA EmptyModel ==
  ASSUME NEW table, table = <<>>, NEW v \in Nat
  PROVE  /\ DOMAIN Import3D(table).listVal = {} /\ Len(Import3D(table).listVal) = 0
         /\ NbValIndex(Import3D(table), v) > Len(Import3D(table).listVal)
<1> DEFINE list == Import3D(table).listVal
<1>1. list = SortedList({table[l].nbValid : l \in DOMAIN table})
  BY DEF Import3D
<1>2. {table[l].nbValid : l \in DOMAIN table} = {}
  OBVIOUS
<1>3. IsSorted(SortedList({}), {}) /\ Cardinality({}) = 0
  BY SortedListIs, FS_EmptySet
<1> HIDE DEF list
<1>4. list \in [1..0 -> {}]
  BY <1>1, <1>2, <1>3 DEF IsSorted
<1>5. Len(list) = 0 /\ DOMAIN list = {}
  BY <1>4, FunctionIsSeq
<1>6. NbValIndex(Import3D(table), v) = 1
  BY <1>5 DEF NbValIndex, list
<1>7. QED BY <1>5, <1>6 DEF list

LEMMA SumsAreNat ==
  ASSUME FiguresInv
  PROVE  committedThroughput \in Nat /\ emittedThroughput \in Nat /\ blockThroughput \in Nat
<1>1. ASSUME NEW c \in {"committed", "received", "blocks"} PROVE SumOf(c) \in Nat
  <2> DEFINE f == [i \in DOMAIN tor.data |-> tor.data[i][c]]
  <2>1. DOMAIN f = DOMAIN tor.data /\ \A i \in DOMAIN f : f[i] \in Nat
    BY DEF FiguresInv, IsPeriod
  <2>2. SumOf(c) = SumFunction(f)
    BY DEF SumOf
  <2> HIDE DEF f
  <2>3. IsFiniteSet(DOMAIN f)
    BY <2>1 DEF FiguresInv
  <2>4. QED BY <2>1, <2>2, <2>3, SumFunctionIsNat
<1>2. QED BY <1>1 DEF committedThroughput, emittedThroughput, blockThroughput

LEMMA ActiveIsNat ==
  ASSUME ListsInv
  PROVE  IsFiniteSet(active) /\ Cardinality(active) \in Nat /\ active \subseteq Nat
<1>1. IsFiniteSet(active)
  BY ValidatorsAssumption, FS_Subset DEF ListsInv, ValidatorsAssumption
<1>2. QED BY <1>1, FS_CardinalityType, ValidatorsAssumption DEF ListsInv, ValidatorsAssumption

\* There is a size to ask for, unless the model is indexed past its end.
LEMMA NewSizeType ==
  ASSUME ModelInv, FiguresInv, ListsInv, start.control # "none", ~ModelPanics
  PROVE  NewSize \in Int
<1>1. Cardinality(active) \in Nat
  BY ActiveIsNat
<1>2. CASE start.control = "OneValidator"
  <2>1. NewSize = Cardinality(active) + OneValidator
    BY <1>2 DEF NewSize
  <2>2. OneValidator \in {1, -1}
    BY DEF OneValidator
  <2>3. QED BY <1>1, <2>1, <2>2
<1>3. CASE start.control = "Hysteresis"
  <2>1. NewSize = Cardinality(active) + Hysteresis
    BY <1>3 DEF NewSize
  <2>2. Hysteresis \in {1, -1, 0}
    BY DEF Hysteresis
  <2>3. QED BY <1>1, <2>1, <2>2
<1>4. CASE start.control = "ModelComparison"
  <2> DEFINE table == start.model.table
  <2>1. NewSize = IdealNbVal
    BY <1>4 DEF NewSize
  <2>2. emittedThroughput \in Nat /\ blockThroughput * BlockSize \in Nat
    BY SumsAreNat, ControlAssumption DEF ControlAssumption
  <2>3. CASE start.model.kind = "Nul"
    BY <2>1, <2>3 DEF IdealNbVal
  <2>4. CASE start.model.kind = "2D"
    <3>1. IdealNbVal = Ideal2D(modelVal, emittedThroughput)
      BY <2>4 DEF IdealNbVal
    <3>2. IdealNbVal \in Nat
      BY <2>2, <2>4, <3>1, Ideal2DIs, ModelTable
    <3>3. QED BY <2>1, <3>2
  <2>5. CASE start.model.kind = "3D"
    <3> DEFINE r == emittedThroughput
               c == blockThroughput * BlockSize
               v == Cardinality(active)
    <3>1. IdealNbVal = Ideal3D(modelVal, r, c, v)
      BY <2>5 DEF IdealNbVal
    <3>2. ~(NbValIndex(modelVal, v) > Len(modelVal.listVal))
      BY <1>4, <2>5 DEF ModelPanics
    <3> HIDE DEF r, c, v
    <3>3. r \in Nat /\ c \in Nat /\ v \in Nat
      BY <1>1, <2>2 DEF r, c, v
    <3>4. table \in Seq(Sample3D) /\ modelVal = Import3D(table)
      BY <2>5, ModelTable
    <3> HIDE DEF table
    <3>5. table # <<>>
      BY <3>2, <3>3, <3>4, EmptyModel
    <3>6. Filled(modelVal, table)
      BY <3>4, <3>5, Import3DIs
    <3>7. IdealNbVal \in SizesOf(table)
      BY <3>1, <3>2, <3>3, <3>4, <3>6, Ideal3DIs
    <3>8. SizesOf(table) \subseteq Nat
      <4>1. \A l \in DOMAIN table : table[l] \in Sample3D
        BY <3>4, LenProperties
      <4>2. QED BY <4>1 DEF SizesOf, Sample3D
    <3>9. QED BY <2>1, <3>7, <3>8
  <2>6. QED BY <2>3, <2>4, <2>5, ModelTable
<1>5. QED BY <1>2, <1>3, <1>4, ModelTable

\* What is proposed is a list of numbers, whatever size is asked for.
LEMMA ProposedAreLists ==
  ASSUME ModelInv, FiguresInv, ListsInv, start.control # "none", NEW list \in Proposed
  PROVE  list \in Seq(Int)
<1>1. ~ModelPanics /\ list \in Proposals(NewSize)
  BY DEF Proposed
<1>2. NewSize \in Int
  BY <1>1, NewSizeType
<1> DEFINE size == NewSize
<1> HIDE DEF size
<1>3. ASSUME NEW f \in [1..size -> Int] PROVE f \in Seq(Int)
  <2>1. CASE size \in Nat
    BY <2>1, FunctionIsSeq
  <2>2. CASE size \notin Nat
    <3>1. 1..size = 1..0
      BY <1>2, <2>2 DEF size
    <3>2. f \in [1..0 -> Int]
      BY <3>1
    <3>3. QED BY <3>2, FunctionIsSeq
  <2>3. QED BY <2>1, <2>2
<1>4. list \in Proposals(size)
  BY <1>1 DEF size
<1>5. Node \subseteq Int
  BY ValidatorsAssumption DEF ValidatorsAssumption
<1>6. CASE start.selector = "Pivot"
  <2>1. list = [i \in 1..size |-> IF i <= Cardinality(Node) THEN NodeList[i] ELSE NilKey]
    BY <1>4, <1>6 DEF Proposals, PivotLists
  <2>2. \A i \in 1..Cardinality(Node) : NodeList[i] \in Node
    <3>1. IsSorted(NodeList, Node)
      BY ValidatorsAssumption, SortedListIs DEF ValidatorsAssumption, NodeList
    <3>2. QED BY <3>1 DEF IsSorted
  <2>3. Cardinality(Node) \in Nat
    BY ValidatorsAssumption, FS_CardinalityType DEF ValidatorsAssumption
  <2>4. ASSUME NEW i \in 1..size PROVE list[i] \in Int
    <3>1. i \in Int /\ 1 <= i
      BY <1>2 DEF size
    <3>2. CASE i <= Cardinality(Node)
      <4>1. i \in 1..Cardinality(Node)
        BY <2>3, <3>1, <3>2
      <4>2. QED BY <1>5, <2>1, <2>2, <3>2, <4>1
    <3>3. CASE ~(i <= Cardinality(Node))
      BY <2>1, <3>3 DEF NilKey
    <3>4. QED BY <3>2, <3>3
  <2>5. list \in [1..size -> Int]
    BY <2>1, <2>4
  <2>6. QED BY <1>3, <2>5
<1>7. CASE start.selector \in {"Random", "Centric"}
  <2>1. list \in RandomLists(size)
    BY <1>4, <1>7 DEF Proposals, CentricLists
  <2>2. list \in [1..size -> Int]
    BY <1>5, <2>1 DEF RandomLists
  <2>3. QED BY <1>3, <2>2
<1>8. QED BY <1>6, <1>7, ModelTable

\* One of the active validators is the centre.
LEMMA CenterIsActive == ASSUME ListsInv PROVE Center \in active
<1> DEFINE d == [n \in active |-> DistanceToActive(n)]
           nearest == {n \in active : \A m \in active : DistanceToActive(n) <= DistanceToActive(m)}
<1>1. active \subseteq Nat /\ active \subseteq Node /\ active # {} /\ IsFiniteSet(active)
  BY ActiveIsNat DEF ListsInv
<1>2. ASSUME NEW n \in active PROVE d[n] \in Nat
  <2> DEFINE f == [m \in active |-> matAdj[n][m]]
  <2>1. DOMAIN f = active /\ \A m \in active : f[m] \in Nat
    BY <1>1, ControlAssumption DEF ControlAssumption
  <2>2. DistanceToActive(n) = SumFunction(f)
    BY DEF DistanceToActive
  <2> HIDE DEF f
  <2>3. SumFunction(f) \in Nat
    BY <1>1, <2>1, SumFunctionIsNat
  <2>4. QED BY <2>2, <2>3
<1>3. nearest = {n \in active : \A m \in active : d[n] <= d[m]}
  OBVIOUS
<1>4. Center = Smallest(nearest)
  BY DEF Center
<1> HIDE DEF d, nearest
<1> DEFINE D == {d[n] : n \in active}
<1>5. D \subseteq Nat /\ D # {}
  BY <1>1, <1>2
<1>6. PICK least \in D : \A x \in D : least <= x
  <2> HIDE DEF D
  <2>1. QED BY <1>5, Least
<1>7. PICK n \in active : d[n] = least
  BY <1>6
<1>8. n \in nearest
  BY <1>3, <1>6, <1>7
<1>9. nearest \subseteq Nat /\ nearest \subseteq active
  BY <1>1, <1>3
<1>10. Smallest(nearest) \in nearest
  BY <1>8, <1>9, SmallestIs
<1>11. QED BY <1>4, <1>9, <1>10

\* The nodes, with one of them first.
LEMMA NodesFrom ==
  ASSUME NEW size \in Int, size <= Cardinality(Node), NEW c \in Node
  PROVE  \E list \in RandomLists(size) : size > 0 => list[1] = c
<1> DEFINE n == Cardinality(Node)
<1>1. IsSorted(NodeList, Node) /\ n \in Nat /\ Node \subseteq Nat
  BY ValidatorsAssumption, SortedListIs, FS_CardinalityType DEF ValidatorsAssumption, NodeList
<1> HIDE DEF n
<1>2. /\ NodeList \in [1..n -> Node] /\ \A x \in Node : \E i \in 1..n : NodeList[i] = x
      /\ \A i, j \in 1..n : i < j => NodeList[i] < NodeList[j]
  BY <1>1 DEF IsSorted, n
<1>3. \A i, j \in 1..n : i # j => NodeList[i] # NodeList[j]
  <2>1. ASSUME NEW i \in 1..n, NEW j \in 1..n, i # j PROVE NodeList[i] # NodeList[j]
    <3>1. NodeList[i] \in Nat /\ NodeList[j] \in Nat
      BY <1>1, <1>2
    <3>2. i < j \/ j < i
      BY <1>1, <2>1
    <3>3. QED BY <1>2, <3>1, <3>2
  <2>2. QED BY <2>1
<1>4. PICK k \in 1..n : NodeList[k] = c
  BY <1>2
<1> DEFINE at(i) == IF i = 1 THEN k ELSE IF i = k THEN 1 ELSE i
           list == [i \in 1..size |-> NodeList[at(i)]]
<1>5. \A i \in 1..size : i \in 1..n /\ at(i) \in 1..n
  BY <1>1, <1>4 DEF n
<1>6. \A i, j \in 1..size : i # j => at(i) # at(j)
  BY <1>4
<1> HIDE DEF at
<1>7. list \in [1..size -> Node]
  BY <1>2, <1>5
<1>8. \A i, j \in 1..size : i # j => list[i] # list[j]
  BY <1>3, <1>5, <1>6
<1>9. size > 0 => list[1] = c
  BY <1>4 DEF at
<1> HIDE DEF list
<1>10. list \in RandomLists(size)
  BY <1>7, <1>8 DEF RandomLists
<1>11. QED BY <1>9, <1>10

\* controlLoop finds no list only for more validators than the model or the
\* system has.
LEMMA NoListBeyond ==
  ASSUME ModelInv, FiguresInv, ListsInv, start.control # "none", Proposed = {}
  PROVE  Beyond
<1> DEFINE v == Cardinality(active)
           table == start.model.table
<1>1. v \in Nat
  BY ActiveIsNat
<1>2. CASE ModelPanics
  <2>1. start.model.kind = "3D" /\ NbValIndex(modelVal, v) > Len(modelVal.listVal)
    BY <1>2 DEF ModelPanics
  <2>2. table \in Seq(Sample3D) /\ modelVal = Import3D(table)
    BY <2>1, ModelTable
  <2> HIDE DEF v, table
  <2>3. CASE table = <<>>
    <3>1. \A l \in DOMAIN table : table[l].nbValid < v
      BY <2>3
    <3>2. QED BY <2>1, <3>1 DEF Beyond, table, v
  <2>4. CASE table # <<>>
    <3>1. Lists(modelVal.listVal, SizesOf(table))
      BY <2>2, <2>4, Import3DIs DEF Filled
    <3>2. \A s \in SizesOf(table) : s < v
      BY <1>1, <2>1, <2>2, <3>1, NbValIndexIs
    <3>3. \A l \in DOMAIN table : table[l].nbValid < v
      BY <3>2 DEF SizesOf
    <3>4. QED BY <2>1, <3>3 DEF Beyond, table, v
  <2>5. QED BY <2>3, <2>4
<1>3. CASE ~ModelPanics
  <2>1. Proposals(NewSize) = {} /\ NewSize \in Int
    BY <1>3, NewSizeType DEF Proposed
  <2> DEFINE size == NewSize
  <2> HIDE DEF size
  <2>2. start.selector # "Pivot"
    <3>1. PivotLists(size) # {}
      BY DEF PivotLists
    <3>2. QED BY <2>1, <3>1 DEF Proposals, size
  <2>3. size > Cardinality(Node)
    <3>1. SUFFICES ASSUME ~(size > Cardinality(Node)) PROVE FALSE
      OBVIOUS
    <3>2. Cardinality(Node) \in Nat
      BY ValidatorsAssumption, FS_CardinalityType DEF ValidatorsAssumption
    <3>3. size \in Int /\ size <= Cardinality(Node)
      BY <2>1, <3>1, <3>2 DEF size
    <3>4. Center \in Node
      BY CenterIsActive DEF ListsInv
    <3>5. PICK list \in RandomLists(size) : size > 0 => list[1] = Center
      BY <3>3, <3>4, NodesFrom
    <3>6. list \in CentricLists(size)
      BY <3>5 DEF CentricLists
    <3>7. Proposals(size) = RandomLists(size) \/ Proposals(size) = CentricLists(size)
      BY <2>2, ModelTable DEF Proposals
    <3>8. QED BY <2>1, <3>5, <3>6, <3>7 DEF size
  <2>4. QED BY <2>2, <2>3 DEF Beyond, size
<1>4. QED BY <1>2, <1>3

\* What the tests of a model are asked are natural numbers.
LEMMA AskedAreNat ==
  ASSUME NEW S, NEW table \in Seq(S), \A l \in DOMAIN table : table[l].throughput \in Nat,
         NEW r \in 0..Largest({0} \cup {table[l].throughput : l \in DOMAIN table}) + 1
  PROVE  r \in Nat
<1> DEFINE f == [l \in DOMAIN table |-> table[l].throughput]
           T == {f[l] : l \in DOMAIN table}
           U == {0} \cup T
<1>1. U = {0} \cup {table[l].throughput : l \in DOMAIN table}
  OBVIOUS
<1>2. IsFiniteSet(DOMAIN table)
  <2>1. DOMAIN table = 1..Len(table) /\ Len(table) \in Nat
    BY LenProperties
  <2>2. QED BY <2>1, FS_Interval
<1>3. T \subseteq Nat /\ DOMAIN table \subseteq DOMAIN f
  OBVIOUS
<1> HIDE DEF f
<1>4. IsFiniteSet(T)
  BY <1>2, <1>3, ImageFinite
<1> HIDE DEF T
<1>5. IsFiniteSet(U) /\ U \subseteq Nat /\ U # {}
  <2>1. IsFiniteSet({0})
    BY FS_Singleton
  <2>2. IsFiniteSet({0} \cup T)
    BY <1>4, <2>1, FS_Union
  <2>3. QED BY <1>3, <2>2
<1> HIDE DEF U
<1>6. Largest(U) \in Nat
  BY <1>5, LargestIs
<1>7. r \in 0..Largest(U) + 1
  BY <1>1
<1>8. QED BY <1>6, <1>7

LEMMA ModelIsSound == ASSUME ModelInv PROVE ModelSound
<1> DEFINE table == start.model.table
<1>1. CASE start.model.kind = "2D"
  <2>1. table \in Seq(Sample) /\ modelVal = Import2D(table)
    BY <1>1, ModelTable
  <2>2. \A l \in DOMAIN table : table[l].throughput \in Nat
    <3>1. \A l \in DOMAIN table : table[l] \in Sample
      BY <2>1, LenProperties
    <3>2. QED BY <3>1 DEF Sample
  <2> HIDE DEF table
  <2>3. Keys(modelVal) = Worthwhile(table) /\ Decreasing(modelVal)
    BY <2>1, Import2DIs
  <2>4. \A r \in 0..Largest({0} \cup {table[l].throughput : l \in DOMAIN table}) + 1 :
          Ideal2D(modelVal, r) = MostValidators2D(table, r)
    <3>1. \A r \in Nat : Ideal2D(modelVal, r) = MostValidators2D(table, r)
      BY <2>1, Ideal2DIs
    <3>2. QED BY <2>1, <2>2, <3>1, AskedAreNat
  <2>5. ImportSound
    BY <1>1, <2>3 DEF ImportSound, Decreasing, table
  <2>6. IdealSound
    BY <1>1, <2>4 DEF IdealSound, table
  <2>7. QED BY <2>5, <2>6 DEF ModelSound
<1>2. CASE start.model.kind = "3D"
  <2>1. table \in Seq(Sample3D) /\ modelVal = Import3D(table)
    BY <1>2, ModelTable
  <2>2. \A l \in DOMAIN table : table[l].throughput \in Nat
    <3>1. \A l \in DOMAIN table : table[l] \in Sample3D
      BY <2>1, LenProperties
    <3>2. QED BY <3>1 DEF Sample3D
  <2> HIDE DEF table
  <2>3. CASE table = <<>>
    <3>1. DOMAIN modelVal.listVal = {}
      BY <2>1, <2>3, EmptyModel
    <3>2. ImportSound
      BY <1>2, <3>1 DEF ImportSound
    <3>3. Keys(modelVal.listVal) = {}
      BY <3>1 DEF Keys
    <3>4. IdealSound
      BY <1>2, <3>3 DEF IdealSound
    <3>5. QED BY <3>2, <3>4 DEF ModelSound
  <2>4. CASE table # <<>>
    <3>1. Filled(modelVal, table)
      BY <2>1, <2>4, Import3DIs
    <3>2. /\ modelVal.listVal \in [1..Len(modelVal.listVal) -> SizesOf(table)]
          /\ DOMAIN modelVal.listLag = 1..Len(modelVal.listLag)
      BY <3>1 DEF Filled, Lists
    <3>3. ImportSound
      <4>1. \A i \in DOMAIN modelVal.listVal, j \in DOMAIN modelVal.listLag :
              modelVal.mesh[i][j] = Throughput3D(table, modelVal.listVal[i], modelVal.listLag[j])
        BY <3>1, <3>2 DEF Filled
      <4>2. QED BY <1>2, <4>1 DEF ImportSound, table
    <3>4. ASSUME NEW r \in Nat, NEW c \in Nat, NEW v \in Keys(modelVal.listVal)
          PROVE  Ideal3D(modelVal, r, c, v)
                   = MostValidators3D(table, r, modelVal.listLag[LatencyIndex(modelVal, v, c)])
      <4>1. v \in SizesOf(table)
        BY <3>2 DEF Keys
      <4>2. v \in Nat
        <5>1. \A l \in DOMAIN table : table[l] \in Sample3D
          BY <2>1, LenProperties
        <5>2. QED BY <4>1, <5>1 DEF SizesOf, Sample3D
      <4>3. ~(NbValIndex(modelVal, v) > Len(modelVal.listVal))
        <5>1. Lists(modelVal.listVal, SizesOf(table))
          BY <3>1 DEF Filled
        <5>2. QED BY <2>1, <4>1, <4>2, <5>1, NbValIndexIs
      <4>4. QED BY <2>1, <3>1, <4>2, <4>3, Ideal3DIs
    <3>5. IdealSound
      <4>1. \A r, c \in 0..Largest({0} \cup {table[l].throughput : l \in DOMAIN table}) + 1,
               v \in Keys(modelVal.listVal) :
              Ideal3D(modelVal, r, c, v)
                = MostValidators3D(table, r, modelVal.listLag[LatencyIndex(modelVal, v, c)])
        BY <2>1, <2>2, <3>4, AskedAreNat
      <4>2. QED BY <1>2, <4>1 DEF IdealSound, table
    <3>6. QED BY <3>3, <3>5 DEF ModelSound
  <2>5. QED BY <2>3, <2>4
<1>3. CASE start.model.kind = "Nul"
  BY <1>3 DEF ModelSound, ImportSound, IdealSound
<1>4. QED BY <1>1, <1>2, <1>3, ModelTable

LEMMA ModelStays == ASSUME [Next]_vars PROVE UNCHANGED <<start, modelVal>>
<1>1. CASE SaverStep
  BY <1>1 DEF SaverStep, RegularSave, SaverLoop, TakeAsk, CreateFile, CreateFails, WriteFile,
              WriteFails, controlVars
<1>2. CASE MetricsStep
  BY <1>2 DEF MetricsStep, Consensus, Measuring, TickerLoop, Updater, BeginBlock, AppendBlock,
              CountBlock, CountTx, AskPool, PoolAnswers, RemoveTx, Pool, ReceiveTx, CountReceived,
              SumLoop, Tick, Update, Spawn, ServeThroughputs, ReadBlock, AskThroughputs, Keep,
              StartSave, Save, controlVars
<1>3. CASE MainStep
  BY <1>3 DEF MainStep, Interrupt, Main, WaitSaver, CloseMetrics, StopStack, WaitUpdates, Save,
              KillTicker, KillSum, KillConsensus, controlVars
<1>4. CASE Order
  BY <1>4 DEF Order, CheckControl, MakeOrder, AddOrder, OrderAdded, Flush, HandPeriod, controlVars
<1>5. CASE UNCHANGED vars
  BY <1>5 DEF vars, controlVars
<1>6. QED BY <1>1, <1>2, <1>3, <1>4, <1>5 DEF Next

\* The model says of its table what it should, for every table.
THEOREM NodeModelSound == Spec => []ModelSound
<1>1. Init => ModelInv
  BY DEF Init, ControlInit, ModelInv
<1>2. ModelInv /\ [Next]_vars => ModelInv'
  BY ModelStays DEF ModelInv, Imported
<1>3. ModelInv => ModelSound
  BY ModelIsSound
<1>4. QED BY <1>1, <1>2, <1>3, PTL DEF Spec

LEMMA FiguresInit == Init => FiguresInv
<1> SUFFICES ASSUME Init PROVE FiguresInv
  OBVIOUS
<1>1. start \in Starts /\ sums = None /\ period = None /\ tor = NewFixTor(start.buffer)
  BY DEF Init, MetricsInit, ControlInit
<1>2. None \in Figures
  BY DEF None, Figures
<1>3. start.buffer \in Nat
  BY <1>1, StartAssumption DEF StartAssumption
<1>4. /\ DOMAIN tor.data = 0..start.buffer - 1
      /\ \A i \in DOMAIN tor.data : IsPeriod(tor.data[i])
  BY <1>1 DEF NewFixTor, IsPeriod
<1>5. IsFiniteSet(0..start.buffer - 1)
  BY <1>3, FS_Interval
<1>6. QED BY <1>1, <1>2, <1>4, <1>5 DEF FiguresInv

LEMMA FiguresStay == ASSUME FiguresInv, UNCHANGED <<sums, period, tor>> PROVE FiguresInv'
  BY DEF FiguresInv

LEMMA FiguresSum == ASSUME FiguresInv, SumLoop, UNCHANGED controlVars PROVE FiguresInv'
<1>1. UNCHANGED <<period, tor>>
  BY DEF SumLoop, tickVars, controlVars
<1>2. \E c \in {"committed", "received", "blocks"} : sums' = [sums EXCEPT ![c] = @ + 1]
  BY DEF SumLoop
<1>3. sums' \in Figures
  BY <1>2 DEF FiguresInv, Figures
<1>4. QED BY <1>1, <1>3 DEF FiguresInv

LEMMA FiguresTick == ASSUME FiguresInv, Tick, UNCHANGED controlVars PROVE FiguresInv'
<1>1. period' = sums /\ sums' = None /\ UNCHANGED tor
  BY DEF Tick, AfterSum, controlVars
<1>2. None \in Figures
  BY DEF None, Figures
<1>3. QED BY <1>1, <1>2 DEF FiguresInv

LEMMA FiguresHand == ASSUME FiguresInv, HandPeriod PROVE FiguresInv'
<1> DEFINE counts == [committed |-> period.committed, received |-> period.received,
                      blocks |-> period.blocks, at |-> now]
<1>1. /\ tor' = [data |-> [tor.data EXCEPT ![tor.currentIndex] = counts],
                 currentIndex |-> NextIndex]
      /\ UNCHANGED <<sums, period>>
  BY DEF HandPeriod, AppendPeriod, sumVars
<1>2. IsPeriod(counts)
  BY DEF IsPeriod, FiguresInv, Figures
<1> HIDE DEF counts
<1>3. tor'.data = [tor.data EXCEPT ![tor.currentIndex] = counts]
  BY <1>1
<1>4. DOMAIN tor'.data = DOMAIN tor.data
  BY <1>3
<1>5. ASSUME NEW i \in DOMAIN tor.data PROVE IsPeriod(tor'.data[i])
  <2>1. tor'.data[i] = counts \/ tor'.data[i] = tor.data[i]
    BY <1>3
  <2>2. IsPeriod(tor.data[i])
    BY DEF FiguresInv
  <2>3. QED BY <1>2, <2>1, <2>2
<1>6. QED BY <1>1, <1>4, <1>5 DEF FiguresInv

LEMMA FiguresNext == ASSUME FiguresInv, [Next]_vars PROVE FiguresInv'
<1>1. CASE SaverStep
  <2>1. UNCHANGED <<sums, period, tor>>
    BY <1>1 DEF SaverStep, metricVars, sumVars, tickVars, controlVars
  <2>2. QED BY <2>1, FiguresStay
<1>2. CASE MetricsStep
  <2>1. UNCHANGED controlVars
    BY <1>2 DEF MetricsStep
  <2>2. CASE SumLoop
    BY <2>1, <2>2, FiguresSum
  <2>3. CASE Tick
    BY <2>1, <2>3, FiguresTick
  <2>4. CASE ~SumLoop /\ ~Tick
    <3>1. UNCHANGED <<sums, period, tor>>
      BY <1>2, <2>1, <2>4
        DEF MetricsStep, Consensus, Measuring, TickerLoop, Updater, BeginBlock, AppendBlock,
            CountBlock, CountTx, AskPool, PoolAnswers, RemoveTx, Pool, ReceiveTx, CountReceived,
            Update, Spawn, ServeThroughputs, ReadBlock, AskThroughputs, Keep, StartSave, Save,
            controlVars, sumVars, tickVars
    <3>2. QED BY <3>1, FiguresStay
  <2>5. QED BY <2>2, <2>3, <2>4
<1>3. CASE MainStep
  <2>1. UNCHANGED <<sums, period, tor>>
    BY <1>3 DEF MainStep, Interrupt, Main, WaitSaver, CloseMetrics, StopStack, WaitUpdates, Save,
                KillTicker, KillSum, KillConsensus, metricVars, controlVars, sumVars, tickVars
  <2>2. QED BY <2>1, FiguresStay
<1>4. CASE Order
  <2>1. CASE HandPeriod
    BY <2>1, FiguresHand
  <2>2. CASE CheckControl \/ MakeOrder \/ AddOrder \/ OrderAdded \/ Flush
    <3>1. UNCHANGED <<sums, period, tor>>
      BY <2>2 DEF CheckControl, MakeOrder, AddOrder, OrderAdded, Flush, controlVars, sumVars,
                  tickVars
    <3>2. QED BY <3>1, FiguresStay
  <2>3. QED BY <1>4, <2>1, <2>2 DEF Order
<1>5. CASE UNCHANGED vars
  <2>1. UNCHANGED <<sums, period, tor>>
    BY <1>5 DEF vars, metricVars, sumVars, tickVars, controlVars
  <2>2. QED BY <2>1, FiguresStay
<1>6. QED BY <1>1, <1>2, <1>3, <1>4, <1>5 DEF Next

LEMMA ListsInit == Init => ListsInv
<1> SUFFICES ASSUME Init PROVE ListsInv
  OBVIOUS
<1>1. active = Node /\ orders = {} /\ control = [step |-> "select"] /\ cons = "idle"
  BY DEF Init, MetricsInit, ControlInit
<1>2. Node # {}
  BY ValidatorsAssumption, FS_EmptySet DEF ValidatorsAssumption
<1>3. control.step # "adding"
  BY <1>1
<1>4. QED BY <1>1, <1>2, <1>3 DEF ListsInv

\* No other step touches a list, or asks controlLoop for one.
LEMMA ListsStay ==
  ASSUME ListsInv, UNCHANGED <<start, active, orders, control>>, cons' = cons \/ cons' # "asked"
  PROVE  ListsInv'
  BY DEF ListsInv

LEMMA ListsMake ==
  ASSUME ModelInv, FiguresInv, ListsInv, MakeOrder
  PROVE  ListsInv'
<1>1. UNCHANGED <<start, active, orders>> /\ (cons' = cons \/ cons' = "query")
  BY DEF MakeOrder
<1>2. start.control # "none"
  BY DEF MakeOrder, ListsInv
<1>3. \/ \E list \in Proposed : control' = [step |-> "adding", list |-> list]
      \/ control' = [step |-> "panic"]
      \/ control' = control
  BY DEF MakeOrder
<1>4. control'.step = "adding" => control'.list \in Seq(Int)
  <2>1. CASE \E list \in Proposed : control' = [step |-> "adding", list |-> list]
    <3>1. PICK list \in Proposed : control' = [step |-> "adding", list |-> list]
      BY <2>1
    <3>2. list \in Seq(Int)
      BY <1>2, ProposedAreLists
    <3>3. QED BY <3>1, <3>2
  <2>2. CASE control' = [step |-> "panic"]
    BY <2>2
  <2>3. CASE control' = control
    BY <2>3 DEF ListsInv
  <2>4. QED BY <1>3, <2>1, <2>2, <2>3
<1>5. QED BY <1>1, <1>4 DEF ListsInv

LEMMA ListsAdd == ASSUME ListsInv, AddOrder PROVE ListsInv'
<1>1. /\ control.step = "adding"
      /\ orders' = orders \cup {[nb |-> nbOrder, list |-> control.list]}
      /\ UNCHANGED <<start, active, control, cons>>
  BY DEF AddOrder
<1>2. control.list \in Seq(Int)
  BY <1>1 DEF ListsInv
<1>3. QED BY <1>1, <1>2 DEF ListsInv

LEMMA ListsAdded == ASSUME ListsInv, OrderAdded PROVE ListsInv'
<1>1. /\ control' = [step |-> "select"] /\ cons' = "query"
      /\ UNCHANGED <<start, active, orders>>
  BY DEF OrderAdded
<1>2. control'.step # "adding"
  BY <1>1
<1>3. QED BY <1>1, <1>2 DEF ListsInv

\* A list that is accepted is not empty.
LEMMA ListsFlush == ASSUME ListsInv, Flush PROVE ListsInv'
<1>1. UNCHANGED <<start, control>> /\ cons' = "remove"
  BY DEF Flush
<1>2. CASE UNCHANGED <<orders, active>>
  BY <1>1, <1>2 DEF ListsInv
<1>3. CASE \E o \in orders : /\ orders' = orders \ {o}
                             /\ active' = IF Accepted(o.list) THEN Keys(o.list) ELSE active
  <2>1. PICK o \in orders : /\ orders' = orders \ {o}
                            /\ active' = IF Accepted(o.list) THEN Keys(o.list) ELSE active
    BY <1>3
  <2>2. CASE Accepted(o.list)
    <3>1. Len(o.list) >= MinValidators /\ Keys(o.list) \subseteq Node
      BY <2>2 DEF Accepted, IsSizeValid, CheckIfValidatorsAreNodes
    <3>2. DOMAIN o.list = 1..Len(o.list) /\ Len(o.list) \in Nat
      <4>1. o.list \in Seq(Int)
        BY DEF ListsInv
      <4>2. QED BY <4>1, LenProperties
    <3>3. 1 \in DOMAIN o.list
      BY <3>1, <3>2, ValidatorsAssumption DEF ValidatorsAssumption
    <3>4. Keys(o.list) # {}
      BY <3>3 DEF Keys
    <3>5. active' = Keys(o.list)
      BY <2>1, <2>2
    <3>6. QED BY <1>1, <2>1, <3>1, <3>4, <3>5 DEF ListsInv
  <2>3. CASE ~Accepted(o.list)
    BY <1>1, <2>1, <2>3 DEF ListsInv
  <2>4. QED BY <2>2, <2>3
<1>4. QED BY <1>2, <1>3 DEF Flush

LEMMA ListsNext == ASSUME ModelInv, FiguresInv, ListsInv, [Next]_vars PROVE ListsInv'
<1>1. CASE SaverStep
  <2>1. UNCHANGED <<cons, active, orders, control>>
    BY <1>1 DEF SaverStep, metricVars, controlVars
  <2>2. QED BY <2>1, ListsStay, ModelStays
<1>2. CASE MetricsStep
  <2>1. UNCHANGED <<active, orders, control>>
    BY <1>2 DEF MetricsStep, controlVars
  <2>2. cons' = cons \/ cons' # "asked"
    BY <1>2 DEF MetricsStep, Consensus, Measuring, TickerLoop, Updater, BeginBlock, AppendBlock,
                CountBlock, CountTx, AskPool, PoolAnswers, RemoveTx, Pool, ReceiveTx,
                CountReceived, SumLoop, Tick, Update, Spawn, ServeThroughputs, ReadBlock,
                AskThroughputs, Keep, StartSave, Save
  <2>3. QED BY <2>1, <2>2, ListsStay, ModelStays
<1>3. CASE MainStep
  <2>1. UNCHANGED <<active, orders, control>>
    BY <1>3 DEF MainStep, controlVars
  <2>2. cons' = cons \/ cons' # "asked"
    BY <1>3 DEF MainStep, Interrupt, Main, WaitSaver, CloseMetrics, StopStack, WaitUpdates, Save,
                KillTicker, KillSum, KillConsensus, metricVars
  <2>3. QED BY <2>1, <2>2, ListsStay, ModelStays
<1>4. CASE Order
  <2>1. CASE CheckControl
    <3>1. UNCHANGED <<start, active, orders, control>> /\ start.control # "none"
      BY <2>1 DEF CheckControl, controlVars
    <3>2. QED BY <3>1 DEF ListsInv
  <2>2. CASE MakeOrder
    BY <2>2, ListsMake
  <2>3. CASE AddOrder \/ OrderAdded
    BY <2>3, ListsAdd, ListsAdded
  <2>4. CASE Flush
    BY <2>4, ListsFlush
  <2>5. CASE HandPeriod
    <3>1. UNCHANGED <<start, active, orders, control, cons>>
      BY <2>5 DEF HandPeriod
    <3>2. QED BY <3>1, ListsStay
  <2>6. QED BY <1>4, <2>1, <2>2, <2>3, <2>4, <2>5 DEF Order
<1>5. CASE UNCHANGED vars
  <2>1. UNCHANGED <<start, active, orders, control, cons>>
    BY <1>5 DEF vars, metricVars, controlVars
  <2>2. QED BY <2>1, ListsStay
<1>6. QED BY <1>1, <1>2, <1>3, <1>4, <1>5 DEF Next

\* What the panic is about stays as it was.
LEMMA BeyondStays ==
  ASSUME Beyond, UNCHANGED <<start, tor, modelVal, active>>
  PROVE  Beyond'
<1>1. NewSize' = NewSize
  BY DEF NewSize, OneValidator, Hysteresis, IdealNbVal, committedThroughput, emittedThroughput,
         blockThroughput, SumOf
<1>2. QED BY <1>1 DEF Beyond

LEMMA PanicNext ==
  ASSUME ModelInv, FiguresInv, ListsInv, PanicInv, [Next]_vars
  PROVE  PanicInv'
<1>1. CASE UNCHANGED vars
  <2>1. UNCHANGED <<start, tor, modelVal, active, control, main>>
    BY <1>1 DEF vars, controlVars
  <2>2. QED BY <2>1, BeyondStays DEF PanicInv
<1>2. CASE MakeOrder
  <2>1. /\ start.control # "none" /\ control.step = "select"
        /\ UNCHANGED <<start, tor, modelVal, active>>
    BY <1>2 DEF MakeOrder, ListsInv
  <2>2. \/ \E list \in Proposed : control' = [step |-> "adding", list |-> list]
        \/ Proposed = {} /\ main' = "panic"
        \/ control' = control
    BY <1>2 DEF MakeOrder
  <2>3. CASE Proposed = {} /\ main' = "panic"
    <3>1. Beyond
      BY <2>1, <2>3, NoListBeyond
    <3>2. Beyond'
      BY <2>1, <3>1, BeyondStays
    <3>3. QED BY <2>3, <3>2 DEF PanicInv
  <2>4. CASE (\E list \in Proposed : control' = [step |-> "adding", list |-> list])
               \/ control' = control
    <3>1. control'.step # "panic"
      BY <2>1, <2>4
    <3>2. QED BY <3>1 DEF PanicInv
  <2>5. QED BY <2>2, <2>3, <2>4
<1>3. CASE Next /\ ~MakeOrder
  <2>1. control.step # "panic"
    BY <1>3 DEF Next, Running, PanicInv
  <2>2. control' = control \/ control' = [step |-> "select"]
    BY <1>3 DEF Next, SaverStep, MetricsStep, MainStep, Order, CheckControl, AddOrder, OrderAdded,
                Flush, HandPeriod, controlVars
  <2>3. control'.step # "panic"
    BY <2>1, <2>2
  <2>4. QED BY <2>3 DEF PanicInv
<1>4. QED BY <1>1, <1>2, <1>3

\* controlLoop panics only when it is asked for more validators than there are,
\* or than the model has measured.
THEOREM NodePanicsBeyond == Spec => []PanicsBeyond
<1> DEFINE Inv == ModelInv /\ FiguresInv /\ ListsInv /\ PanicInv
<1>1. Init => Inv
  <2>1. Init => ModelInv
    BY DEF Init, ControlInit, ModelInv
  <2>2. Init => PanicInv
    BY DEF Init, ControlInit, PanicInv
  <2>3. QED BY <2>1, <2>2, FiguresInit, ListsInit
<1>2. Inv /\ [Next]_vars => Inv'
  <2>1. ModelInv /\ [Next]_vars => ModelInv'
    BY ModelStays DEF ModelInv, Imported
  <2>2. QED BY <2>1, FiguresNext, ListsNext, PanicNext
<1>3. Inv => PanicsBeyond
  BY DEF PanicInv, PanicsBeyond, Beyond
<1> HIDE DEF Inv
<1>4. QED BY <1>1, <1>2, <1>3, PTL DEF Spec

-----------------------------------------------------------------------------
(***************************************************************************)
(* TypeOK.  The invariants above have most of the types; these are those   *)
(* of what they do not speak of.                                           *)
(***************************************************************************)
MainSteps == {"run", "wait", "stop", "updates", "save", "killTicker", "killSum", "killCons",
              "ended", "panic"}
ConsSteps ==
  {"idle", "append", "countBlock", "flush", "remove", "countTx", "query", "asked", "killed"}
PoolSteps == {"idle", "handler", "consensus", "control"}
TickerSteps == {"select", "report", "update", "spawn", "killed"}
StepsInv ==
  /\ main \in MainSteps /\ cons \in ConsSteps /\ pool \in PoolSteps /\ ticker \in TickerSteps
  /\ control.step \in {"select", "adding", "panic"}

ChainInv ==
  /\ start.maxBlock \in Nat /\ sizeChain \in Nat \ {0}
  /\ lastBlock \in 0..start.maxBlock /\ secLastBlock \in 0..lastBlock
  /\ cons = "append" => lastBlock < start.maxBlock

PlacesInv ==
  /\ addCommittedTx \in 0..ChanCap /\ addReceivedTx \in 0..ChanCap
  /\ addCommittedBlock \in 0..ChanCap
  /\ Len(throughputChan) <= 2

\* What a way to save does not use.
UnusedInv ==
  /\ start.save \in {"no", "one", "parts"}
  /\ start.save = "no" => saver = Idle /\ askWrite = FALSE /\ waitWrite = 0
  /\ start.save # "parts" => parts = <<>> /\ MultiPrev = 0
  /\ start.save # "one" => saveFile = 0

LEMMA StepsNext == ASSUME StepsInv, [Next]_vars PROVE StepsInv'
<1>1. CASE SaverStep
  <2>1. main' \in {main, "panic"} /\ UNCHANGED <<cons, pool, ticker, control>>
    BY <1>1 DEF SaverStep, RegularSave, SaverLoop, TakeAsk, CreateFile, CreateFails, WriteFile,
                WriteFails, metricVars, tickVars, poolVars, controlVars
  <2>2. QED BY <2>1 DEF StepsInv, MainSteps
<1>2. CASE MetricsStep
  <2>1. UNCHANGED control
    BY <1>2 DEF MetricsStep, controlVars
  <2>2. main' \in {main, "panic"}
    BY <1>2 DEF MetricsStep, Consensus, Measuring, TickerLoop, Updater, BeginBlock, AppendBlock,
                CountBlock, CountTx, AskPool, PoolAnswers, RemoveTx, Pool, ReceiveTx,
                CountReceived, SumLoop, Tick, Update, Spawn, ServeThroughputs, ReadBlock,
                AskThroughputs, Keep, StartSave, Save
  <2>3. cons' = cons \/ cons' \in ConsSteps
    BY <1>2 DEF MetricsStep, Consensus, Measuring, TickerLoop, Updater, BeginBlock, AppendBlock,
                CountBlock, CountTx, AskPool, PoolAnswers, RemoveTx, Pool, ReceiveTx,
                CountReceived, SumLoop, Tick, Update, Spawn, ServeThroughputs, ReadBlock,
                AskThroughputs, Keep, StartSave, Save, ConsSteps
  <2>4. pool' = pool \/ pool' \in PoolSteps
    BY <1>2 DEF MetricsStep, Consensus, Measuring, TickerLoop, Updater, BeginBlock, AppendBlock,
                CountBlock, CountTx, AskPool, PoolAnswers, RemoveTx, Pool, ReceiveTx,
                CountReceived, AddTransaction, AddOneReceivedTx, SumLoop, Tick, Update, Spawn,
                ServeThroughputs, ReadBlock, AskThroughputs, Keep, StartSave, Save, PoolSteps,
                poolVars
  <2>5. ticker' = ticker \/ ticker' \in TickerSteps
    BY <1>2 DEF MetricsStep, Consensus, Measuring, TickerLoop, Updater, BeginBlock, AppendBlock,
                CountBlock, CountTx, AskPool, PoolAnswers, RemoveTx, Pool, ReceiveTx,
                CountReceived, SumLoop, Tick, Update, Spawn, ServeThroughputs, ReadBlock,
                AskThroughputs, Keep, StartSave, Save, TickerSteps, tickVars
  <2>6. QED BY <2>1, <2>2, <2>3, <2>4, <2>5 DEF StepsInv, MainSteps
<1>3. CASE MainStep
  <2>1. UNCHANGED control
    BY <1>3 DEF MainStep, controlVars
  <2>2. main' = main \/ main' \in MainSteps
    BY <1>3 DEF MainStep, Interrupt, Main, WaitSaver, CloseMetrics, StopStack, WaitUpdates, Save,
                KillTicker, KillSum, KillConsensus, MainSteps
  <2>3. UNCHANGED pool /\ (cons' = cons \/ cons' \in ConsSteps)
    BY <1>3 DEF MainStep, Interrupt, Main, WaitSaver, CloseMetrics, StopStack, WaitUpdates, Save,
                KillTicker, KillSum, KillConsensus, ConsSteps, metricVars, poolVars
  <2>4. ticker' = ticker \/ ticker' \in TickerSteps
    BY <1>3 DEF MainStep, Interrupt, Main, WaitSaver, CloseMetrics, StopStack, WaitUpdates, Save,
                KillTicker, KillSum, KillConsensus, TickerSteps, metricVars, tickVars
  <2>5. QED BY <2>1, <2>2, <2>3, <2>4 DEF StepsInv
<1>4. CASE Order
  <2>1. main' \in {main, "panic"} /\ (cons' = cons \/ cons' \in ConsSteps)
    BY <1>4 DEF Order, CheckControl, MakeOrder, AddOrder, OrderAdded, Flush, HandPeriod, ConsSteps
  <2>2. pool' = pool \/ pool' \in PoolSteps
    BY <1>4 DEF Order, CheckControl, MakeOrder, AddOrder, AddTransaction, OrderAdded,
                AddOneReceivedTx, Flush, HandPeriod, PoolSteps, poolVars
  <2>3. ticker' = ticker \/ ticker' \in TickerSteps
    BY <1>4 DEF Order, CheckControl, MakeOrder, AddOrder, OrderAdded, Flush, HandPeriod,
                TickerSteps, tickVars
  <2>4. \/ control' = control \/ control' \in {[step |-> "panic"], [step |-> "select"]}
        \/ \E list \in Proposed : control' = [step |-> "adding", list |-> list]
    BY <1>4 DEF Order, CheckControl, MakeOrder, AddOrder, OrderAdded, Flush, HandPeriod,
                controlVars
  <2>5. control'.step \in {control.step, "select", "adding", "panic"}
    BY <2>4
  <2>6. QED BY <2>1, <2>2, <2>3, <2>5 DEF StepsInv, MainSteps
<1>5. CASE UNCHANGED vars
  BY <1>5 DEF vars, metricVars, tickVars, poolVars, controlVars, StepsInv
<1>6. QED BY <1>1, <1>2, <1>3, <1>4, <1>5 DEF Next

LEMMA ChainNext == ASSUME ChainInv, [Next]_vars PROVE ChainInv'
<1>1. start' = start
  BY ModelStays
<1>2. CASE BeginBlock
  BY <1>1, <1>2 DEF BeginBlock, ChainInv
<1>3. CASE AppendBlock
  BY <1>1, <1>3 DEF AppendBlock, ChainInv
<1>4. CASE UNCHANGED blockVars /\ (cons' = cons \/ cons' # "append")
  BY <1>1, <1>4 DEF ChainInv, blockVars
<1>5. CASE SaverStep
  <2>1. UNCHANGED <<blockVars, cons>>
    BY <1>5 DEF SaverStep, RegularSave, SaverLoop, TakeAsk, CreateFile, CreateFails, WriteFile,
                WriteFails, metricVars, blockVars
  <2>2. QED BY <1>4, <2>1
<1>6. CASE MetricsStep /\ ~BeginBlock /\ ~AppendBlock
  <2>1. UNCHANGED blockVars /\ (cons' = cons \/ cons' # "append")
    BY <1>6 DEF MetricsStep, Consensus, Measuring, TickerLoop, Updater, CountBlock, CountTx,
                AskPool, PoolAnswers, RemoveTx, Pool, ReceiveTx, CountReceived, SumLoop, Tick,
                Update, Spawn, ServeThroughputs, ReadBlock, AskThroughputs, Keep, StartSave, Save
  <2>2. QED BY <1>4, <2>1
<1>7. CASE MainStep
  <2>1. UNCHANGED blockVars /\ (cons' = cons \/ cons' # "append")
    BY <1>7 DEF MainStep, Interrupt, Main, WaitSaver, CloseMetrics, StopStack, WaitUpdates, Save,
                KillTicker, KillSum, KillConsensus, metricVars, blockVars
  <2>2. QED BY <1>4, <2>1
<1>8. CASE Order
  <2>1. UNCHANGED blockVars /\ (cons' = cons \/ cons' # "append")
    BY <1>8 DEF Order, CheckControl, MakeOrder, AddOrder, OrderAdded, Flush, HandPeriod
  <2>2. QED BY <1>4, <2>1
<1>9. CASE UNCHANGED vars
  BY <1>4, <1>9 DEF vars, metricVars, blockVars
<1>10. QED BY <1>2, <1>3, <1>5, <1>6, <1>7, <1>8, <1>9 DEF Next

chanVars == <<addCommittedTx, addReceivedTx, addCommittedBlock, throughputChan>>
LEMMA PlacesStay == ASSUME PlacesInv, UNCHANGED chanVars PROVE PlacesInv'
  BY DEF PlacesInv, chanVars

\* Who puts something into a channel waits for a place.
LEMMA PlacesMetrics == ASSUME UpdaterInv, PlacesInv, MetricsStep PROVE PlacesInv'
<1>1. CASE CountBlock \/ CountTx \/ CountReceived
  BY <1>1, MetricsAssumption
  DEF CountBlock, CountTx, CountReceived, AddOneReceivedTx, tickVars, PlacesInv, MetricsAssumption
<1>2. CASE SumLoop
  BY <1>2, MetricsAssumption DEF SumLoop, tickVars, PlacesInv, MetricsAssumption
<1>3. CASE \/ BeginBlock \/ AppendBlock \/ AskPool \/ PoolAnswers \/ RemoveTx \/ ReceiveTx
           \/ Tick \/ Update \/ Spawn \/ StartSave \/ Save("ticker")
  BY <1>3, PlacesStay
  DEF BeginBlock, AppendBlock, AskPool, PoolAnswers, RemoveTx, ReceiveTx, Tick, Update, Spawn,
      StartSave, Save, sumVars, tickVars, chanVars
<1>4. CASE ServeThroughputs
  <2>1. /\ throughputChan # <<>> /\ throughputChan' = Tail(throughputChan)
        /\ UNCHANGED <<addCommittedTx, addReceivedTx, addCommittedBlock>>
    BY <1>4 DEF ServeThroughputs, sumVars
  <2>2. Len(throughputChan') = Len(throughputChan) - 1 /\ Len(throughputChan) \in Nat
    BY <2>1 DEF UpdaterInv
  <2>3. QED BY <2>1, <2>2 DEF PlacesInv
<1>5. ASSUME NEW u \in DOMAIN updaters, Updater(u) PROVE PlacesInv'
  <2>1. UNCHANGED <<addCommittedTx, addReceivedTx, addCommittedBlock>>
    BY <1>5 DEF Updater, ReadBlock, AskThroughputs, Keep, sumVars
  <2>2. \/ UNCHANGED throughputChan
        \/ Len(throughputChan) < 2 /\ throughputChan' = Append(throughputChan, u)
    BY <1>5 DEF Updater, ReadBlock, AskThroughputs, Keep, tickVars
  <2>3. Len(throughputChan') <= 2
    BY <2>2 DEF UpdaterInv, PlacesInv
  <2>4. QED BY <2>1, <2>3 DEF PlacesInv
<1>6. QED
  BY <1>1, <1>2, <1>3, <1>4, <1>5 DEF MetricsStep, Consensus, Pool, Measuring, TickerLoop

LEMMA PlacesNext == ASSUME UpdaterInv, PlacesInv, [Next]_vars PROVE PlacesInv'
<1>1. CASE SaverStep
  BY <1>1, PlacesStay DEF SaverStep, metricVars, sumVars, tickVars, chanVars
<1>2. CASE MainStep
  BY <1>2, PlacesStay
  DEF MainStep, Interrupt, Main, WaitSaver, CloseMetrics, StopStack, WaitUpdates, Save, KillTicker,
      KillSum, KillConsensus, metricVars, sumVars, tickVars, chanVars
<1>3. CASE OrderAdded
  BY <1>3, MetricsAssumption
  DEF OrderAdded, AddOneReceivedTx, tickVars, PlacesInv, MetricsAssumption
<1>4. CASE CheckControl \/ MakeOrder \/ AddOrder \/ Flush \/ HandPeriod
  BY <1>4, PlacesStay
  DEF CheckControl, MakeOrder, AddOrder, Flush, HandPeriod, sumVars, tickVars, chanVars
<1>5. CASE UNCHANGED vars
  BY <1>5, PlacesStay DEF vars, metricVars, sumVars, tickVars, chanVars
<1>6. QED BY <1>1, <1>2, <1>3, <1>4, <1>5, PlacesMetrics DEF Next, Order

LEMMA UnusedStay == ASSUME UnusedInv, UNCHANGED <<start, saveVars>> PROVE UnusedInv'
  BY DEF UnusedInv, saveVars, fileVars

LEMMA UnusedAsk == ASSUME UnusedInv, AskToSave, UNCHANGED <<start, fileVars>> PROVE UnusedInv'
  BY DEF UnusedInv, AskToSave, fileVars

\* A chain in one piece is the file without a number, and only it.
LEMMA UnusedSaver == ASSUME SaveInv, FilesInv, UnusedInv, SaverStep PROVE UnusedInv'
<1>1. CASE RegularSave
  BY <1>1, UnusedAsk DEF RegularSave
<1>2. CASE TakeAsk
  BY <1>2 DEF TakeAsk, UnusedInv
<1>3. CASE CreateFile \/ CreateFails \/ WriteFile \/ WriteFails
  <2>1. saver.step \in {"create", "write"} /\ start' = start
    BY <1>3 DEF CreateFile, CreateFails, WriteFile, WriteFails
  <2>2. saver # Idle
    BY <2>1 DEF Idle
  <2>3. CASE start.save = "one"
    <3>1. saver.part = 0 /\ saver.size = 0
      BY <2>2, <2>3 DEF SaveInv, Writing
    <3>2. parts' = parts
      BY <1>3, <3>1 DEF CreateFile, CreateFails, WriteFile, WriteFails, Holds
    <3>3. ASSUME NEW content, NEW new, Attempted(content, new) PROVE MultiPrev' \in {MultiPrev, 0}
      BY <3>1, <3>3 DEF Attempted
    <3>4. MultiPrev' \in {MultiPrev, 0}
      BY <1>3, <3>1, <3>3 DEF CreateFile, CreateFails, WriteFile, WriteFails
    <3>5. QED BY <2>1, <2>3, <3>2, <3>4 DEF UnusedInv
  <2>4. CASE start.save = "parts"
    <3>1. saver.part # 0
      BY <2>2, <2>4 DEF FilesInv, FilesShape, PartWriting
    <3>2. saveFile' = saveFile
      BY <1>3, <3>1 DEF CreateFile, CreateFails, WriteFile, WriteFails, Holds
    <3>3. QED BY <2>1, <2>4, <3>2 DEF UnusedInv
  <2>5. QED BY <2>2, <2>3, <2>4 DEF UnusedInv
<1>4. QED BY <1>1, <1>2, <1>3 DEF SaverStep, SaverLoop

LEMMA UnusedNext == ASSUME SaveInv, FilesInv, UnusedInv, [Next]_vars PROVE UnusedInv'
<1>1. CASE MetricsStep
  <2>1. UNCHANGED <<start, saveVars>>
    BY <1>1 DEF MetricsStep, Consensus, Measuring, TickerLoop, Updater, BeginBlock, AppendBlock,
                CountBlock, CountTx, AskPool, PoolAnswers, RemoveTx, Pool, ReceiveTx,
                CountReceived, SumLoop, Tick, Update, Spawn, ServeThroughputs, ReadBlock,
                AskThroughputs, Keep, StartSave, Save
  <2>2. QED BY <2>1, UnusedStay
<1>2. CASE MainStep
  <2>1. CASE Interrupt
    BY <2>1, UnusedAsk DEF Interrupt
  <2>2. CASE Main
    <3>1. UNCHANGED <<start, saveVars>>
      BY <2>2 DEF Main, WaitSaver, CloseMetrics, StopStack, WaitUpdates, Save, KillTicker, KillSum,
                  KillConsensus
    <3>2. QED BY <3>1, UnusedStay
  <2>3. QED BY <1>2, <2>1, <2>2 DEF MainStep
<1>3. CASE Order
  BY <1>3, UnusedStay DEF Order, CheckControl, MakeOrder, AddOrder, OrderAdded, Flush, HandPeriod
<1>4. CASE UNCHANGED vars
  BY <1>4, UnusedStay DEF vars
<1>5. QED BY <1>1, <1>2, <1>3, <1>4, UnusedSaver DEF Next

TypeInv == StepsInv /\ ChainInv /\ PlacesInv /\ UnusedInv

LEMMA TypeInit == Init => TypeInv
<1> SUFFICES ASSUME Init PROVE TypeInv
  OBVIOUS
<1>1. StepsInv
  BY DEF Init, MetricsInit, ControlInit, StepsInv, MainSteps, ConsSteps, PoolSteps, TickerSteps
<1>2. start.maxBlock \in Nat /\ start.save \in {"no", "one", "parts"}
  BY StartAssumption DEF Init, StartAssumption
<1>3. ChainInv
  BY <1>2 DEF Init, MetricsInit, ChainInv
<1>4. PlacesInv
  BY MetricsAssumption DEF Init, MetricsInit, PlacesInv, MetricsAssumption
<1>5. UnusedInv
  BY <1>2 DEF Init, SaverInit, UnusedInv
<1>6. QED BY <1>1, <1>3, <1>4, <1>5 DEF TypeInv

\* The invariants of the parts give the types together.
LEMMA SaverTypes ==
  ASSUME PartsInv, SaveInv, FilesInv, UnusedInv
  PROVE  /\ askWrite \in BOOLEAN /\ waitWrite \in Nat /\ saver.step \in {"idle", "create", "write"}
         /\ saveFile \in Nat /\ parts \in Seq(Nat) /\ MultiPrev \in Nat
<1>1. CASE start.save = "no"
  <2>1. /\ saver = Idle /\ askWrite = FALSE /\ waitWrite = 0
        /\ parts = <<>> /\ MultiPrev = 0 /\ saveFile = 0
    BY <1>1 DEF UnusedInv
  <2>2. saver.step = "idle"
    BY <2>1 DEF Idle
  <2>3. parts \in Seq(Nat)
    <3>1. <<>> \in Seq(Nat)
      OBVIOUS
    <3>2. QED BY <2>1, <3>1
  <2>4. QED BY <2>1, <2>2, <2>3
<1>2. CASE start.save = "one"
  <2>1. askWrite \in BOOLEAN /\ saver \in {Idle} \cup Writing /\ saveFile \in Nat
    BY <1>2 DEF SaveInv
  <2>2. waitWrite = (IF askWrite THEN 1 ELSE 0) + (IF saver = Idle THEN 0 ELSE 1)
    BY <1>2 DEF SaveInv
  <2>3. waitWrite \in Nat
    BY <2>2
  <2>4. saver.step \in {"idle", "create", "write"}
    BY <2>1, NotIdle DEF Writing
  <2>5. parts = <<>> /\ MultiPrev = 0
    BY <1>2 DEF UnusedInv
  <2>6. QED BY <2>1, <2>3, <2>4, <2>5
<1>3. CASE start.save = "parts"
  <2>1. saver.step \in {"idle", "create", "write"}
    BY <1>3, NotIdle DEF FilesInv, FilesShape, PartWriting
  <2>2. QED BY <1>3, <2>1 DEF PartsInv, FilesInv, FilesShape, UnusedInv
<1>4. QED BY <1>1, <1>2, <1>3 DEF UnusedInv

LEMMA TypesCorrect ==
  ASSUME PartsInv, SaveInv, FilesInv, TorInv, UpdaterInv, ModelInv, FiguresInv, ListsInv, TypeInv
  PROVE  TypeOK
<1>1. start \in Starts
  BY DEF ModelInv
<1>2. /\ main \in MainSteps /\ cons \in ConsSteps /\ pool \in PoolSteps /\ ticker \in TickerSteps
      /\ control.step \in {"select", "adding", "panic"}
  BY DEF TypeInv, StepsInv
<1>3. sums \in [DOMAIN None -> Nat] /\ period \in [DOMAIN None -> Nat]
  BY NoneDomain DEF FiguresInv, Figures
<1>4. /\ throughputChan \in Seq(DOMAIN updaters) /\ Len(throughputChan) <= 2
      /\ stack.list \in Seq(BOOLEAN)
  BY DEF UpdaterInv, TypeInv, PlacesInv
<1>5. stack.wait \in Nat
  BY UpdatersFinite, FS_CardinalityType DEF UpdaterInv
<1>6. tor.currentIndex \in DOMAIN tor.data /\ changedAt \in 0..now
  BY DEF TorInv
<1>7. active \subseteq Node /\ active # {}
  BY DEF ListsInv
<1>8. /\ sizeChain \in Nat \ {0} /\ lastBlock \in 0..start.maxBlock
      /\ secLastBlock \in 0..lastBlock
      /\ addCommittedTx \in 0..ChanCap /\ addReceivedTx \in 0..ChanCap
      /\ addCommittedBlock \in 0..ChanCap
  BY DEF TypeInv, ChainInv, PlacesInv
<1>9. QED
  BY <1>1, <1>2, <1>3, <1>4, <1>5, <1>6, <1>7, <1>8, SaverTypes
  DEF TypeOK, TypeInv, MainSteps, ConsSteps, PoolSteps, TickerSteps

\* Every variable has its type: no channel holds more than its capacity, no
\* WaitGroup counts below zero, the index stays in the buffer and there is
\* always an active validator.
THEOREM NodeTypes == Spec => []TypeOK
<1> DEFINE Saving == PartsInv /\ SaveInv /\ FilesInv
           Control == TorInv /\ UpdaterInv /\ ModelInv /\ FiguresInv /\ ListsInv
           Inv == Saving /\ Control /\ TypeInv
<1>1. Init => Inv
  <2>1. Init => ModelInv
    BY DEF Init, ControlInit, ModelInv
  <2>2. QED
    BY <2>1, PartsInit, SaveInit, FilesInitial, TorInit, UpdaterInit, FiguresInit, ListsInit, TypeInit
<1>2. Inv /\ [Next]_vars => Inv'
  <2>1. SUFFICES ASSUME Inv, [Next]_vars PROVE Inv'
    OBVIOUS
  <2>2. Saving'
    BY <2>1, PartsNext, SaveNext, FilesNext
  <2>3. ModelInv'
    BY <2>1, ModelStays DEF ModelInv, Imported
  <2>4. Control'
    BY <2>1, <2>3, TorNext, UpdaterNext, FiguresNext, ListsNext
  <2>5. TypeInv'
    BY <2>1, StepsNext, ChainNext, PlacesNext, UnusedNext DEF TypeInv
  <2>6. QED BY <2>2, <2>4, <2>5
<1>3. Inv => TypeOK
  BY TypesCorrect
<1> HIDE DEF Inv
<1>4. QED BY <1>1, <1>2, <1>3, PTL DEF Spec
=============================================================================
