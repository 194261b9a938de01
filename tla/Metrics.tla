------------------------------- MODULE Metrics -------------------------------
(***************************************************************************)
(* The metrics (metrics.go).  loopSumTx counts what the consensus and the  *)
(* pool report; loopTicker takes the counts every period, hands them to    *)
(* the control and starts a goroutine (an updater) that asks it for them   *)
(* again, reads the last two blocks, and keeps all that for a file.        *)
(* A block has one transaction here, so that blocks and committed          *)
(* transactions are counted in the same unit.                              *)
(***************************************************************************)
EXTENDS Saver, FiniteSets

CONSTANTS ChanCap  \* the capacity of the channels of loopSumTx: 100

ASSUME MetricsAssumption == ChanCap \in Nat \ {0}

VARIABLES
  cons,          \* what the consensus goroutine does
  lastBlock, secLastBlock,  \* the chain's pointers: sequence numbers
  pool,          \* whose transaction the loop of the pool is adding, or "idle"
  addCommittedTx, addReceivedTx, addCommittedBlock,  \* what the channels hold
  sums,          \* loopSumTx: the counts since it was last asked
  sumLoop,       \* "select" or "killed"
  ticker,        \* what loopTicker does
  now,           \* how many periods have ended
  period,        \* the counts of the last one
  throughputChan,  \* the updaters whose question is in the channel
  updaters,      \* what the updater of each period does and has read
  stack,         \* metricStackSave: its list, stop and WaitGroup
  metricFile,    \* the metrics last written to the file, and its length
  saves,         \* the goroutine that saves, and Close
  nbReceived, nbSave,                 \* bounds; the transactions received
  reported, spawnedAtStop, overlapped  \* history

sumVars == <<addCommittedTx, addReceivedTx, addCommittedBlock, sums, sumLoop>>
blockVars == <<sizeChain, lastBlock, secLastBlock>>
tickVars == <<ticker, now, period, throughputChan, reported>>
stackVars == <<updaters, stack, metricFile, saves, nbSave, spawnedAtStop, overlapped>>
poolVars == <<pool, nbReceived>>
metricVars == <<cons, lastBlock, secLastBlock, sumVars, tickVars, stackVars, poolVars>>

None == [committed |-> 0, received |-> 0, blocks |-> 0]
-----------------------------------------------------------------------------
(***************************************************************************)
(* What is counted, and loopSumTx.                                         *)
(***************************************************************************)
\* addBlock, one pointer after the other.
BeginBlock ==
  /\ cons = "idle" /\ lastBlock < start.maxBlock
  /\ secLastBlock' = lastBlock /\ cons' = "append"
  /\ UNCHANGED <<start, main, sizeChain, lastBlock, saveVars, sumVars, tickVars, stackVars,
                 poolVars>>

AppendBlock ==
  /\ cons = "append"
  /\ lastBlock' = lastBlock + 1 /\ sizeChain' = sizeChain + 1 /\ cons' = "countBlock"
  /\ UNCHANGED <<start, main, secLastBlock, saveVars, sumVars, tickVars, stackVars, poolVars>>

CountBlock ==
  /\ cons = "countBlock" /\ addCommittedBlock < ChanCap
  /\ addCommittedBlock' = addCommittedBlock + 1 /\ cons' = "flush"
  /\ UNCHANGED <<start, main, blockVars, saveVars, addCommittedTx, addReceivedTx, sums, sumLoop,
                 tickVars, stackVars, poolVars>>

CountTx ==
  /\ cons = "countTx" /\ addCommittedTx < ChanCap
  /\ addCommittedTx' = addCommittedTx + 1 /\ cons' = "idle"
  /\ UNCHANGED <<start, main, blockVars, saveVars, addReceivedTx, addCommittedBlock, sums,
                 sumLoop, tickVars, stackVars, poolVars>>

\* The loop of the pool adds one transaction at a time.
AddTransaction(who) ==
  /\ pool = "idle" /\ pool' = who
  /\ nbReceived' = nbReceived + 1

\* The consensus asks its pool: whether it is empty, for the transactions of a
\* block, or whether it has a transaction, and then to add it.  What an idle pool
\* is asked it answers at once, which changes nothing.
AskPool ==
  /\ cons = "idle" /\ cons' = "query"
  /\ \/ pool # "idle" /\ UNCHANGED poolVars
     \/ nbReceived < start.maxTx /\ AddTransaction("consensus")
  /\ UNCHANGED <<start, main, blockVars, saveVars, sumVars, tickVars, stackVars>>

PoolAnswers ==
  /\ cons = "query" /\ pool = "idle"
  /\ \/ cons' = "idle" /\ UNCHANGED poolVars
     \/ nbReceived < start.maxTx /\ AddTransaction("consensus") /\ UNCHANGED cons
  /\ UNCHANGED <<start, main, blockVars, saveVars, sumVars, tickVars, stackVars>>

\* RemoveTransaction of the block's transaction, which the loop only has to take.
RemoveTx ==
  /\ cons = "remove" /\ pool = "idle" /\ cons' = "countTx"
  /\ UNCHANGED <<start, main, blockVars, saveVars, sumVars, tickVars, stackVars, poolVars>>

\* The goroutine of the transactions adds one that it received.
ReceiveTx ==
  /\ nbReceived < start.maxTx /\ AddTransaction("handler")
  /\ UNCHANGED <<start, main, cons, blockVars, saveVars, sumVars, tickVars, stackVars>>

\* The loop of the pool counts what it has added; until then it serves nobody.
AddOneReceivedTx ==
  /\ addReceivedTx < ChanCap
  /\ addReceivedTx' = addReceivedTx + 1 /\ pool' = "idle"

CountReceived ==
  /\ pool \in {"handler", "consensus"} /\ AddOneReceivedTx
  /\ cons' = IF pool = "consensus" THEN "idle" ELSE cons
  /\ UNCHANGED <<start, main, blockVars, saveVars, addCommittedTx, addCommittedBlock, sums,
                 sumLoop, tickVars, stackVars, nbReceived>>

SumLoop ==
  /\ sumLoop = "select"
  /\ \/ /\ addCommittedTx > 0
        /\ addCommittedTx' = addCommittedTx - 1
        /\ sums' = [sums EXCEPT !.committed = @ + 1]
        /\ UNCHANGED <<addReceivedTx, addCommittedBlock>>
     \/ /\ addReceivedTx > 0
        /\ addReceivedTx' = addReceivedTx - 1
        /\ sums' = [sums EXCEPT !.received = @ + 1]
        /\ UNCHANGED <<addCommittedTx, addCommittedBlock>>
     \/ /\ addCommittedBlock > 0
        /\ addCommittedBlock' = addCommittedBlock - 1
        /\ sums' = [sums EXCEPT !.blocks = @ + 1]
        /\ UNCHANGED <<addCommittedTx, addReceivedTx>>
  /\ UNCHANGED <<start, main, cons, blockVars, saveVars, sumLoop, tickVars, stackVars, poolVars>>
-----------------------------------------------------------------------------
(***************************************************************************)
(* loopTicker and the updaters.                                            *)
(***************************************************************************)
\* Mutant: the counts are not started anew.
AfterSumKept == sums
AfterSum == None

\* getSumOfTx: loopSumTx answers as long as there is a ticker.
Tick ==
  /\ ticker = "select" /\ now < start.maxTick /\ sumLoop = "select"
  /\ now' = now + 1 /\ period' = sums /\ sums' = AfterSum
  /\ reported' = [c \in DOMAIN sums |-> reported[c] + sums[c]]
  /\ ticker' = "report"
  /\ UNCHANGED <<start, main, cons, blockVars, saveVars, addCommittedTx, addReceivedTx,
                 addCommittedBlock, sumLoop, throughputChan, stackVars, poolVars>>

\* metricStackSave.update, which looks at stop and then adds to the WaitGroup.
Update ==
  /\ ticker = "update"
  /\ ticker' = IF start.metrics /\ ~stack.stop THEN "spawn" ELSE "select"
  /\ UNCHANGED <<start, main, cons, blockVars, saveVars, sumVars, now, period, throughputChan,
                 reported, stackVars, poolVars>>
Spawn ==
  /\ ticker = "spawn"
  /\ ticker' = "select"
  /\ stack' = [stack EXCEPT !.wait = @ + 1]
  /\ updaters' = [updaters EXCEPT ![now].step = "last"]
  /\ UNCHANGED <<start, main, cons, blockVars, saveVars, sumVars, now, period, throughputChan,
                 reported, metricFile, saves, nbSave, spawnedAtStop, overlapped, poolVars>>

ServeThroughputs ==
  /\ ticker = "select" /\ throughputChan # <<>>
  /\ throughputChan' = Tail(throughputChan)
  /\ updaters' = [updaters EXCEPT ![Head(throughputChan)].step = "append"]
  /\ UNCHANGED <<start, main, cons, blockVars, saveVars, sumVars, ticker, now, period, reported,
                 stack, metricFile, saves, nbSave, spawnedAtStop, overlapped, poolVars>>

\* GetMetrics: the last block, and the one before it if there are two.
ReadBlock(u) ==
  /\ \/ /\ updaters[u].step = "last"
        /\ updaters' = [updaters EXCEPT ![u] =
             [step |-> IF lastBlock > 1 THEN "previous" ELSE "ask",
              last |-> lastBlock, previous |-> 0]]
     \/ /\ updaters[u].step = "previous"
        /\ updaters' = [updaters EXCEPT ![u] =
             [step |-> "ask", last |-> @.last, previous |-> secLastBlock]]
  /\ UNCHANGED <<start, main, cons, blockVars, saveVars, sumVars, tickVars, stack, metricFile,
                 saves, nbSave, spawnedAtStop, overlapped, poolVars>>

\* The channel has two places and is closed by Close.
ThroughputClosed == main \in {"killCons", "ended"}
AskThroughputs(u) ==
  /\ updaters[u].step = "ask"
  /\ IF ThroughputClosed THEN main' = "panic" /\ UNCHANGED <<updaters, throughputChan>>
     ELSE /\ Len(throughputChan) < 2
          /\ throughputChan' = Append(throughputChan, u)
          /\ updaters' = [updaters EXCEPT ![u].step = "answer"]
          /\ UNCHANGED main
  /\ UNCHANGED <<start, cons, blockVars, saveVars, sumVars, ticker, now, period, reported, stack,
                 metricFile, saves, nbSave, spawnedAtStop, overlapped, poolVars>>

\* A block that is its own predecessor took no time: its transactions per
\* second are infinite, which cannot be written as JSON.
Infinite(u) == updaters[u].last > 1 /\ updaters[u].previous = updaters[u].last
Keep(u) ==
  /\ updaters[u].step = "append"
  /\ updaters' = [updaters EXCEPT ![u].step = "done"]
  /\ stack' = [list |-> Append(stack.list, Infinite(u)), stop |-> stack.stop,
               wait |-> stack.wait - 1]
  /\ UNCHANGED <<start, main, cons, blockVars, saveVars, sumVars, tickVars, metricFile, saves,
                 nbSave, spawnedAtStop, overlapped, poolVars>>
-----------------------------------------------------------------------------
(***************************************************************************)
(* metricStackSave.Save, by a goroutine of the ticker and by Close.        *)
(***************************************************************************)
NoSave == [step |-> "no", size |-> 0]

StartSave ==
  /\ ticker = "select" /\ start.metrics /\ nbSave < start.maxSave
  /\ saves["ticker"] = NoSave
  /\ nbSave' = nbSave + 1
  /\ saves' = [saves EXCEPT !["ticker"].step = "create"]
  /\ overlapped' = (overlapped \/ main \in {"save", "killTicker"})
  /\ UNCHANGED <<start, main, cons, blockVars, saveVars, sumVars, tickVars, updaters, stack,
                 metricFile, spawnedAtStop, poolVars>>

Emptied == [written |-> 0, length |-> 0]

Save(s) ==
  /\ \/ /\ saves[s].step = "create"
        /\ metricFile' = Emptied
        /\ saves' = [saves EXCEPT ![s].step = "read"]
        /\ UNCHANGED main
     \/ /\ saves[s].step = "read"
        /\ IF \E i \in DOMAIN stack.list : stack.list[i]
             THEN main' = "panic" /\ UNCHANGED saves
             ELSE /\ saves' = [saves EXCEPT ![s] = [step |-> "write", size |-> Len(stack.list)]]
                  /\ UNCHANGED main
        /\ UNCHANGED metricFile
     \/ /\ saves[s].step = "write"
        /\ metricFile' = [written |-> saves[s].size,
                          length |-> IF metricFile.length > saves[s].size THEN metricFile.length
                                     ELSE saves[s].size]
        /\ saves' = [saves EXCEPT ![s] = NoSave]
        /\ main' = IF s = "close" THEN "killTicker" ELSE main
  /\ UNCHANGED <<start, cons, blockVars, saveVars, sumVars, tickVars, updaters, stack, nbSave,
                 spawnedAtStop, overlapped, poolVars>>
-----------------------------------------------------------------------------
(***************************************************************************)
(* Metrics.Close, step by step; the consensus is killed after it.          *)
(***************************************************************************)
Spawned == Cardinality({u \in DOMAIN updaters : updaters[u].step # "no"})

StopStack ==
  /\ main = "stop"
  /\ main' = IF start.metrics THEN "updates" ELSE "killTicker"
  /\ stack' = [stack EXCEPT !.stop = TRUE]
  /\ spawnedAtStop' = Spawned
  /\ UNCHANGED <<start, cons, blockVars, saveVars, sumVars, tickVars, updaters, metricFile, saves,
                 nbSave, overlapped, poolVars>>

\* Mutant: the updaters are not waited for.
UpdatedAlways == TRUE
Updated == stack.wait = 0

WaitUpdates ==
  /\ main = "updates" /\ Updated
  /\ main' = "save"
  /\ saves' = [saves EXCEPT !["close"].step = "create"]
  /\ overlapped' = (saves["ticker"] # NoSave)
  /\ UNCHANGED <<start, cons, blockVars, saveVars, sumVars, tickVars, updaters, stack, metricFile,
                 nbSave, spawnedAtStop, poolVars>>

KillTicker ==
  /\ main = "killTicker" /\ ticker = "select"
  /\ main' = "killSum" /\ ticker' = "killed"
  /\ UNCHANGED <<start, cons, blockVars, saveVars, sumVars, now, period, throughputChan, reported,
                 stackVars, poolVars>>

KillSum ==
  /\ main = "killSum" /\ sumLoop = "select"
  /\ main' = "killCons" /\ sumLoop' = "killed"
  /\ UNCHANGED <<start, cons, blockVars, saveVars, addCommittedTx, addReceivedTx,
                 addCommittedBlock, sums, tickVars, stackVars, poolVars>>

KillConsensus ==
  /\ main = "killCons" /\ cons = "idle"
  /\ main' = "ended" /\ cons' = "killed"
  /\ UNCHANGED <<start, blockVars, saveVars, sumVars, tickVars, stackVars, poolVars>>

MetricsInit ==
  /\ cons = "idle" /\ pool = "idle" /\ sizeChain = 1 /\ lastBlock = 0 /\ secLastBlock = 0
  /\ addCommittedTx = 0 /\ addReceivedTx = 0 /\ addCommittedBlock = 0
  /\ sums = None /\ sumLoop = "select" /\ ticker = "select" /\ now = 0 /\ period = None
  /\ throughputChan = <<>>
  /\ updaters = [u \in 1..start.maxTick |-> [step |-> "no", last |-> 0, previous |-> 0]]
  /\ stack = [list |-> <<>>, stop |-> FALSE, wait |-> 0]
  /\ metricFile = [written |-> 0, length |-> 0]
  /\ saves = [s \in {"ticker", "close"} |-> NoSave]
  /\ nbReceived = 0 /\ nbSave = 0
  /\ reported = None /\ spawnedAtStop = 0 /\ overlapped = FALSE

TickerLoop == Tick \/ Update \/ Spawn \/ ServeThroughputs
Updater(u) == ReadBlock(u) \/ AskThroughputs(u) \/ Keep(u)
CloseMetrics == StopStack \/ WaitUpdates \/ Save("close") \/ KillTicker \/ KillSum
-----------------------------------------------------------------------------
\* Whatever was executed or received is counted once: in a period that has been
\* reported, in the one that runs, or in a channel.
Counted ==
  /\ reported.blocks + sums.blocks + addCommittedBlock
       = lastBlock - (IF cons = "countBlock" THEN 1 ELSE 0)
  /\ reported.committed + sums.committed + addCommittedTx
       = lastBlock - (IF cons \in {"countBlock", "flush", "remove", "countTx"} THEN 1 ELSE 0)
  /\ reported.received + sums.received + addReceivedTx
       = nbReceived - (IF pool = "idle" THEN 0 ELSE 1)

\* Once Close has saved, the file is whole and has the metrics of every updater
\* that was started before it stopped them, unless the ticker was saving too.
MetricsKept ==
  (start.metrics /\ main \in {"killTicker", "killSum", "killCons", "ended"} /\ ~overlapped)
    => metricFile.written = metricFile.length /\ metricFile.written >= spawnedAtStop
=============================================================================
