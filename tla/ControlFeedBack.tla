--------------------------- MODULE ControlFeedBack ---------------------------
(***************************************************************************)
(* The feedback control (ControlFeedBack.go) and the selectors of the      *)
(* validator list it proposes (validatorSelector.go).  The ticker of the   *)
(* metrics hands controlLoop the counts of a period; the proposer, before  *)
(* it makes a block, waits until controlLoop has decided on an order and   *)
(* added it to the pool.                                                   *)
(***************************************************************************)
EXTENDS Metrics, ModelCmp, Validators, Functions

CONSTANTS
  BlockSize,  \* the transactions of a full block, as the 3D model takes them
  matAdj      \* CentricSelector: the distance between two nodes

ASSUME ControlAssumption ==
  /\ BlockSize \in Nat \ {0}
  /\ matAdj \in [Node -> [Node -> Nat]]
  /\ \A n, m \in Node : matAdj[n][m] = 0 <=> n = m

VARIABLES
  control,    \* what controlLoop does; the order it is adding to the pool
  tor,        \* its three FixTor: the periods they hold and currentIndex
  modelVal,   \* the model
  orders,     \* the orders in the pool
  active,     \* the active validators
  changedAt,  \* lastChange: the period in which they were changed
  nbOrder,    \* bound
  stale       \* history: how many periods before the last change the latest
              \* order was based on

controlVars == <<control, tor, modelVal, orders, active, changedAt, nbOrder, stale>>

NodeList == SortedList(Node)
NilKey == -1
-----------------------------------------------------------------------------
(***************************************************************************)
(* FixTor.  Sums over the periods of the buffer stand for the means: they  *)
(* are compared with each other and with zero, and with the throughputs of *)
(* a model given in the same unit.                                         *)
(***************************************************************************)
NewFixTor(size) ==
  [data |-> [i \in 0..size - 1 |-> [committed |-> 0, received |-> 0, blocks |-> 0, at |-> 0]],
   currentIndex |-> 0]

\* Mutant: the buffer does not turn.
NextIndexOn == tor.currentIndex + 1
NextIndex == (tor.currentIndex + 1) % start.buffer

AppendPeriod(counts) ==
  [data |-> [tor.data EXCEPT ![tor.currentIndex] =
      [committed |-> counts.committed, received |-> counts.received, blocks |-> counts.blocks,
       at |-> now]],
   currentIndex |-> NextIndex]

SumOf(c) == SumFunction([i \in DOMAIN tor.data |-> tor.data[i][c]])
committedThroughput == SumOf("committed")
emittedThroughput == SumOf("received")
blockThroughput == SumOf("blocks")
-----------------------------------------------------------------------------
(***************************************************************************)
(* The laws: what to change the number of validators by.                   *)
(***************************************************************************)
\* oneValidatorControl: within a tenth, one more.
OneValidator ==
  LET gap == committedThroughput - emittedThroughput
  IN IF 10 * (IF gap < 0 THEN -gap ELSE gap) < committedThroughput THEN 1 ELSE -1

\* HysteresisControl, with the opposite signs and a band of 0.1 +- delta.
Hysteresis ==
  LET gap == emittedThroughput - committedThroughput
  IN IF 100 * gap > 15 * committedThroughput THEN 1
     ELSE IF 100 * gap < 5 * committedThroughput THEN -1 ELSE 0

\* GetIdealNbVal of the model: 0 for no opinion.
IdealNbVal ==
  CASE start.model.kind = "Nul" -> 0
    [] start.model.kind = "2D" -> Ideal2D(modelVal, emittedThroughput)
    [] start.model.kind = "3D" ->
         Ideal3D(modelVal, emittedThroughput, blockThroughput * BlockSize, Cardinality(active))

\* The 3D model is indexed past its end for more validators than it lists.
ModelPanics ==
  /\ start.control = "ModelComparison" /\ start.model.kind = "3D"
  /\ NbValIndex(modelVal, Cardinality(active)) > Len(modelVal.listVal)

\* The size of the list to ask for.
NewSize ==
  CASE start.control = "OneValidator" -> Cardinality(active) + OneValidator
    [] start.control = "Hysteresis" -> Cardinality(active) + Hysteresis
    [] start.control = "ModelComparison" -> IdealNbVal
-----------------------------------------------------------------------------
(***************************************************************************)
(* The selectors: the lists of a size that may be proposed.  Slicing the   *)
(* nodes further than they go panics; PivotSelector does not.              *)
(***************************************************************************)
\* Mutant: it slices to the size it is asked for, too.
PivotListsSliced(size) ==
  IF size <= Cardinality(Node) THEN {[i \in 1..size |-> NodeList[i]]} ELSE {}
PivotLists(size) ==
  {[i \in 1..size |-> IF i <= Cardinality(Node) THEN NodeList[i] ELSE NilKey]}

RandomLists(size) ==
  {list \in [1..size -> Node] : \A i, j \in 1..size : i # j => list[i] # list[j]}

\* selectCenter: the active validator nearest to all of them, the first of equals.
DistanceToActive(n) == SumFunction([m \in active |-> matAdj[n][m]])
Center ==
  LET nearest == {n \in active : \A m \in active : DistanceToActive(n) <= DistanceToActive(m)}
  IN Smallest(nearest)

\* Only the centre is at distance 0.  The others follow by their distance times
\* a factor that grows with the time they have been validators: in any order.
CentricLists(size) ==
  {list \in RandomLists(size) : size > 0 => list[1] = Center}

Proposals(size) ==
  CASE start.selector = "Pivot" -> PivotLists(size)
    [] start.selector = "Random" -> RandomLists(size)
    [] start.selector = "Centric" -> CentricLists(size)

\* The lists of an order; none when controlLoop panics over it.
Proposed == IF ModelPanics THEN {} ELSE Proposals(NewSize)
-----------------------------------------------------------------------------
(***************************************************************************)
(* controlLoop and the consensus.                                          *)
(***************************************************************************)
HandPeriod ==
  /\ ticker = "report" /\ control.step = "select"
  /\ ticker' = "update" /\ tor' = AppendPeriod(period)
  /\ UNCHANGED <<start, main, cons, blockVars, saveVars, sumVars, now, period, throughputChan,
                 reported, stackVars, poolVars, control, modelVal, orders, active, changedAt,
                 nbOrder, stale>>

\* CheckControl of the proposer, which then asks its pool.  (Without an
\* instruction it changes nothing.)
CheckControl ==
  /\ cons = "idle" /\ start.control # "none" /\ nbOrder < start.maxOrder
  /\ cons' = "asked"
  /\ UNCHANGED <<start, main, blockVars, saveVars, sumVars, tickVars, stackVars, poolVars,
                 controlVars>>

\* Mutant: the order does not wait until the periods of the buffer are over.
OlderThanEarly == {now >= changedAt}
\* IsOlderThan(controlPeriod), with the time counted in the ends of periods.
OlderThan ==
  IF now - changedAt > start.buffer THEN {TRUE}
  ELSE IF now - changedAt = start.buffer THEN BOOLEAN ELSE {FALSE}

\* makeOrder.
MakeOrder ==
  /\ cons = "asked" /\ control.step = "select"
  /\ \E older \in OlderThan :
       IF older /\ emittedThroughput # 0 /\ committedThroughput # 0
         THEN /\ stale' = Cardinality({i \in DOMAIN tor.data : tor.data[i].at <= changedAt})
              /\ nbOrder' = nbOrder + 1
              /\ \/ /\ \E list \in Proposed : control' = [step |-> "adding", list |-> list]
                    /\ UNCHANGED main
                 \/ /\ Proposed = {}
                    /\ main' = "panic" /\ control' = [step |-> "panic"]
              /\ UNCHANGED cons
         ELSE cons' = "query" /\ UNCHANGED <<main, control, nbOrder, stale>>
  /\ UNCHANGED <<start, blockVars, saveVars, sumVars, tickVars, stackVars, poolVars, tor,
                 modelVal, orders, active, changedAt>>

\* ReceiveTrustedMess: the pool adds the order, and counts it as received.
AddOrder ==
  /\ control.step = "adding" /\ AddTransaction("control")
  /\ orders' = orders \cup {[nb |-> nbOrder, list |-> control.list]}
  /\ UNCHANGED <<start, main, cons, blockVars, saveVars, sumVars, tickVars, stackVars, control, tor,
                 modelVal, active, changedAt, nbOrder, stale>>

OrderAdded ==
  /\ pool = "control" /\ AddOneReceivedTx
  /\ control' = [step |-> "select"] /\ cons' = "query"
  /\ UNCHANGED <<start, main, blockVars, saveVars, addCommittedTx, addCommittedBlock, sums,
                 sumLoop, tickVars, stackVars, nbReceived, tor, modelVal, orders, active,
                 changedAt, nbOrder, stale>>

\* SetNewListOfValidator.
Accepted(list) == IsSizeValid(Len(list)) /\ CheckIfValidatorsAreNodes(list)

\* flushTransaction: the block may have one of the orders.  A list that is
\* refused leaves lastChange as it was.
Flush ==
  /\ cons = "flush"
  /\ cons' = "remove"
  /\ \/ UNCHANGED <<orders, active, changedAt>>
     \/ \E o \in orders :
          /\ orders' = orders \ {o}
          /\ active' = IF Accepted(o.list) THEN Keys(o.list) ELSE active
          /\ changedAt' = IF Accepted(o.list) THEN now ELSE changedAt
  /\ UNCHANGED <<start, main, blockVars, saveVars, sumVars, tickVars, stackVars, poolVars,
                 control, tor, modelVal, nbOrder, stale>>

Imported(model) ==
  CASE model.kind = "Nul" -> <<>>
    [] model.kind = "2D" -> Import2D(model.table)
    [] model.kind = "3D" -> Import3D(model.table)

ControlInit ==
  /\ control = [step |-> "select"] /\ tor = NewFixTor(start.buffer)
  /\ modelVal = Imported(start.model)
  /\ orders = {} /\ active = Node /\ changedAt = 0 /\ nbOrder = 0 /\ stale = 0
-----------------------------------------------------------------------------
\* An order is based on the periods since the validators were last changed, but
\* for one at most: the one whose successor controlLoop has not been handed yet.
StaleAtMostOne == stale <= 1

\* controlLoop panics for a list longer than there are nodes, which the pivot
\* selector fills up, or for more validators than the model has measured.
PanicsBeyond ==
  control.step = "panic" =>
    \/ /\ start.model.kind = "3D"
       /\ \A l \in DOMAIN start.model.table : start.model.table[l].nbValid < Cardinality(active)
    \/ start.selector # "Pivot" /\ NewSize > Cardinality(Node)

\* What is imported is the table without what is no use: in two dimensions the
\* lines worthwhile, in three the best of what is as hard or harder.
ImportSound ==
  /\ start.model.kind = "2D" =>
       /\ Keys(modelVal) = Worthwhile(start.model.table)
       /\ \A i, j \in DOMAIN modelVal : i < j => modelVal[i].throughput > modelVal[j].throughput
  /\ start.model.kind = "3D" =>
       \A i \in DOMAIN modelVal.listVal, j \in DOMAIN modelVal.listLag :
         modelVal.mesh[i][j] =
           Throughput3D(start.model.table, modelVal.listVal[i], modelVal.listLag[j])

\* The model names the most validators that sustain the request, and never fewer
\* than do as well as the fewest.
IdealSound ==
  LET table == start.model.table
      Asked == 0..Largest({0} \cup {table[l].throughput : l \in DOMAIN table}) + 1
      Sizes == Keys(modelVal.listVal)
  IN /\ start.model.kind = "2D" =>
          \A r \in Asked : Ideal2D(modelVal, r) = MostValidators2D(table, r)
     /\ start.model.kind = "3D" =>
          \A r, c \in Asked, v \in Sizes :
            Ideal3D(modelVal, r, c, v) =
              MostValidators3D(table, r, modelVal.listLag[LatencyIndex(modelVal, v, c)])

\* Both: the model says of the table what it should.
ModelSound == ImportSound /\ IdealSound
=============================================================================
