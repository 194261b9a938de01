--------------------------- MODULE TxPool_proofs ----------------------------
(***************************************************************************)
(* Proofs about the transaction pool, for any transactions, threshold and  *)
(* capacity of the stop channel: transactionHandler is told what it must   *)
(* know, in the right order; what leaves the pool has a reason to; the map *)
(* and the list stay the same set, unless both goroutines add the same     *)
(* transaction; and how late the loop and transactionHandler can get stuck.*)
(***************************************************************************)
EXTENDS TxPool, FiniteSetTheorems, SequenceTheorems, WellFoundedInduction, TLAPS

-----------------------------------------------------------------------------
(***************************************************************************)
(* StopInv.  Told grows at its end by the opposite of what the pool had    *)
(* decided, and shrinks at its start.                                      *)
(***************************************************************************)
StopShape ==
  /\ behavior \in {"Nothing", "Ignore", "Drop"}
  /\ transactions \subseteq Tx /\ Cardinality(transactions) <= Threshold
  /\ status \in BOOLEAN /\ addTx \in BOOLEAN
  /\ stopChan \in Seq(BOOLEAN) /\ loop \in {"select", "tell"}

StopIInv == StopShape /\ StopInv

\* Told, entry by entry.
ToldOf(a, q, l, s) == <<a>> \o q \o (IF l = "tell" THEN <<s>> ELSE <<>>)

LEMMA ToldEntries ==
  ASSUME NEW a \in BOOLEAN, NEW q \in Seq(BOOLEAN), NEW l, NEW s \in BOOLEAN
  PROVE  /\ ToldOf(a, q, l, s) \in Seq(BOOLEAN)
         /\ Len(ToldOf(a, q, l, s)) = Len(q) + (IF l = "tell" THEN 2 ELSE 1)
         /\ ToldOf(a, q, l, s)[1] = a
         /\ \A i \in 1..Len(q) : ToldOf(a, q, l, s)[i + 1] = q[i]
         /\ l = "tell" => ToldOf(a, q, l, s)[Len(q) + 2] = s
<1>1. CASE l = "tell"
  <2>1. ToldOf(a, q, l, s) = <<a>> \o q \o <<s>>
    BY <1>1 DEF ToldOf
  <2> DEFINE r == <<a>> \o q
  <2>2. /\ r \in Seq(BOOLEAN) /\ Len(r) = Len(q) + 1 /\ r[1] = a
        /\ \A i \in 1..Len(q) : r[i + 1] = q[i]
    OBVIOUS
  <2> HIDE DEF r
  <2>3. /\ r \o <<s>> \in Seq(BOOLEAN) /\ Len(r \o <<s>>) = Len(r) + 1
        /\ (r \o <<s>>)[Len(r) + 1] = s /\ \A i \in 1..Len(r) : (r \o <<s>>)[i] = r[i]
    BY <2>2
  <2>4. ToldOf(a, q, l, s) = r \o <<s>>
    BY <2>1 DEF r
  <2>5. \A i \in 1..Len(q) : i + 1 \in 1..Len(r)
    BY <2>2
  <2>6. 1 \in 1..Len(r) /\ Len(r) + 1 = Len(q) + 2
    BY <2>2
  <2>7. QED BY <1>1, <2>2, <2>3, <2>4, <2>5, <2>6
<1>2. CASE l # "tell"
  <2>1. ToldOf(a, q, l, s) = <<a>> \o q
    BY <1>2 DEF ToldOf
  <2>2. QED BY <1>2, <2>1
<1>3. QED BY <1>1, <1>2

LEMMA ToldIs == Told = ToldOf(addTx, stopChan, loop, status)
  BY DEF Told, ToldOf

\* The loop decides something new: Told is one longer, and still alternates.
LEMMA TellsInOrder ==
  ASSUME StopShape, StopInOrder, loop = "select", NEW new \in BOOLEAN, NEW h,
         TellIfContinu(new, h), UNCHANGED <<behavior, addTx>>,
         transactions' \subseteq Tx, Cardinality(transactions') <= Threshold
  PROVE  StopShape' /\ StopInOrder' /\ status' = new
<1>1. CASE status = new
  <2>1. UNCHANGED stopVars
    BY <1>1 DEF TellIfContinu
  <2>2. StopShape' /\ Told' = Told
    BY <2>1 DEF StopShape, stopVars, Told
  <2>3. QED BY <1>1, <2>1, <2>2 DEF StopInOrder, stopVars
<1>2. CASE status # new
  <2>1. /\ status' = new
        /\ \/ stopChan' = Append(stopChan, new) /\ loop' = "select"
           \/ stopChan' = stopChan /\ loop' = "tell"
    BY <1>2 DEF TellIfContinu
  <2>2. stopChan' \in Seq(BOOLEAN)
    BY <2>1 DEF StopShape
  <2>3. StopShape'
    BY <2>1, <2>2 DEF StopShape
  <2>4. /\ Told \in Seq(BOOLEAN) /\ Len(Told) = Len(stopChan) + 1
        /\ Told[1] = addTx /\ \A i \in 1..Len(stopChan) : Told[i + 1] = stopChan[i]
    BY ToldIs, ToldEntries DEF StopShape
  <2>5. /\ Told' \in Seq(BOOLEAN)
        /\ Len(Told') = Len(stopChan') + (IF loop' = "tell" THEN 2 ELSE 1)
        /\ Told'[1] = addTx' /\ \A i \in 1..Len(stopChan') : Told'[i + 1] = stopChan'[i]
        /\ loop' = "tell" => Told'[Len(stopChan') + 2] = status'
    <3>1. Told' = ToldOf(addTx', stopChan', loop', status')
      BY DEF Told, ToldOf
    <3>2. QED BY <2>3, <3>1, ToldEntries DEF StopShape
  <2>6. Len(stopChan) \in Nat
    BY DEF StopShape
  <2>7. /\ Len(Told') = Len(Told) + 1 /\ Told'[Len(Told) + 1] = new
        /\ \A i \in 1..Len(Told) : Told'[i] = Told[i]
    <3>1. CASE stopChan' = Append(stopChan, new) /\ loop' = "select"
      <4>1. /\ Len(stopChan') = Len(stopChan) + 1 /\ stopChan'[Len(stopChan) + 1] = new
            /\ \A i \in 1..Len(stopChan) : stopChan'[i] = stopChan[i]
        BY <3>1 DEF StopShape
      <4>2. ASSUME NEW i \in 1..Len(Told) PROVE Told'[i] = Told[i]
        <5>1. CASE i = 1
          BY <2>4, <2>5, <5>1
        <5>2. CASE i # 1
          <6>1. i - 1 \in 1..Len(stopChan) /\ i - 1 \in 1..Len(stopChan') /\ (i - 1) + 1 = i
            BY <2>4, <2>6, <4>1, <5>2
          <6>2. QED BY <2>4, <2>5, <4>1, <6>1
        <5>3. QED BY <5>1, <5>2
      <4>3. Len(Told) \in 1..Len(stopChan')
        BY <2>4, <2>6, <4>1
      <4>4. QED BY <2>4, <2>5, <2>6, <3>1, <4>1, <4>2, <4>3
    <3>2. CASE stopChan' = stopChan /\ loop' = "tell"
      <4>1. ASSUME NEW i \in 1..Len(Told) PROVE Told'[i] = Told[i]
        <5>1. CASE i = 1
          BY <2>4, <2>5, <5>1
        <5>2. CASE i # 1
          <6>1. i - 1 \in 1..Len(stopChan) /\ (i - 1) + 1 = i
            BY <2>4, <2>6, <5>2
          <6>2. QED BY <2>4, <2>5, <3>2, <6>1
        <5>3. QED BY <5>1, <5>2
      <4>2. QED BY <2>1, <2>4, <2>5, <2>6, <3>2, <4>1
    <3>3. QED BY <2>1, <3>1, <3>2
  <2>8. Told[Len(Told)] = ~new
    BY <1>2 DEF StopInOrder, StopShape
  <2>9. StopInOrder'
    <3>1. ASSUME NEW i \in 1..Len(Told') - 1 PROVE Told'[i + 1] = ~Told'[i]
      <4>1. CASE i = Len(Told)
        BY <2>7, <2>8, <4>1, <2>4, <2>6
      <4>2. CASE i # Len(Told)
        <5>1. i \in 1..Len(Told) - 1 /\ i \in 1..Len(Told) /\ i + 1 \in 1..Len(Told)
          BY <2>4, <2>6, <2>7, <3>1, <4>2
        <5>2. Told[i + 1] = ~Told[i]
          BY <5>1 DEF StopInOrder
        <5>3. QED BY <2>7, <5>1, <5>2
      <4>3. QED BY <4>1, <4>2
    <3>2. Told'[Len(Told')] = status'
      BY <2>1, <2>7
    <3>3. QED BY <3>1, <3>2 DEF StopInOrder
  <2>10. QED BY <2>1, <2>3, <2>9
<1>3. QED BY <1>1, <1>2

\* A quarter of the places is less than all of them.
LEMMA QuarterLess == (Threshold * 3) \div 4 \in Nat /\ (Threshold * 3) \div 4 < Threshold
<1>1. Threshold \in Nat /\ Threshold > 0
  BY TxPoolAssumption
<1>2. \A n \in Nat : n > 0 => (n * 3) \div 4 \in Nat /\ (n * 3) \div 4 < n
  OBVIOUS
<1>3. QED BY <1>1, <1>2

LEMMA StopStays ==
  ASSUME StopIInv, UNCHANGED <<behavior, transactions, stopVars, addTx>>
  PROVE  StopIInv'
<1>1. Told' = Told
  BY DEF Told, stopVars
<1>2. QED BY <1>1 DEF StopIInv, StopShape, StopInv, StopInOrder, PausedWhenFull, stopVars

\* The set of the pool and its size, which only the loop changes.
LEMMA PoolSize == ASSUME StopShape PROVE IsFiniteSet(transactions) /\ Cardinality(transactions) \in Nat
  BY TxPoolAssumption, FS_Subset, FS_CardinalityType DEF StopShape

\* transactionHandler takes the oldest entry of Told.
LEMMA ReadStopKeeps == ASSUME StopIInv, ReadStop PROVE StopIInv'
<1>1. /\ stopChan # <<>> /\ addTx' = stopChan[1] /\ stopChan' = Tail(stopChan)
      /\ UNCHANGED <<behavior, transactions, status, loop>>
  BY DEF ReadStop, poolVars
<1>2. /\ stopChan \in Seq(BOOLEAN) /\ Len(stopChan) \in Nat /\ Len(stopChan) > 0
  BY <1>1 DEF StopIInv, StopShape
<1>3. /\ addTx' \in BOOLEAN /\ stopChan' \in Seq(BOOLEAN) /\ Len(stopChan') = Len(stopChan) - 1
      /\ \A i \in 1..Len(stopChan') : stopChan'[i] = stopChan[i + 1]
  BY <1>1, <1>2
<1>4. StopShape'
  BY <1>1, <1>3 DEF StopIInv, StopShape
<1>5. /\ Told \in Seq(BOOLEAN)
      /\ Len(Told) = Len(stopChan) + (IF loop = "tell" THEN 2 ELSE 1)
      /\ \A i \in 1..Len(stopChan) : Told[i + 1] = stopChan[i]
      /\ loop = "tell" => Told[Len(stopChan) + 2] = status
  BY ToldIs, ToldEntries DEF StopIInv, StopShape
<1>6. /\ Told' \in Seq(BOOLEAN)
      /\ Len(Told') = Len(stopChan') + (IF loop' = "tell" THEN 2 ELSE 1)
      /\ Told'[1] = addTx' /\ \A i \in 1..Len(stopChan') : Told'[i + 1] = stopChan'[i]
      /\ loop' = "tell" => Told'[Len(stopChan') + 2] = status'
  <2>1. Told' = ToldOf(addTx', stopChan', loop', status')
    BY DEF Told, ToldOf
  <2>2. QED BY <1>4, <2>1, ToldEntries DEF StopShape
<1>7. Len(Told) = Len(Told') + 1 /\ Len(Told') \in Nat /\ Len(Told') > 0
  BY <1>1, <1>2, <1>3, <1>5, <1>6
<1>8. ASSUME NEW i \in 1..Len(Told') PROVE Told'[i] = Told[i + 1]
  <2>1. CASE i = 1
    <3>1. 1 \in 1..Len(stopChan)
      BY <1>2
    <3>2. QED BY <1>1, <1>5, <1>6, <2>1, <3>1
  <2>2. CASE i # 1 /\ i - 1 \in 1..Len(stopChan')
    <3>1. /\ i - 1 \in 1..Len(stopChan') /\ (i - 1) + 1 = i
          /\ i \in 1..Len(stopChan)
      BY <1>2, <1>3, <2>2
    <3>2. QED BY <1>3, <1>5, <1>6, <3>1
  <2>3. CASE i # 1 /\ i - 1 \notin 1..Len(stopChan')
    <3>1. loop' = "tell" /\ i = Len(stopChan') + 2
      BY <1>2, <1>3, <1>6, <2>3
    <3>2. i + 1 = Len(stopChan) + 2
      BY <1>2, <1>3, <3>1
    <3>3. QED BY <1>1, <1>5, <1>6, <3>1, <3>2
  <2>4. QED BY <2>1, <2>2, <2>3
<1>9. StopInOrder'
  <2>1. ASSUME NEW i \in 1..Len(Told') - 1 PROVE Told'[i + 1] = ~Told'[i]
    <3>1. /\ i \in 1..Len(Told') /\ i + 1 \in 1..Len(Told')
          /\ i + 1 \in 1..Len(Told) - 1 /\ (i + 1) + 1 \in Nat
      BY <1>7
    <3>2. Told[(i + 1) + 1] = ~Told[i + 1]
      BY <3>1 DEF StopIInv, StopInv, StopInOrder
    <3>3. QED BY <1>8, <3>1, <3>2
  <2>2. Told'[Len(Told')] = status'
    <3>1. Len(Told') \in 1..Len(Told')
      BY <1>7
    <3>2. QED BY <1>1, <1>7, <1>8, <3>1 DEF StopIInv, StopInv, StopInOrder
  <2>3. QED BY <2>1, <2>2 DEF StopInOrder
<1>10. PausedWhenFull'
  BY <1>1 DEF StopIInv, StopInv, PausedWhenFull
<1>11. QED BY <1>4, <1>9, <1>10 DEF StopIInv, StopInv

\* What the loop was about to send is in the channel: Told is the same.
LEMMA SendStopKeeps == ASSUME StopIInv, SendStop PROVE StopIInv'
<1>1. /\ loop = "tell" /\ stopChan' = Append(stopChan, status) /\ loop' = "select"
      /\ UNCHANGED <<behavior, transactions, status, addTx>>
  BY DEF SendStop, poolVars
<1>2. stopChan \in Seq(BOOLEAN) /\ status \in BOOLEAN /\ addTx \in BOOLEAN
  BY DEF StopIInv, StopShape
<1>3. StopShape'
  BY <1>1, <1>2 DEF StopIInv, StopShape
<1>4. Told' = Told
  <2>1. Told' = <<addTx>> \o Append(stopChan, status) \o <<>>
    BY <1>1 DEF Told
  <2>2. Told = <<addTx>> \o stopChan \o <<status>>
    BY <1>1 DEF Told
  <2>3. <<addTx>> \o Append(stopChan, status) \o <<>> = <<addTx>> \o stopChan \o <<status>>
    BY <1>2
  <2>4. QED BY <2>1, <2>2, <2>3
<1>5. QED BY <1>1, <1>3, <1>4 DEF StopIInv, StopInv, StopInOrder, PausedWhenFull

\* The pool grows to its limit at most, and says so when it is reached.
LEMMA AddKeeps ==
  ASSUME StopIInv, loop = "select", NEW t \in Item, NEW h, Add(t, h),
         UNCHANGED <<behavior, addTx>>
  PROVE  StopIInv'
<1>1. CASE Full(t) \/ t \in Command
  BY <1>1, StopStays DEF Add, Refuse, poolVars
<1>2. CASE ~Full(t) /\ t \notin Command
  <2> DEFINE map == transactions \cup {t}
             reached == Cardinality(map) = Threshold
  <2>1. t \in Tx /\ Cardinality(transactions) < Threshold
    BY <1>2, PoolSize, TxPoolAssumption DEF Full, Item, StopIInv
  <2>2. /\ map \subseteq Tx /\ IsFiniteSet(map) /\ Cardinality(map) \in Nat
        /\ Cardinality(transactions) <= Cardinality(map) /\ Cardinality(map) <= Threshold
    <3>1. IsFiniteSet(transactions) /\ Cardinality(transactions) \in Nat
      BY PoolSize DEF StopIInv
    <3>2. /\ IsFiniteSet(map)
          /\ Cardinality(map) = IF t \in transactions THEN Cardinality(transactions)
                                ELSE Cardinality(transactions) + 1
      BY <3>1, FS_AddElement
    <3>3. map \subseteq Tx
      BY <2>1 DEF StopIInv, StopShape
    <3>4. QED BY <2>1, <3>1, <3>2, <3>3, TxPoolAssumption
  <2>3. /\ IF behavior = "Drop" /\ reached THEN AlmostClear(map) ELSE transactions' = map
        /\ IF behavior = "Ignore" /\ reached THEN TellIfContinu(FALSE, h) ELSE UNCHANGED stopVars
    BY <1>2 DEF Add
  <2> HIDE DEF map
  <2>4. /\ transactions' \subseteq map
        /\ behavior = "Drop" \/ transactions' = map
    BY <2>3 DEF AlmostClear
  <2>5. transactions' \subseteq Tx /\ Cardinality(transactions') <= Threshold
    <3>1. Cardinality(transactions') <= Cardinality(map) /\ Cardinality(transactions') \in Nat
      BY <2>2, <2>4, FS_Subset, FS_CardinalityType
    <3>2. QED BY <2>2, <2>4, <3>1, TxPoolAssumption
  <2>6. CASE behavior = "Ignore" /\ reached
    <3>1. StopShape' /\ StopInOrder' /\ status' = FALSE
      BY <2>3, <2>5, <2>6, TellsInOrder DEF StopIInv, StopInv
    <3>2. Cardinality(transactions') = Threshold
      BY <2>4, <2>6
    <3>3. QED BY <2>6, <3>1, <3>2, QuarterLess, TxPoolAssumption
          DEF StopIInv, StopInv, PausedWhenFull
  <2>7. CASE ~(behavior = "Ignore" /\ reached)
    <3>1. UNCHANGED stopVars
      BY <2>3, <2>7
    <3>2. StopShape' /\ Told' = Told
      BY <2>5, <3>1 DEF StopIInv, StopShape, stopVars, Told
    <3>3. PausedWhenFull'
      <4>1. CASE behavior = "Ignore"
        <5>1. Cardinality(transactions') < Threshold
          BY <2>2, <2>4, <2>7, <4>1, TxPoolAssumption
        <5>2. Cardinality(transactions) <= Cardinality(transactions')
          BY <2>2, <2>4, <4>1
        <5>3. Cardinality(transactions) \in Nat /\ Cardinality(transactions') \in Nat
          BY <2>2, <2>4, <4>1, PoolSize DEF StopIInv
        <5>4. QED BY <3>1, <4>1, <5>1, <5>2, <5>3, QuarterLess
              DEF StopIInv, StopInv, PausedWhenFull, stopVars
      <4>2. CASE behavior # "Ignore"
        BY <3>1, <4>2 DEF StopIInv, StopInv, PausedWhenFull, stopVars
      <4>3. QED BY <4>1, <4>2
    <3>4. QED BY <3>1, <3>2, <3>3 DEF StopIInv, StopInv, StopInOrder, stopVars
  <2>8. QED BY <2>6, <2>7
<1>3. QED BY <1>1, <1>2

\* The pool shrinks, and says so when a quarter of it is free.
LEMMA RemoveKeeps ==
  ASSUME StopIInv, loop = "select", NEW t, Remove(t), UNCHANGED <<behavior, addTx>>
  PROVE  StopIInv'
<1>1. CASE t \in Command
  BY <1>1, StopStays DEF Remove
<1>2. CASE t \notin Command
  <2> DEFINE rest == transactions \ {t}
             told == behavior = "Ignore" /\ ~status /\ QuarterFree(Cardinality(rest))
  <2>1. /\ transactions' = rest
        /\ IF told THEN TellIfContinu(TRUE, "none") ELSE UNCHANGED stopVars
    BY <1>2 DEF Remove, Removed
  <2>2. /\ rest \subseteq Tx /\ Cardinality(rest) \in Nat /\ Cardinality(transactions) \in Nat
        /\ Cardinality(rest) <= Cardinality(transactions) /\ Cardinality(rest) <= Threshold
    <3>1. IsFiniteSet(transactions) /\ Cardinality(transactions) \in Nat
      BY PoolSize DEF StopIInv
    <3>2. Cardinality(rest) = IF t \in transactions THEN Cardinality(transactions) - 1
                              ELSE Cardinality(transactions)
      BY <3>1, FS_RemoveElement
    <3>3. IsFiniteSet(rest) /\ Cardinality(rest) \in Nat
      BY <3>1, FS_RemoveElement, FS_CardinalityType
    <3>4. rest \subseteq Tx /\ Cardinality(transactions) <= Threshold
      BY DEF StopIInv, StopShape
    <3>5. QED BY <3>1, <3>2, <3>3, <3>4, TxPoolAssumption
  <2> HIDE DEF rest
  <2>3. CASE told
    <3>1. StopShape' /\ StopInOrder' /\ status' = TRUE
      BY <2>1, <2>2, <2>3, TellsInOrder DEF StopIInv, StopInv
    <3>2. Cardinality(transactions') < Threshold
      BY <2>1, <2>2, <2>3, QuarterLess, TxPoolAssumption DEF QuarterFree
    <3>3. QED BY <2>3, <3>1, <3>2 DEF StopIInv, StopInv, PausedWhenFull
  <2>4. CASE ~told
    <3>1. UNCHANGED stopVars
      BY <2>1, <2>4
    <3>2. StopShape' /\ Told' = Told
      BY <2>1, <2>2, <3>1 DEF StopIInv, StopShape, stopVars, Told
    <3>3. PausedWhenFull'
      BY <2>1, <2>2, <2>4, <3>1, QuarterLess, TxPoolAssumption
      DEF StopIInv, StopInv, PausedWhenFull, QuarterFree, stopVars
    <3>4. QED BY <3>1, <3>2, <3>3 DEF StopIInv, StopInv, StopInOrder, stopVars
  <2>5. QED BY <2>3, <2>4
<1>3. QED BY <1>1, <1>2

LEMMA StopInit == Init => StopIInv
<1> SUFFICES ASSUME Init PROVE StopIInv
  OBVIOUS
<1>1. /\ behavior \in Behaviors /\ transactions = {} /\ status = TRUE /\ addTx = TRUE
      /\ stopChan = <<>> /\ loop = "select"
  BY DEF Init
<1>2. Cardinality(transactions) = 0
  BY <1>1, FS_EmptySet
<1>3. StopShape
  BY <1>1, <1>2, TxPoolAssumption DEF StopShape
<1>4. Told = <<TRUE>>
  BY <1>1 DEF Told
<1>5. StopInOrder
  BY <1>1, <1>4 DEF StopInOrder
<1>6. PausedWhenFull
  BY <1>1, <1>2, TxPoolAssumption DEF PausedWhenFull
<1>7. QED BY <1>3, <1>5, <1>6 DEF StopIInv, StopInv

-----------------------------------------------------------------------------
(***************************************************************************)
(* UseInv.  Who uses the pool, with what, and why a command leaves it.     *)
(***************************************************************************)
Reason(c) == HasExecuted(c) \/ c \in Proposed \/ c \in Invalid
ToCome(x) == \E j \in DOMAIN toFlush : toFlush[j] = x

UseInv ==
  /\ transactions \subseteq Tx /\ commands \subseteq Command /\ list \in Seq(Tx)
  /\ inbox \in [Handler -> SUBSET Item] /\ inHand \in [Handler -> Item \cup {NoItem}]
  /\ pc \in [Handler -> {"idle", "exists", "chain", "add", "added", "remove"}]
  /\ \A h \in Handler : pc[h] \notin {"idle", "remove"} => inHand[h] \in Item
  /\ block \in Seq(Item) \cup {NoBlock} /\ toFlush \in Seq(Item) \cup {NoBlock}
  /\ executed \in Seq(Item) /\ foreign \subseteq Seq(Item)
  /\ pc["tx"] # "remove"
  /\ pc["cons"] = "remove" => Flushing /\ toFlush # <<>> /\ HasExecuted(Head(toFlush))
  /\ Flushing /\ block # NoBlock =>
       \A i \in DOMAIN block : HasExecuted(block[i]) \/ ToCome(block[i])
  /\ doomed \subseteq Command /\ \A c \in doomed : Reason(c)

\* The least of some numbers.
LEMMA Least == ASSUME NEW S, S \subseteq Nat, S # {} PROVE \E i \in S : \A j \in S : i <= j
<1>1. PICK i \in S : \A j \in S : ~(<<j, i>> \in OpToRel(<, Nat))
  BY WFMin, NatLessThanWellFounded
<1>2. ASSUME NEW j \in S, j < i PROVE FALSE
  <2>1. <<j, i>> \in OpToRel(<, Nat)
    BY <1>2 DEF OpToRel
  <2>2. QED BY <1>1, <2>1
<1>3. ASSUME NEW j \in S PROVE i <= j
  <2>1. i \in Nat /\ j \in Nat /\ ~(j < i)
    BY <1>1, <1>2
  <2>2. QED BY <2>1
<1>4. QED BY <1>1, <1>3

\* insert finds a place: after it everything is younger, before it nothing is.
LEMMA PlaceFound ==
  ASSUME NEW s \in Seq(Tx), NEW t \in Tx, NEW map
  PROVE  LET k == InsertPlace(s, t, map) IN
           /\ k \in 0..Len(s)
           /\ \A j \in k + 1..Len(s) : TimeOf(s[j], map) > TimeOf(t, map)
           /\ k > 0 => TimeOf(s[k], map) <= TimeOf(t, map)
<1> DEFINE after(i) == \A j \in i + 1..Len(s) : TimeOf(s[j], map) > TimeOf(t, map)
           G == {i \in 0..Len(s) : after(i)}
<1>1. Len(s) \in Nat /\ \A j \in 1..Len(s) : s[j] \in Tx
  OBVIOUS
<1>2. ASSUME NEW x \in Tx PROVE TimeOf(x, map) \in Nat
  BY TxPoolAssumption DEF TimeOf
<1>3. Len(s) \in G
  BY <1>1
<1>4. PICK i \in G : \A k \in G : i <= k
  <2>1. G \subseteq Nat
    BY <1>1
  <2>2. QED BY <1>3, <2>1, Least
<1>5. i > 0 => TimeOf(s[i], map) <= TimeOf(t, map)
  <2>1. SUFFICES ASSUME i > 0, ~(TimeOf(s[i], map) <= TimeOf(t, map)) PROVE FALSE
    OBVIOUS
  <2>2. i \in 1..Len(s) /\ i - 1 \in 0..Len(s) /\ (i - 1) + 1 = i
    BY <1>1, <2>1
  <2>3. TimeOf(s[i], map) > TimeOf(t, map)
    BY <1>1, <1>2, <2>1, <2>2
  <2>4. ASSUME NEW j \in (i - 1) + 1..Len(s) PROVE TimeOf(s[j], map) > TimeOf(t, map)
    <3>1. CASE j = i
      BY <2>3, <3>1
    <3>2. CASE j # i
      <4>1. j \in i + 1..Len(s)
        BY <1>1, <2>2, <3>2
      <4>2. QED BY <4>1
    <3>3. QED BY <3>1, <3>2
  <2>5. i - 1 \in G
    BY <2>2, <2>4
  <2>6. i <= i - 1
    BY <1>4, <2>5
  <2>7. QED BY <1>1, <2>2, <2>6
<1>6. /\ i \in 0..Len(s) /\ \A j \in i + 1..Len(s) : TimeOf(s[j], map) > TimeOf(t, map)
      /\ i > 0 => TimeOf(s[i], map) <= TimeOf(t, map)
  BY <1>5
<1>7. QED BY <1>6 DEF InsertPlace

\* What insert returns, entry by entry.
LEMMA InsertEntries ==
  ASSUME NEW s \in Seq(Tx), NEW t \in Tx, NEW map
  PROVE  LET r == Insert(s, t, map)
             k == InsertPlace(s, t, map)
         IN  /\ r \in Seq(Tx) /\ Len(r) = Len(s) + 1
             /\ \A i \in 1..Len(r) :
                  r[i] = IF i <= k THEN s[i] ELSE IF i = k + 1 THEN t ELSE s[i - 1]
<1>1. PICK k \in 0..Len(s) : k = InsertPlace(s, t, map)
  BY PlaceFound
<1>2. Len(s) \in Nat /\ k \in Nat /\ k <= Len(s) /\ \A j \in 1..Len(s) : s[j] \in Tx
  OBVIOUS
<1> DEFINE front == SubSeq(s, 1, k)
           back == SubSeq(s, k + 1, Len(s))
<1>3. front \in Seq(Tx) /\ Len(front) = k /\ \A i \in 1..k : front[i] = s[i]
  <2>1. 1 \in Int /\ k \in Int /\ \A j \in 1..k : s[j] \in Tx
    BY <1>2
  <2>2. QED BY <1>2, <2>1, SubSeqProperties
<1>4. /\ back \in Seq(Tx) /\ Len(back) = Len(s) - k
      /\ \A i \in 1..Len(s) - k : back[i] = s[k + i]
  <2>1. k + 1 \in Int /\ Len(s) \in Int /\ \A j \in k + 1..Len(s) : s[j] \in Tx
    BY <1>2
  <2>2. /\ back \in Seq(Tx) /\ Len(back) = IF k + 1 <= Len(s) THEN Len(s) - (k + 1) + 1 ELSE 0
        /\ \A i \in 1..Len(s) - (k + 1) + 1 : back[i] = s[(k + 1) + i - 1]
    BY <2>1, SubSeqProperties
  <2>3. QED BY <1>2, <2>2
<1>5. Insert(s, t, map) = front \o <<t>> \o back
  BY <1>1 DEF Insert
<1> HIDE DEF front, back
<1>6. <<t>> \in Seq(Tx) /\ Len(<<t>>) = 1 /\ <<t>>[1] = t
  OBVIOUS
<1>7. PICK q \in Seq(Tx) :
        /\ q = front \o <<t>> /\ Len(q) = k + 1
        /\ \A i \in 1..k + 1 : q[i] = IF i <= k THEN s[i] ELSE t
  <2>1. /\ front \o <<t>> \in Seq(Tx) /\ Len(front \o <<t>>) = k + 1
        /\ \A i \in 1..k + 1 : (front \o <<t>>)[i] = IF i <= k THEN front[i] ELSE <<t>>[i - k]
    BY <1>3, <1>6, ConcatProperties
  <2>2. ASSUME NEW i \in 1..k + 1 PROVE (front \o <<t>>)[i] = IF i <= k THEN s[i] ELSE t
    <3>1. CASE i <= k
      <4>1. i \in 1..k
        BY <1>2, <3>1
      <4>2. QED BY <1>3, <2>1, <3>1, <4>1
    <3>2. CASE ~(i <= k)
      <4>1. i - k = 1
        BY <1>2, <3>2
      <4>2. QED BY <1>6, <2>1, <3>2, <4>1
    <3>3. QED BY <3>1, <3>2
  <2>3. QED BY <2>1, <2>2
<1>8. /\ q \o back \in Seq(Tx) /\ Len(q \o back) = Len(s) + 1
      /\ \A i \in 1..Len(s) + 1 : (q \o back)[i] = IF i <= k + 1 THEN q[i] ELSE back[i - (k + 1)]
  <2>1. /\ q \o back \in Seq(Tx) /\ Len(q \o back) = Len(q) + Len(back)
        /\ \A i \in 1..Len(q) + Len(back) :
             (q \o back)[i] = IF i <= Len(q) THEN q[i] ELSE back[i - Len(q)]
    BY <1>4, <1>7, ConcatProperties
  <2>2. Len(q) + Len(back) = Len(s) + 1
    <3>1. Len(q) = k + 1 /\ Len(back) = Len(s) - k
      BY <1>4, <1>7
    <3>2. QED BY <1>2, <3>1
  <2>3. QED BY <1>7, <2>1, <2>2
<1>9. ASSUME NEW i \in 1..Len(s) + 1
      PROVE  (q \o back)[i] = IF i <= k THEN s[i] ELSE IF i = k + 1 THEN t ELSE s[i - 1]
  <2>1. CASE i <= k + 1
    <3>1. i \in 1..k + 1 /\ (~(i <= k) => i = k + 1)
      BY <1>2, <2>1
    <3>2. QED BY <1>7, <1>8, <2>1, <3>1
  <2>2. CASE ~(i <= k + 1)
    <3>1. /\ i - (k + 1) \in 1..Len(s) - k /\ k + (i - (k + 1)) = i - 1
          /\ ~(i <= k) /\ i # k + 1
      BY <1>2, <2>2
    <3>2. back[i - (k + 1)] = s[i - 1]
      BY <1>4, <3>1
    <3>3. QED BY <1>8, <2>2, <3>1, <3>2
  <2>3. QED BY <2>1, <2>2
<1>10. QED BY <1>1, <1>5, <1>7, <1>8, <1>9

\* The list stays a list of transactions when one is inserted.
LEMMA InsertList ==
  ASSUME NEW s \in Seq(Tx), NEW t \in Tx, NEW map
  PROVE  Insert(s, t, map) \in Seq(Tx)
BY InsertEntries

\* What remove returns, entry by entry: the first with that hash is left out.
LEMMA RemoveEntries ==
  ASSUME NEW s \in Seq(Tx), NEW t, \E i \in DOMAIN s : s[i] = t
  PROVE  \E k \in 1..Len(s) :
           /\ s[k] = t
           /\ RemoveEntry(s, t) \in Seq(Tx) /\ Len(RemoveEntry(s, t)) = Len(s) - 1
           /\ \A i \in 1..Len(s) - 1 : RemoveEntry(s, t)[i] = IF i < k THEN s[i] ELSE s[i + 1]
<1> DEFINE G == {i \in DOMAIN s : s[i] = t}
<1>1. DOMAIN s = 1..Len(s) /\ Len(s) \in Nat /\ \A j \in 1..Len(s) : s[j] \in Tx
  OBVIOUS
<1>2. PICK i \in G : \A k \in G : i <= k
  <2>1. G \subseteq Nat /\ G # {}
    BY <1>1
  <2>2. QED BY <2>1, Least
<1>3. i \in DOMAIN s /\ s[i] = t /\ \A k \in 1..i - 1 : s[k] # t
  <2>1. ASSUME NEW k \in 1..i - 1, s[k] = t PROVE FALSE
    <3>1. k \in G /\ k < i
      BY <1>1, <2>1
    <3>2. QED BY <1>1, <1>2, <3>1
  <2>2. QED BY <2>1
<1>4. PICK k \in DOMAIN s :
        /\ k = CHOOSE j \in DOMAIN s : s[j] = t /\ \A l \in 1..j - 1 : s[l] # t
        /\ s[k] = t
  BY <1>3
<1>5. k \in 1..Len(s)
  BY <1>1
<1> DEFINE front == SubSeq(s, 1, k - 1)
           back == SubSeq(s, k + 1, Len(s))
<1>6. front \in Seq(Tx) /\ Len(front) = k - 1 /\ \A j \in 1..k - 1 : front[j] = s[j]
  <2>1. 1 \in Int /\ k - 1 \in Int /\ \A j \in 1..k - 1 : s[j] \in Tx
    BY <1>1, <1>5
  <2>2. /\ front \in Seq(Tx) /\ Len(front) = IF 1 <= k - 1 THEN k - 1 - 1 + 1 ELSE 0
        /\ \A j \in 1..k - 1 - 1 + 1 : front[j] = s[1 + j - 1]
    BY <2>1, SubSeqProperties
  <2>3. QED BY <1>5, <2>2
<1>7. /\ back \in Seq(Tx) /\ Len(back) = Len(s) - k
      /\ \A j \in 1..Len(s) - k : back[j] = s[k + j]
  <2>1. k + 1 \in Int /\ Len(s) \in Int /\ \A j \in k + 1..Len(s) : s[j] \in Tx
    BY <1>1, <1>5
  <2>2. /\ back \in Seq(Tx) /\ Len(back) = IF k + 1 <= Len(s) THEN Len(s) - (k + 1) + 1 ELSE 0
        /\ \A j \in 1..Len(s) - (k + 1) + 1 : back[j] = s[(k + 1) + j - 1]
    BY <2>1, SubSeqProperties
  <2>3. QED BY SMTT(30), <1>1, <1>5, <2>2
<1>8. RemoveEntry(s, t) = front \o back
  BY <1>4 DEF RemoveEntry
<1> HIDE DEF front, back
<1>9. /\ front \o back \in Seq(Tx) /\ Len(front \o back) = Len(s) - 1
      /\ \A j \in 1..Len(s) - 1 : (front \o back)[j] = IF j <= k - 1 THEN front[j] ELSE back[j - (k - 1)]
  <2>1. /\ front \o back \in Seq(Tx) /\ Len(front \o back) = Len(front) + Len(back)
        /\ \A j \in 1..Len(front) + Len(back) :
             (front \o back)[j] = IF j <= Len(front) THEN front[j] ELSE back[j - Len(front)]
    BY <1>6, <1>7, ConcatProperties
  <2>2. Len(front) + Len(back) = Len(s) - 1
    BY <1>1, <1>5, <1>6, <1>7
  <2>3. QED BY <1>6, <2>1, <2>2
<1>10. ASSUME NEW j \in 1..Len(s) - 1
       PROVE  (front \o back)[j] = IF j < k THEN s[j] ELSE s[j + 1]
  <2>1. CASE j < k
    <3>1. j \in 1..k - 1 /\ j <= k - 1
      BY <1>1, <1>5, <2>1
    <3>2. QED BY <1>6, <1>9, <2>1, <3>1
  <2>2. CASE ~(j < k)
    <3>1. ~(j <= k - 1) /\ j - (k - 1) \in 1..Len(s) - k /\ k + (j - (k - 1)) = j + 1
      BY <1>1, <1>5, <2>2
    <3>2. back[j - (k - 1)] = s[j + 1]
      BY <1>7, <3>1
    <3>3. QED BY <1>9, <2>2, <3>1, <3>2
  <2>3. QED BY <2>1, <2>2
<1>11. QED BY <1>4, <1>5, <1>8, <1>9, <1>10

\* ... and when one is taken out.
LEMMA RemoveList == ASSUME NEW s \in Seq(Tx), NEW t PROVE RemoveEntry(s, t) \in Seq(Tx)
<1>1. CASE ~\E i \in DOMAIN s : s[i] = t
  BY <1>1 DEF RemoveEntry
<1>2. CASE \E i \in DOMAIN s : s[i] = t
  BY <1>2, RemoveEntries
<1>3. QED BY <1>1, <1>2

\* What has been executed stays executed, and with it a reason.
LEMMA ExecutedStays ==
  ASSUME executed \in Seq(Item), NEW x \in Item,
         executed' = executed \/ executed' = Append(executed, x)
  PROVE  /\ executed' \in Seq(Item)
         /\ \A y : HasExecuted(y) => HasExecuted(y)'
         /\ executed' = Append(executed, x) => HasExecuted(x)'
         /\ Invalid \subseteq Invalid'
<1>1. /\ executed' \in Seq(Item)
      /\ \A i \in DOMAIN executed : i \in DOMAIN executed' /\ executed'[i] = executed[i]
  OBVIOUS
<1>2. \A y : HasExecuted(y) => HasExecuted(y)'
  BY <1>1 DEF HasExecuted
<1>3. executed' = Append(executed, x) => HasExecuted(x)'
  <2>1. ASSUME executed' = Append(executed, x)
        PROVE  Len(executed) + 1 \in DOMAIN executed' /\ executed'[Len(executed) + 1] = x
    BY <2>1
  <2>2. QED BY <2>1 DEF HasExecuted
<1>4. Invalid \subseteq Invalid'
  BY <1>1 DEF Invalid
<1>5. QED BY <1>1, <1>2, <1>3, <1>4

\* A step that leaves the callers, the blocks and what is doomed alone.
LEMMA UseStays ==
  ASSUME UseInv, transactions' \subseteq Tx, commands' \subseteq Command, list' \in Seq(Tx),
         UNCHANGED <<inbox, inHand, pc, blockVars, doomed>>
  PROVE  UseInv'
  BY DEF UseInv, Flushing, HasExecuted, ToCome, Reason, Proposed, Invalid, blockVars

\* A step of one caller.
LEMMA CallStays ==
  ASSUME UseInv, transactions' \subseteq Tx, commands' \subseteq Command, list' \in Seq(Tx),
         UNCHANGED <<blockVars, doomed>>,
         inbox' \in [Handler -> SUBSET Item], inHand' \in [Handler -> Item \cup {NoItem}],
         pc' \in [Handler -> {"idle", "exists", "chain", "add", "added", "remove"}],
         \A h \in Handler : pc'[h] \notin {"idle", "remove"} => inHand'[h] \in Item,
         \A h \in Handler : pc'[h] = "remove" => pc[h] = "remove"
  PROVE  UseInv'
<1>1. "cons" \in Handler /\ "tx" \in Handler
  BY DEF Handler
<1>2. QED
  BY <1>1 DEF UseInv, Flushing, HasExecuted, ToCome, Reason, Proposed, Invalid, blockVars

\* What the loop does to the pool leaves a pool.
LEMMA AddShape ==
  ASSUME UseInv, NEW t \in Item, NEW h, Add(t, h)
  PROVE  /\ transactions' \subseteq Tx /\ commands' \subseteq Command /\ list' \in Seq(Tx)
<1> DEFINE map == transactions \cup {t}
<1>1. CASE Full(t) \/ t \in Command
  BY <1>1 DEF Add, Refuse, UseInv, poolVars, stopVars
<1>2. CASE ~Full(t) /\ t \notin Command
  <2>1. t \in Tx /\ commands' = commands
        /\ \/ AlmostClear(map)
           \/ transactions' = map /\ list' = Insert(list, t, map)
    BY <1>2, TxPoolAssumption DEF Add, Item
  <2>2. CASE transactions' = map /\ list' = Insert(list, t, map)
    BY <2>1, <2>2, InsertList DEF UseInv
  <2>3. CASE AlmostClear(map)
    <3>1. PICK kept \in SUBSET map : transactions' = kept /\ list' \in SortedLists(kept)
      BY <2>3 DEF AlmostClear
    <3>2. kept \subseteq Tx /\ IsFiniteSet(kept)
      BY <2>1, <3>1, TxPoolAssumption, FS_Subset DEF UseInv
    <3>3. list' \in [1..Cardinality(kept) -> kept] /\ Cardinality(kept) \in Nat
      BY <3>1, <3>2, FS_CardinalityType DEF SortedLists
    <3>4. list' \in [1..Cardinality(kept) -> Tx]
      BY <3>2, <3>3
    <3>5. list' \in Seq(Tx)
      BY <3>3, <3>4, SeqDef
    <3>6. QED BY <2>1, <3>1, <3>2, <3>5 DEF UseInv
  <2>4. QED BY <2>1, <2>2, <2>3
<1>3. QED BY <1>1, <1>2

LEMMA RemoveShape ==
  ASSUME UseInv, NEW t, Remove(t)
  PROVE  transactions' \subseteq Tx /\ commands' \subseteq Command /\ list' \in Seq(Tx)
  BY RemoveList DEF Remove, Removed, UseInv

LEMMA UseInit == Init => UseInv
<1> SUFFICES ASSUME Init PROVE UseInv
  OBVIOUS
<1>1. /\ transactions = {} /\ commands = {} /\ list = <<>> /\ inbox = Inbox
      /\ pc = [h \in Handler |-> "idle"] /\ inHand = [h \in Handler |-> NoItem]
      /\ block = NoBlock /\ toFlush = NoBlock /\ executed = <<>> /\ foreign = Foreign
      /\ doomed = {}
  BY DEF Init
<1>2. QED BY <1>1, TxPoolAssumption DEF UseInv, Handler

\* A caller takes a message, looks it up, adds it.
LEMMA ReceiveUse == ASSUME UseInv, NEW h \in Handler, Receive(h) PROVE UseInv'
<1>1. ASSUME NEW t \in inbox[h], TakeMessage(h, t) PROVE UseInv'
  <2>1. t \in Item
    BY <1>1 DEF UseInv
  <2>2. /\ inbox' \in [Handler -> SUBSET Item] /\ inHand' \in [Handler -> Item \cup {NoItem}]
        /\ pc' \in [Handler -> {"idle", "exists", "chain", "add", "added", "remove"}]
        /\ \A g \in Handler : pc'[g] \notin {"idle", "remove"} => inHand'[g] \in Item
        /\ \A g \in Handler : pc'[g] = "remove" => pc[g] = "remove"
    BY <1>1, <2>1 DEF TakeMessage, UseInv
  <2>3. QED BY <1>1, <2>2, CallStays DEF TakeMessage, UseInv, poolVars
<1>2. CASE ExistingTransaction(h) \/ ExistTx(h)
  <2>1. /\ pc[h] \in {"exists", "chain"}
        /\ \E next \in {"idle", "chain", "add"} : pc' = [pc EXCEPT ![h] = next]
    BY <1>2 DEF ExistingTransaction, ExistTx
  <2>2. /\ pc' \in [Handler -> {"idle", "exists", "chain", "add", "added", "remove"}]
        /\ \A g \in Handler : pc'[g] \notin {"idle", "remove"} => pc[g] \notin {"idle", "remove"}
        /\ \A g \in Handler : pc'[g] = "remove" => pc[g] = "remove"
    BY <2>1 DEF UseInv
  <2>3. QED BY <1>2, <2>2, CallStays DEF ExistingTransaction, ExistTx, UseInv, poolVars
<1>3. CASE AddTransaction(h)
  <2>1. pc[h] = "add" /\ inHand[h] \in Item
    BY <1>3 DEF AddTransaction, UseInv
  <2>2. transactions' \subseteq Tx /\ commands' \subseteq Command /\ list' \in Seq(Tx)
    BY <1>3, <2>1, AddShape DEF AddTransaction
  <2>3. \E next \in {"idle", "added"} : pc' = [pc EXCEPT ![h] = next]
    BY <1>3 DEF AddTransaction
  <2>4. /\ pc' \in [Handler -> {"idle", "exists", "chain", "add", "added", "remove"}]
        /\ \A g \in Handler : pc'[g] \notin {"idle", "remove"} => pc[g] \notin {"idle", "remove"}
        /\ \A g \in Handler : pc'[g] = "remove" => pc[g] = "remove"
    BY <2>1, <2>3 DEF UseInv
  <2>5. QED BY <1>3, <2>2, <2>4, CallStays DEF AddTransaction, UseInv
<1>4. QED BY <1>1, <1>2, <1>3 DEF Receive

LEMMA SendStopUse == ASSUME UseInv, SendStop PROVE UseInv'
<1>1. pc' = [h \in Handler |-> IF h = caller THEN "idle" ELSE pc[h]]
  BY DEF SendStop
<1>2. QED BY <1>1, CallStays DEF SendStop, UseInv, poolVars

\* Every command that is doomed is not valid, or is the one proposed.
LEMMA GetTxForBlocUse == ASSUME UseInv, GetTxForBloc PROVE UseInv'
<1>1. /\ block = NoBlock /\ ~Flushing /\ pc["cons"] # "remove"
      /\ UNCHANGED <<transactions, commands, list, inbox, pc, inHand, toFlush, executed, foreign>>
  BY DEF GetTxForBloc, Idle, Free, poolVars, callVars
<1>2. PICK visited \in {s \in UNION {[1..n -> commands] : n \in 0..Cardinality(commands)} :
                           \A i, j \in DOMAIN s : i # j => s[i] # s[j]} :
        LET n == Len(visited)
            found == n > 0 /\ visited[n] \notin Invalid
            invalid == IF found THEN n - 1 ELSE n
            oldest == GetFirstsElem(BlockSize)
        IN  /\ \A i \in 1..invalid : visited[i] \in Invalid
            /\ \E keys \in [1..invalid -> Command] :
                 /\ \A i \in 1..invalid : keys[i] \in MayDoom(visited, i)
                 /\ doomed' = doomed \cup {keys[i] : i \in 1..invalid}
            /\ found => block' = <<visited[n]>>
            /\ ~found => block' \in {block, oldest}
  BY DEF GetTxForBloc
<1> DEFINE n == Len(visited)
           found == n > 0 /\ visited[n] \notin Invalid
           invalid == IF found THEN n - 1 ELSE n
           oldest == GetFirstsElem(BlockSize)
<1>4. n \in Nat /\ \A i \in 1..n : visited[i] \in commands
  <2>1. PICK m \in 0..Cardinality(commands) : visited \in [1..m -> commands]
    BY <1>2
  <2>2. m \in Nat
    BY <2>1
  <2>3. visited \in Seq(commands)
    BY <2>1, <2>2, SeqDef
  <2>4. QED BY <2>3
<1>5. PICK keys \in [1..invalid -> Command] :
        /\ \A i \in 1..invalid : keys[i] \in MayDoom(visited, i)
        /\ doomed' = doomed \cup {keys[i] : i \in 1..invalid}
  BY <1>2
<1>6. /\ \A i \in 1..invalid : visited[i] \in Invalid
      /\ found => block' = <<visited[n]>>
      /\ ~found => block' \in {block, oldest}
  BY <1>2
<1>7. invalid \in Nat /\ invalid <= n /\ (~found => invalid = n) /\ (found => n > 0 /\ invalid = n - 1)
  BY <1>4
<1> HIDE DEF n, found, invalid, oldest
<1>8. block' \in Seq(Item) \cup {NoBlock}
  <2>1. CASE found
    <3>1. visited[n] \in Item
      BY <1>4, <1>7, <2>1 DEF UseInv, Item
    <3>2. <<visited[n]>> \in Seq(Item)
      BY <3>1
    <3>3. QED BY <1>6, <2>1, <3>2
  <2>2. CASE ~found
    <3>1. oldest \in Seq(Tx)
      <4>1. list \in Seq(Tx) /\ Len(list) \in Nat /\ BlockSize \in Nat
        BY TxPoolAssumption DEF UseInv
      <4>2. PICK m \in Nat : m <= Len(list) /\ oldest = SubSeq(list, 1, m)
        BY <4>1 DEF GetFirstsElem, oldest
      <4>3. \A i \in 1..m : list[i] \in Tx
        BY <4>1, <4>2
      <4>4. QED BY <4>2, <4>3, SubSeqProperties
    <3>2. oldest \in Seq(Item)
      BY <3>1, SeqMonotonic DEF Item
    <3>3. QED BY <1>1, <1>6, <2>2, <3>2
  <2>3. QED BY <2>1, <2>2
<1>9. ASSUME NEW i \in 1..invalid PROVE Reason(keys[i])'
  <2>1. PICK j \in i..Len(visited) : keys[i] = visited[j]
    BY <1>5 DEF MayDoom
  <2>2. j \in 1..n
    BY <1>4, <1>7, <2>1 DEF n
  <2>3. CASE j \in 1..invalid
    BY <1>1, <1>6, <2>1, <2>3 DEF Reason, Invalid
  <2>4. CASE j \notin 1..invalid
    <3>1. found /\ j = n
      BY <1>4, <1>7, <2>2, <2>4
    <3>2. block' = <<visited[n]>> /\ block' # NoBlock
      <4>1. visited[n] \in Item
        BY <1>4, <2>2, <3>1 DEF UseInv, Item
      <4>2. <<visited[n]>> \in Seq(Item)
        BY <4>1
      <4>3. QED BY <1>6, <3>1, <4>2, TxPoolAssumption
    <3>3. keys[i] \in Proposed'
      BY <2>1, <3>1, <3>2 DEF Proposed
    <3>4. QED BY <3>3 DEF Reason
  <2>5. QED BY <2>3, <2>4
<1>10. ASSUME NEW c \in doomed PROVE Reason(c)'
  BY <1>1 DEF UseInv, Reason, Proposed, HasExecuted, Invalid
<1>11. doomed' \subseteq Command /\ \A c \in doomed' : Reason(c)'
  BY <1>5, <1>9, <1>10 DEF UseInv
<1>12. QED BY <1>1, <1>8, <1>11 DEF UseInv, Flushing, HasExecuted

\* A flush starts: everything of the own block, if that is the one, is to come.
LEMMA StartFlushUse == ASSUME UseInv, StartFlush PROVE UseInv'
<1>1. /\ pc["cons"] = "idle"
      /\ \/ block # NoBlock /\ toFlush' = block /\ foreign' = foreign
         \/ /\ block = NoBlock /\ foreign' \subseteq foreign
            /\ \E b \in foreign : toFlush' = b
      /\ UNCHANGED <<transactions, commands, list, inbox, pc, inHand, block, executed, doomed>>
  BY DEF StartFlush, Idle, poolVars, callVars
<1>2. toFlush' \in Seq(Item) /\ foreign' \subseteq Seq(Item)
  BY <1>1 DEF UseInv
<1>3. block # NoBlock => \A i \in DOMAIN block : ToCome(block[i])'
  BY <1>1 DEF ToCome
<1>4. \A c \in doomed : Reason(c)'
  BY <1>1 DEF UseInv, Reason, Proposed, HasExecuted, Invalid
<1>5. QED BY <1>1, <1>2, <1>3, <1>4 DEF UseInv

LEMMA ExecuteUse == ASSUME UseInv, Execute PROVE UseInv'
<1>1. /\ Flushing /\ toFlush # <<>> /\ executed' = Append(executed, Head(toFlush))
      /\ pc' = [pc EXCEPT !["cons"] = "remove"]
      /\ UNCHANGED <<transactions, commands, list, inbox, inHand, block, toFlush, foreign, doomed>>
  BY DEF Execute, poolVars
<1>2. Head(toFlush) \in Item
  BY <1>1 DEF UseInv, Flushing
<1>3. /\ executed' \in Seq(Item) /\ HasExecuted(Head(toFlush))'
      /\ \A y : HasExecuted(y) => HasExecuted(y)'
      /\ Invalid \subseteq Invalid'
  BY <1>1, <1>2, ExecutedStays DEF UseInv
<1>4. /\ pc' \in [Handler -> {"idle", "exists", "chain", "add", "added", "remove"}]
      /\ pc'["tx"] # "remove"
      /\ \A h \in Handler : pc'[h] \notin {"idle", "remove"} => inHand'[h] \in Item
  BY <1>1 DEF UseInv, Handler
<1>5. \A c \in doomed' : Reason(c)'
  BY <1>1, <1>3 DEF UseInv, Reason, Proposed
<1>6. Flushing' /\ toFlush' # <<>> /\ HasExecuted(Head(toFlush))'
  BY <1>1, <1>3 DEF Flushing
<1>7. ASSUME NEW i \in DOMAIN block', block' # NoBlock
      PROVE  (HasExecuted(block[i]) \/ ToCome(block[i]))'
  BY <1>1, <1>3, <1>7 DEF UseInv, ToCome
<1>8. QED BY <1>1, <1>3, <1>4, <1>5, <1>6, <1>7 DEF UseInv

LEMMA RemoveTransactionUse == ASSUME UseInv, RemoveTransaction PROVE UseInv'
<1>1. /\ pc["cons"] = "remove" /\ toFlush' = Tail(toFlush)
      /\ pc' = [pc EXCEPT !["cons"] = "idle"] /\ Remove(Head(toFlush))
      /\ UNCHANGED <<inbox, inHand, block, executed, foreign, doomed>>
  BY DEF RemoveTransaction
<1>2. transactions' \subseteq Tx /\ commands' \subseteq Command /\ list' \in Seq(Tx)
  BY <1>1, RemoveShape
<1>3. /\ toFlush \in Seq(Item) /\ toFlush # <<>> /\ Flushing
      /\ HasExecuted(toFlush[1])
  BY <1>1 DEF UseInv, Flushing
<1>4. /\ toFlush' \in Seq(Item) /\ Len(toFlush) \in Nat /\ Len(toFlush') = Len(toFlush) - 1
      /\ \A j \in 1..Len(toFlush') : toFlush'[j] = toFlush[j + 1]
  BY <1>1, <1>3
<1>5. /\ pc' \in [Handler -> {"idle", "exists", "chain", "add", "added", "remove"}]
      /\ pc'["tx"] # "remove" /\ pc'["cons"] # "remove"
      /\ \A h \in Handler : pc'[h] \notin {"idle", "remove"} => inHand'[h] \in Item
  BY <1>1 DEF UseInv, Handler
<1>6. \A x : HasExecuted(x) => HasExecuted(x)'
  BY <1>1 DEF HasExecuted
<1>7. ASSUME NEW x, ToCome(x) PROVE HasExecuted(x)' \/ ToCome(x)'
  <2>1. PICK j \in 1..Len(toFlush) : toFlush[j] = x
    BY <1>3, <1>7 DEF ToCome
  <2>2. CASE j = 1
    BY <1>3, <1>6, <2>1, <2>2
  <2>3. CASE j # 1
    <3>1. j - 1 \in 1..Len(toFlush') /\ (j - 1) + 1 = j
      BY <1>4, <2>1, <2>3
    <3>2. toFlush'[j - 1] = x /\ j - 1 \in DOMAIN toFlush'
      BY <1>4, <2>1, <3>1
    <3>3. QED BY <3>2 DEF ToCome
  <2>4. QED BY <2>2, <2>3
<1>8. ASSUME NEW i \in DOMAIN block', block' # NoBlock
      PROVE  (HasExecuted(block[i]) \/ ToCome(block[i]))'
  BY <1>1, <1>3, <1>6, <1>7, <1>8 DEF UseInv
<1>9. \A c \in doomed' : Reason(c)'
  BY <1>1 DEF UseInv, Reason, Proposed, HasExecuted, Invalid
<1>10. QED BY <1>1, <1>2, <1>4, <1>5, <1>8, <1>9 DEF UseInv

\* The block is forgotten when all of it has been executed.
LEMMA EndFlushUse == ASSUME UseInv, EndFlush PROVE UseInv'
<1>1. /\ toFlush = <<>> /\ pc["cons"] = "idle" /\ toFlush' = NoBlock /\ block' = NoBlock
      /\ UNCHANGED <<transactions, commands, list, inbox, pc, inHand, executed, foreign, doomed>>
  BY DEF EndFlush, poolVars, callVars
<1>2. Flushing
  <2>1. <<>> \in Seq(Item)
    OBVIOUS
  <2>2. QED BY <1>1, <2>1, TxPoolAssumption DEF Flushing
<1>3. \A x : ~ToCome(x)
  BY <1>1 DEF ToCome
<1>4. \A c \in Proposed : HasExecuted(c)
  BY <1>2, <1>3 DEF UseInv, Proposed
<1>5. \A c \in doomed' : Reason(c)'
  BY <1>1, <1>4 DEF UseInv, Reason, HasExecuted, Invalid
<1>6. ~Flushing'
  BY <1>1 DEF Flushing
<1>7. QED BY <1>1, <1>5, <1>6 DEF UseInv

LEMMA RemoveDoomedUse == ASSUME UseInv, NEW c \in Command, RemoveDoomed(c) PROVE UseInv'
<1>1. /\ Remove(c) /\ doomed' \subseteq doomed
      /\ UNCHANGED <<inbox, pc, inHand, block, toFlush, executed, foreign>>
  BY DEF RemoveDoomed, callVars, blockVars
<1>2. transactions' \subseteq Tx /\ commands' \subseteq Command /\ list' \in Seq(Tx)
  BY <1>1, RemoveShape
<1>3. \A d \in doomed' : d \in Command /\ Reason(d)'
  BY <1>1 DEF UseInv, Reason, Proposed, HasExecuted, Invalid
<1>4. QED BY <1>1, <1>2, <1>3 DEF UseInv, Flushing, HasExecuted, ToCome

LEMMA UseStep == UseInv /\ [Next]_vars => UseInv'
<1> SUFFICES ASSUME UseInv, [Next]_vars PROVE UseInv'
  OBVIOUS
<1>1. ASSUME NEW h \in Handler, Receive(h) PROVE UseInv'
  BY <1>1, ReceiveUse
<1>2. CASE ReadStop
  BY <1>2, UseStays DEF ReadStop, UseInv, poolVars
<1>3. CASE SendStop
  BY <1>3, SendStopUse
<1>4. CASE GetTxForBloc
  BY <1>4, GetTxForBlocUse
<1>5. CASE Flush
  BY <1>5, StartFlushUse, ExecuteUse, RemoveTransactionUse, EndFlushUse DEF Flush
<1>6. ASSUME NEW c \in Command, RemoveDoomed(c) PROVE UseInv'
  BY <1>6, RemoveDoomedUse
<1>7. CASE UNCHANGED vars
  BY <1>7, UseStays DEF vars, UseInv, poolVars, callVars
<1>8. QED BY <1>1, <1>2, <1>3, <1>4, <1>5, <1>6, <1>7 DEF Next


LEMMA StopStep == StopIInv /\ UseInv /\ [Next]_vars => StopIInv'
<1> SUFFICES ASSUME StopIInv, UseInv, [Next]_vars PROVE StopIInv'
  OBVIOUS
<1>1. ASSUME NEW h \in Handler, Receive(h) PROVE StopIInv'
  <2>1. CASE (\E t \in inbox[h] : TakeMessage(h, t)) \/ ExistingTransaction(h) \/ ExistTx(h)
    BY <2>1, StopStays DEF TakeMessage, ExistingTransaction, ExistTx, poolVars
  <2>2. CASE AddTransaction(h)
    <3>1. inHand[h] \in Item
      BY <2>2 DEF AddTransaction, UseInv
    <3>2. QED BY <2>2, <3>1, AddKeeps DEF AddTransaction, Free
  <2>3. QED BY <1>1, <2>1, <2>2 DEF Receive
<1>2. CASE ReadStop
  BY <1>2, ReadStopKeeps
<1>3. CASE SendStop
  BY <1>3, SendStopKeeps
<1>4. CASE GetTxForBloc
  BY <1>4, StopStays DEF GetTxForBloc, poolVars, callVars
<1>5. CASE StartFlush \/ Execute \/ EndFlush
  BY <1>5, StopStays DEF StartFlush, Execute, EndFlush, poolVars, callVars
<1>6. CASE RemoveTransaction
  BY <1>6, RemoveKeeps DEF RemoveTransaction, Free
<1>7. ASSUME NEW c \in Command, RemoveDoomed(c) PROVE StopIInv'
  BY <1>7, RemoveKeeps DEF RemoveDoomed, Free, callVars
<1>8. CASE UNCHANGED vars
  BY <1>8, StopStays DEF vars, poolVars, callVars
<1>9. QED
  BY <1>1, <1>2, <1>3, <1>4, <1>5, <1>6, <1>7, <1>8 DEF Next, Flush

-----------------------------------------------------------------------------
\* Who uses the pool, and with what, is always as UseInv says
\* (ReceiveTrustedMess, flushTransaction, getTxForBloc).
THEOREM TxPoolUse == Spec => []UseInv
  BY UseInit, UseStep, PTL DEF Spec

\* transactionHandler is told of every decision of tellIfContinu, in order and
\* only of changes, and the pool decides at its limit and at a quarter below it
\* (tellIfContinu, afterTxAdd, afterTxRemove).
THEOREM TxPoolTells == Spec => []StopInv
<1>1. StopIInv => StopInv
  BY DEF StopIInv
<1>2. QED BY <1>1, StopInit, StopStep, TxPoolUse, PTL DEF Spec

\* A caller that adds takes nothing out, unless the overload behaviour drops.
LEMMA AddLeaves ==
  ASSUME StopShape, NEW t \in Item, NEW h, Add(t, h)
  PROVE  /\ commands \subseteq commands'
         /\ transactions \subseteq transactions' \/
              (behavior = "Drop" /\ Cardinality(transactions) + 1 = Threshold)
<1>1. CASE Full(t) \/ t \in Command
  BY <1>1 DEF Add, Refuse, poolVars
<1>2. CASE ~Full(t) /\ t \notin Command
  <2> DEFINE map == transactions \cup {t}
             reached == Cardinality(map) = Threshold
  <2>1. /\ commands' = commands
        /\ (behavior = "Drop" /\ reached) \/ transactions' = map
    BY <1>2 DEF Add
  <2>2. CASE reached
    <3>1. /\ IsFiniteSet(transactions) /\ Cardinality(transactions) \in Nat
          /\ Cardinality(transactions) < Threshold
      BY <1>2, PoolSize, TxPoolAssumption, QuarterLess DEF Full, StopShape
    <3>2. Cardinality(map) = IF t \in transactions THEN Cardinality(transactions)
                             ELSE Cardinality(transactions) + 1
      BY <3>1, FS_AddElement
    <3>3. QED BY <2>1, <2>2, <3>1, <3>2, TxPoolAssumption
  <2>3. CASE ~reached
    BY <2>1, <2>3
  <2>4. QED BY <2>2, <2>3
<1>3. QED BY <1>1, <1>2

\* One transaction is taken out at a time.
LEMMA RemoveTakes ==
  ASSUME NEW t, Remove(t)
  PROVE  transactions \ transactions' \subseteq {t} /\ commands \ commands' \subseteq {t} /\
         (t \in Command => transactions' = transactions) /\ (t \notin Command => commands' = commands)
  BY DEF Remove, Removed

\* The step formula of PoolKeeps.
Keeps ==
  /\ \A t \in transactions \ transactions' :
       HasExecuted(t) \/ (behavior = "Drop" /\ Cardinality(transactions) + 1 = Threshold)
  /\ \A c \in commands \ commands' : HasExecuted(c) \/ c \in Proposed \/ c \in Invalid

LEMMA KeepsStep == StopIInv /\ UseInv /\ [Next]_vars => [Keeps]_vars
<1> SUFFICES ASSUME StopIInv, UseInv, Next PROVE Keeps
  OBVIOUS
<1>1. ASSUME NEW h \in Handler, Receive(h) PROVE Keeps
  <2>1. CASE (\E t \in inbox[h] : TakeMessage(h, t)) \/ ExistingTransaction(h) \/ ExistTx(h)
    BY <2>1 DEF TakeMessage, ExistingTransaction, ExistTx, poolVars, Keeps
  <2>2. CASE AddTransaction(h)
    <3>1. inHand[h] \in Item /\ Add(inHand[h], h)
      BY <2>2 DEF AddTransaction, UseInv
    <3>2. QED BY <3>1, AddLeaves DEF StopIInv, Keeps
  <2>3. QED BY <1>1, <2>1, <2>2 DEF Receive
<1>2. CASE ReadStop \/ SendStop \/ GetTxForBloc \/ StartFlush \/ Execute \/ EndFlush
  BY <1>2 DEF ReadStop, SendStop, GetTxForBloc, StartFlush, Execute, EndFlush, poolVars, Keeps
<1>3. CASE RemoveTransaction
  <2>1. Remove(Head(toFlush)) /\ HasExecuted(Head(toFlush))
    BY <1>3 DEF RemoveTransaction, UseInv
  <2>2. QED BY <2>1, RemoveTakes DEF Keeps
<1>4. ASSUME NEW c \in Command, RemoveDoomed(c) PROVE Keeps
  <2>1. Remove(c) /\ Reason(c)
    BY <1>4 DEF RemoveDoomed, UseInv
  <2>2. QED BY <2>1, RemoveTakes DEF Keeps, Reason
<1>5. QED BY <1>1, <1>2, <1>3, <1>4 DEF Next, Flush

\* What leaves the pool has been executed or, a command, is proposed or not
\* valid any more; only almostClear drops, when the pool is full
\* (addTransaction, removeTransaction, almostClear, flushTransaction).
THEOREM TxPoolKeeps == Spec => PoolKeeps
<1>1. [Keeps]_vars <=>
        [/\ \A t \in transactions \ transactions' :
              HasExecuted(t) \/ (behavior = "Drop" /\ Cardinality(transactions) + 1 = Threshold)
         /\ \A c \in commands \ commands' : HasExecuted(c) \/ c \in Proposed \/ c \in Invalid]_vars
  BY DEF Keeps
<1>2. QED BY <1>1, KeepsStep, StopInit, StopStep, TxPoolUse, PTL DEF Spec, PoolKeeps
-----------------------------------------------------------------------------
(***************************************************************************)
(* The map and the list.                                                   *)
(***************************************************************************)
\* A sorted list that holds each transaction of a set once.
Listing(s, set) ==
  /\ s \in Seq(set)
  /\ \A i, j \in 1..Len(s) : i < j => s[i] # s[j] /\ timestamp[s[i]] <= timestamp[s[j]]
  /\ \A t \in set : \E i \in 1..Len(s) : s[i] = t

\* SortedLists counts instead: as many entries as transactions.
LEMMA ListsAreListings ==
  ASSUME NEW set, IsFiniteSet(set), NEW s
  PROVE  s \in SortedLists(set) <=> Listing(s, set)
<1>1. Cardinality(set) \in Nat
  BY FS_CardinalityType
<1>2. ASSUME s \in SortedLists(set) PROVE Listing(s, set)
  <2>1. PICK n \in Nat :
          /\ n = Cardinality(set) /\ s \in [1..n -> set]
          /\ \A i, j \in 1..n : i < j => s[i] # s[j] /\ timestamp[s[i]] <= timestamp[s[j]]
    BY <1>1, <1>2 DEF SortedLists
  <2>2. s \in Seq(set) /\ Len(s) = n
    BY <2>1, SeqDef
  <2>3. s \in Injection(1..n, set)
    BY <2>1 DEF Injection, IsInjective
  <2>4. Cardinality(1..n) = n
    BY <2>1, FS_Interval
  <2>5. s \in Surjection(1..n, set)
    BY <2>1, <2>3, <2>4, FS_Injection
  <2>6. \A t \in set : \E i \in 1..n : s[i] = t
    BY <2>5 DEF Surjection
  <2>7. QED BY <2>1, <2>2, <2>6 DEF Listing
<1>3. ASSUME Listing(s, set) PROVE s \in SortedLists(set)
  <2>1. PICK n \in Nat : n = Len(s) /\ s \in [1..n -> set]
    BY <1>3 DEF Listing
  <2>2. /\ \A i, j \in 1..n : i < j => s[i] # s[j] /\ timestamp[s[i]] <= timestamp[s[j]]
        /\ \A t \in set : \E i \in 1..n : s[i] = t
    BY <1>3, <2>1 DEF Listing
  <2>3. s \in Injection(1..n, set)
    BY <2>1, <2>2 DEF Injection, IsInjective
  <2>4. s \in Surjection(1..n, set)
    BY <2>1, <2>2 DEF Surjection
  <2>5. Cardinality(set) = n
    BY <2>3, <2>4, FS_CountingElements DEF ExistsBijection, Bijection
  <2>6. QED BY <2>1, <2>2, <2>5 DEF SortedLists
<1>4. QED BY <1>2, <1>3

\* insert keeps the list in order.
LEMMA InsertListing ==
  ASSUME NEW set \in SUBSET Tx, NEW s, Listing(s, set), NEW t \in Tx \ set
  PROVE  Listing(Insert(s, t, set \cup {t}), set \cup {t})
<1> DEFINE map == set \cup {t}
<1>1. s \in Seq(Tx) /\ Len(s) \in Nat /\ \A j \in 1..Len(s) : s[j] \in set /\ s[j] \in Tx
  <2>1. s \in Seq(set)
    BY DEF Listing
  <2>2. s \in Seq(Tx)
    BY <2>1, SeqMonotonic
  <2>3. QED BY <2>1, <2>2
<1>2. PICK k \in 0..Len(s) :
        /\ k = InsertPlace(s, t, map)
        /\ \A j \in k + 1..Len(s) : TimeOf(s[j], map) > TimeOf(t, map)
        /\ k > 0 => TimeOf(s[k], map) <= TimeOf(t, map)
  BY <1>1, PlaceFound
<1>3. PICK r \in Seq(Tx) :
        /\ r = Insert(s, t, map) /\ Len(r) = Len(s) + 1
        /\ \A i \in 1..Len(r) :
             r[i] = IF i <= k THEN s[i] ELSE IF i = k + 1 THEN t ELSE s[i - 1]
  <2> HIDE DEF map
  <2>1. /\ Insert(s, t, map) \in Seq(Tx) /\ Len(Insert(s, t, map)) = Len(s) + 1
        /\ \A i \in 1..Len(Insert(s, t, map)) :
             Insert(s, t, map)[i] =
               IF i <= InsertPlace(s, t, map) THEN s[i]
               ELSE IF i = InsertPlace(s, t, map) + 1 THEN t ELSE s[i - 1]
    BY <1>1, InsertEntries
  <2>2. QED BY <1>2, <2>1
<1>4. /\ \A x \in map : TimeOf(x, map) = timestamp[x] /\ timestamp[x] \in Nat
      /\ k \in Nat /\ k <= Len(s) /\ t \in map
  BY <1>1, TxPoolAssumption DEF TimeOf
<1> HIDE DEF map
<1>5. /\ \A i \in 1..Len(s) : s[i] \in map /\ s[i] # t
      /\ \A i, j \in 1..Len(s) : i < j => s[i] # s[j] /\ timestamp[s[i]] <= timestamp[s[j]]
  BY <1>1 DEF Listing, map
<1>6. \A i \in 1..k : timestamp[s[i]] <= timestamp[t]
  <2> SUFFICES ASSUME NEW i \in 1..k PROVE timestamp[s[i]] <= timestamp[t]
    OBVIOUS
  <2>1. k \in 1..Len(s) /\ i \in 1..Len(s) /\ k > 0
    BY <1>4
  <2>2. timestamp[s[k]] <= timestamp[t]
    BY <1>2, <1>4, <1>5, <2>1
  <2>3. timestamp[s[i]] <= timestamp[s[k]]
    BY <1>4, <1>5, <2>1
  <2>4. QED BY <1>4, <1>5, <2>1, <2>2, <2>3
<1>7. \A j \in k + 1..Len(s) : timestamp[t] <= timestamp[s[j]]
  <2> SUFFICES ASSUME NEW j \in k + 1..Len(s) PROVE timestamp[t] <= timestamp[s[j]]
    OBVIOUS
  <2>1. j \in 1..Len(s)
    BY <1>4
  <2>2. QED BY <1>2, <1>4, <1>5, <2>1
<1>8. ASSUME NEW i \in 1..Len(r)
      PROVE  \/ i \in 1..k /\ i \in 1..Len(s) /\ r[i] = s[i]
             \/ i = k + 1 /\ r[i] = t
             \/ i - 1 \in k + 1..Len(s) /\ i - 1 \in 1..Len(s) /\ r[i] = s[i - 1]
  <2>1. Len(r) = Len(s) + 1
    BY <1>3
  <2>2. CASE i <= k
    <3>1. i \in 1..k /\ i \in 1..Len(s)
      BY <1>1, <1>4, <2>2
    <3>2. QED BY <1>3, <2>2, <3>1
  <2>3. CASE i = k + 1
    <3>1. ~(i <= k)
      BY <1>4, <2>3
    <3>2. QED BY <1>3, <2>3, <3>1
  <2>4. CASE ~(i <= k) /\ i # k + 1
    <3>1. i - 1 \in k + 1..Len(s) /\ i - 1 \in 1..Len(s)
      BY <1>1, <1>4, <2>1, <2>4
    <3>2. QED BY <1>3, <2>4, <3>1
  <2>5. QED BY <2>2, <2>3, <2>4
<1>9. r \in Seq(map)
  <2>1. \A i \in 1..Len(r) : r[i] \in map
    BY <1>4, <1>5, <1>8
  <2>2. r \in [1..Len(r) -> map] /\ Len(r) \in Nat
    BY <1>3, <2>1
  <2>3. QED BY <2>2, SeqDef
<1>10. ASSUME NEW i \in 1..Len(r), NEW j \in 1..Len(r), i < j
       PROVE  r[i] # r[j] /\ timestamp[r[i]] <= timestamp[r[j]]
  <2>1. CASE i \in 1..k /\ i \in 1..Len(s) /\ r[i] = s[i]
    <3>1. CASE j \in 1..k /\ j \in 1..Len(s) /\ r[j] = s[j]
      BY <1>5, <1>10, <2>1, <3>1
    <3>2. CASE j = k + 1 /\ r[j] = t
      BY <1>5, <1>6, <2>1, <3>2
    <3>3. CASE j - 1 \in k + 1..Len(s) /\ j - 1 \in 1..Len(s) /\ r[j] = s[j - 1]
      <4>1. i < j - 1
        BY <1>4, <2>1, <3>3
      <4>2. QED BY <1>5, <2>1, <3>3, <4>1
    <3>4. QED BY <1>8, <3>1, <3>2, <3>3
  <2>2. CASE i = k + 1 /\ r[i] = t
    <3>1. j - 1 \in k + 1..Len(s) /\ j - 1 \in 1..Len(s) /\ r[j] = s[j - 1]
      <4>1. j \notin 1..k /\ j # k + 1
        BY <1>4, <1>10, <2>2
      <4>2. QED BY <1>8, <4>1
    <3>2. QED BY <1>5, <1>7, <2>2, <3>1
  <2>3. CASE i - 1 \in k + 1..Len(s) /\ i - 1 \in 1..Len(s) /\ r[i] = s[i - 1]
    <3>1. j - 1 \in k + 1..Len(s) /\ j - 1 \in 1..Len(s) /\ r[j] = s[j - 1]
      <4>1. j \notin 1..k /\ j # k + 1
        BY <1>4, <1>10, <2>3
      <4>2. QED BY <1>8, <4>1
    <3>2. i - 1 < j - 1
      BY <1>10
    <3>3. QED BY <1>5, <2>3, <3>1, <3>2
  <2>4. QED BY <1>8, <2>1, <2>2, <2>3
<1>11. ASSUME NEW x \in map PROVE \E i \in 1..Len(r) : r[i] = x
  <2>1. CASE x = t
    <3>1. k + 1 \in 1..Len(r) /\ ~(k + 1 <= k)
      BY <1>1, <1>3, <1>4
    <3>2. QED BY <1>3, <2>1, <3>1
  <2>2. CASE x # t
    <3>1. PICK i \in 1..Len(s) : s[i] = x
      BY <2>2 DEF Listing, map
    <3>2. CASE i <= k
      <4>1. i \in 1..Len(r)
        BY <1>1, <1>3
      <4>2. QED BY <1>3, <3>1, <3>2, <4>1
    <3>3. CASE ~(i <= k)
      <4>1. i + 1 \in 1..Len(r) /\ ~(i + 1 <= k) /\ i + 1 # k + 1 /\ (i + 1) - 1 = i
        BY <1>1, <1>3, <1>4, <3>3
      <4>2. r[i + 1] = s[i]
        BY <1>3, <4>1
      <4>3. QED BY <3>1, <4>1, <4>2
    <3>4. QED BY <3>2, <3>3
  <2>3. QED BY <2>1, <2>2
<1>12. Listing(r, map)
  BY <1>9, <1>10, <1>11 DEF Listing
<1>13. QED BY <1>3, <1>12 DEF map

\* remove keeps it too.
LEMMA RemoveListing ==
  ASSUME NEW set \in SUBSET Tx, NEW s, Listing(s, set), NEW t \in set
  PROVE  Listing(RemoveEntry(s, t), set \ {t})
<1>1. s \in Seq(Tx) /\ Len(s) \in Nat /\ \A j \in 1..Len(s) : s[j] \in set
  <2>1. s \in Seq(set)
    BY DEF Listing
  <2>2. s \in Seq(Tx)
    BY <2>1, SeqMonotonic
  <2>3. QED BY <2>1, <2>2
<1>2. PICK k \in 1..Len(s) :
        /\ s[k] = t
        /\ RemoveEntry(s, t) \in Seq(Tx) /\ Len(RemoveEntry(s, t)) = Len(s) - 1
        /\ \A i \in 1..Len(s) - 1 : RemoveEntry(s, t)[i] = IF i < k THEN s[i] ELSE s[i + 1]
  <2>1. \E i \in DOMAIN s : s[i] = t
    BY <1>1 DEF Listing
  <2>2. QED BY <1>1, <2>1, RemoveEntries
<1>3. PICK r \in Seq(Tx) :
        /\ r = RemoveEntry(s, t) /\ Len(r) = Len(s) - 1
        /\ \A i \in 1..Len(s) - 1 : r[i] = IF i < k THEN s[i] ELSE s[i + 1]
  BY <1>2
<1>4. \A i, j \in 1..Len(s) : i < j => s[i] # s[j] /\ timestamp[s[i]] <= timestamp[s[j]]
  BY DEF Listing
<1>5. ASSUME NEW i \in 1..Len(s), i # k PROVE s[i] \in set \ {t}
  <2>1. i < k \/ k < i
    BY <1>1, <1>5
  <2>2. QED BY <1>1, <1>2, <1>4, <2>1
<1> DEFINE from(i) == IF i < k THEN i ELSE i + 1
<1>6. ASSUME NEW i \in 1..Len(r)
      PROVE  from(i) \in 1..Len(s) /\ from(i) # k /\ r[i] = s[from(i)]
  <2>1. i \in 1..Len(s) - 1 /\ from(i) \in 1..Len(s) /\ from(i) # k
    BY <1>1, <1>3
  <2>2. QED BY <1>3, <2>1
<1>7. ASSUME NEW i \in 1..Len(r), NEW j \in 1..Len(r), i < j PROVE from(i) < from(j)
  BY <1>1, <1>3, <1>7
<1> HIDE DEF from
<1>8. r \in Seq(set \ {t})
  <2>1. \A i \in 1..Len(r) : r[i] \in set \ {t}
    BY <1>5, <1>6
  <2>2. r \in [1..Len(r) -> set \ {t}] /\ Len(r) \in Nat
    BY <1>3, <2>1
  <2>3. QED BY <2>2, SeqDef
<1>9. \A i, j \in 1..Len(r) : i < j => r[i] # r[j] /\ timestamp[r[i]] <= timestamp[r[j]]
  BY <1>4, <1>6, <1>7
<1>10. ASSUME NEW x \in set \ {t} PROVE \E i \in 1..Len(r) : r[i] = x
  <2>1. PICK i \in 1..Len(s) : s[i] = x /\ i # k
    BY <1>2 DEF Listing
  <2>2. CASE i < k
    <3>1. i \in 1..Len(r) /\ i \in 1..Len(s) - 1
      BY <1>1, <1>3, <2>2
    <3>2. QED BY <1>3, <2>1, <2>2, <3>1
  <2>3. CASE ~(i < k)
    <3>1. i - 1 \in 1..Len(r) /\ i - 1 \in 1..Len(s) - 1 /\ ~(i - 1 < k) /\ (i - 1) + 1 = i
      BY <1>1, <1>3, <2>1, <2>3
    <3>2. r[i - 1] = s[i]
      BY <1>3, <3>1
    <3>3. QED BY <2>1, <3>1, <3>2
  <2>4. QED BY <2>2, <2>3
<1>11. QED BY <1>3, <1>8, <1>9, <1>10 DEF Listing

-----------------------------------------------------------------------------
(***************************************************************************)
(* HandledOnce.  Two goroutines that are sent no transaction both bring    *)
(* each transaction into the pool once.                                    *)
(***************************************************************************)
Apart == Inbox["cons"] \cap Inbox["tx"] \subseteq Command

\* Nothing comes to what a goroutine is still to add.
ToAddShrinks ==
  /\ \A h \in Handler : ToAdd(h)' \subseteq ToAdd(h)
  /\ \A h \in Handler : pc'[h] \in Deciding => inHand'[h] \notin inbox'[h]

LEMMA ToAddStep == UseInv /\ HandledOnce /\ [Next]_vars => ToAddShrinks
<1> SUFFICES ASSUME UseInv, HandledOnce, [Next]_vars PROVE ToAddShrinks
  OBVIOUS
<1>1. /\ \A h \in Handler : pc[h] \in Deciding => inHand[h] \notin inbox[h]
      /\ pc \in [Handler -> {"idle", "exists", "chain", "add", "added", "remove"}]
      /\ inbox \in [Handler -> SUBSET Item] /\ inHand \in [Handler -> Item \cup {NoItem}]
      /\ "cons" \in Handler /\ "tx" \in Handler
  BY DEF HandledOnce, UseInv, Handler
<1>2. ASSUME UNCHANGED <<inbox, inHand>>,
             \A h \in Handler : pc'[h] \in Deciding => pc[h] \in Deciding
      PROVE  ToAddShrinks
  BY <1>1, <1>2 DEF ToAddShrinks, ToAdd
<1>3. ASSUME NEW h \in Handler, NEW next, pc' = [pc EXCEPT ![h] = next],
             UNCHANGED <<inbox, inHand>>, next \in Deciding => pc[h] \in Deciding
      PROVE  ToAddShrinks
  BY <1>1, <1>2, <1>3
<1>4. ASSUME NEW h \in Handler, NEW t \in inbox[h], TakeMessage(h, t) PROVE ToAddShrinks
  <2>1. /\ inbox' = [inbox EXCEPT ![h] = @ \ {t}] /\ pc[h] = "idle"
        /\ \/ pc' = [pc EXCEPT ![h] = "exists"] /\ inHand' = [inHand EXCEPT ![h] = t]
           \/ UNCHANGED <<pc, inHand>>
    BY <1>4 DEF TakeMessage, Idle
  <2>2. ASSUME NEW g \in Handler
        PROVE  /\ ToAdd(g)' \subseteq ToAdd(g)
               /\ pc'[g] \in Deciding => inHand'[g] \notin inbox'[g]
    <3>1. CASE g = h
      BY <1>1, <1>4, <2>1, <3>1 DEF ToAdd, Deciding
    <3>2. CASE g # h
      BY <1>1, <2>1, <3>2 DEF ToAdd
    <3>3. QED BY <3>1, <3>2
  <2>3. QED BY <2>2 DEF ToAddShrinks
<1>5. ASSUME NEW h \in Handler, ExistingTransaction(h) \/ ExistTx(h) \/ AddTransaction(h)
      PROVE  ToAddShrinks
  <2>1. /\ pc[h] \in Deciding /\ UNCHANGED <<inbox, inHand>>
        /\ \E next : pc' = [pc EXCEPT ![h] = next]
    BY <1>5 DEF ExistingTransaction, ExistTx, AddTransaction, Deciding
  <2>2. QED BY <1>3, <2>1
<1>6. CASE SendStop
  <2>1. pc' = [h \in Handler |-> IF h = caller THEN "idle" ELSE pc[h]]
        /\ UNCHANGED <<inbox, inHand>>
    BY <1>6 DEF SendStop
  <2>2. \A h \in Handler : pc'[h] \in Deciding => pc[h] \in Deciding
    BY <2>1 DEF Deciding
  <2>3. QED BY <1>2, <2>1, <2>2
<1>7. CASE Execute \/ RemoveTransaction
  <2>1. /\ UNCHANGED <<inbox, inHand>>
        /\ \E next \in {"idle", "remove"} : pc' = [pc EXCEPT !["cons"] = next]
    BY <1>7 DEF Execute, RemoveTransaction
  <2>2. QED BY <1>1, <1>3, <2>1 DEF Deciding
<1>8. CASE \/ ReadStop \/ GetTxForBloc \/ StartFlush \/ EndFlush \/ UNCHANGED vars
           \/ \E c \in Command : RemoveDoomed(c)
  <2>1. UNCHANGED <<inbox, inHand, pc>>
    BY <1>8 DEF ReadStop, GetTxForBloc, StartFlush, EndFlush, RemoveDoomed, vars, callVars
  <2>2. QED BY <1>2, <2>1
<1>9. QED BY <1>4, <1>5, <1>6, <1>7, <1>8 DEF Next, Receive, Flush

\* The pool grows by what a goroutine adds.
LEMMA PoolChange ==
  ASSUME UseInv, [Next]_vars
  PROVE  \/ transactions' \subseteq transactions
         \/ \E h \in Handler : /\ AddTransaction(h) /\ inHand[h] \in Tx
                               /\ transactions' \subseteq transactions \cup {inHand[h]}
<1>1. ASSUME NEW h \in Handler, AddTransaction(h)
      PROVE  /\ transactions' \subseteq transactions \cup {inHand[h]}
             /\ inHand[h] \in Tx \/ transactions' = transactions
  <2>1. inHand[h] \in Item /\ Add(inHand[h], h)
    BY <1>1 DEF AddTransaction, UseInv
  <2>2. QED BY <2>1 DEF Item, Add, Refuse, AlmostClear, poolVars
<1>2. ASSUME NEW t, Remove(t) PROVE transactions' \subseteq transactions
  BY <1>2 DEF Remove, Removed
<1>3. CASE RemoveTransaction
  BY <1>2, <1>3 DEF RemoveTransaction
<1>4. ASSUME NEW c \in Command, RemoveDoomed(c) PROVE transactions' \subseteq transactions
  BY <1>2, <1>4 DEF RemoveDoomed
<1>5. ASSUME NEW h \in Handler,
             (\E t \in inbox[h] : TakeMessage(h, t)) \/ ExistingTransaction(h) \/ ExistTx(h)
      PROVE  transactions' = transactions
  BY <1>5 DEF TakeMessage, ExistingTransaction, ExistTx, poolVars
<1>6. CASE ReadStop \/ SendStop \/ GetTxForBloc \/ StartFlush \/ Execute \/ EndFlush \/ UNCHANGED vars
  BY <1>6 DEF ReadStop, SendStop, GetTxForBloc, StartFlush, Execute, EndFlush, vars, poolVars
<1>7. QED BY <1>1, <1>3, <1>4, <1>5, <1>6 DEF Next, Receive, Flush

\* What has been added is not still to be added.
LEMMA AddedIsDone ==
  ASSUME Apart, UseInv, HandledOnce, NEW h \in Handler, AddTransaction(h), inHand[h] \in Tx
  PROVE  /\ inHand[h] \in ToAdd(h)
         /\ \A g \in Handler : inHand[h] \notin ToAdd(g)'
<1>1. pc[h] = "add" /\ UNCHANGED <<inbox, inHand>>
      /\ \E next \in {"idle", "added"} : pc' = [pc EXCEPT ![h] = next]
  BY DEF AddTransaction
<1>2. inHand[h] \in ToAdd(h) /\ inHand[h] \notin inbox[h] /\ inHand[h] \in Inbox[h]
  BY <1>1 DEF HandledOnce, ToAdd, Deciding
<1>3. ASSUME NEW g \in Handler PROVE inHand[h] \notin ToAdd(g)'
  <2>1. CASE g = h
    BY <1>1, <1>2, <2>1 DEF ToAdd, Deciding, UseInv
  <2>2. CASE g # h
    <3>1. inHand[h] \notin Inbox[g]
      BY <1>2, <2>2, TxPoolAssumption DEF Apart, Handler
    <3>2. ToAdd(g)' = ToAdd(g)
      BY <1>1, <2>2 DEF ToAdd, UseInv
    <3>3. QED BY <3>1, <3>2 DEF HandledOnce
  <2>3. QED BY <2>1, <2>2
<1>4. QED BY <1>2, <1>3

LEMMA HandledInit == Init => HandledOnce
<1> SUFFICES ASSUME Init PROVE HandledOnce
  OBVIOUS
<1>1. inbox = Inbox /\ transactions = {} /\ pc = [h \in Handler |-> "idle"]
  BY DEF Init
<1>2. QED BY <1>1 DEF HandledOnce, ToAdd, Deciding

LEMMA HandledStep == Apart /\ UseInv /\ HandledOnce /\ [Next]_vars => HandledOnce'
<1> SUFFICES ASSUME Apart, UseInv, HandledOnce, [Next]_vars, NEW h \in Handler
             PROVE  /\ ToAdd(h)' \subseteq Inbox[h] /\ ToAdd(h)' \cap transactions' = {}
                    /\ pc'[h] \in Deciding => inHand'[h] \notin inbox'[h]
  BY DEF HandledOnce
<1>1. /\ ToAdd(h)' \subseteq ToAdd(h)
      /\ pc'[h] \in Deciding => inHand'[h] \notin inbox'[h]
  BY ToAddStep DEF ToAddShrinks
<1>2. ToAdd(h) \subseteq Inbox[h] /\ ToAdd(h) \cap transactions = {}
  BY DEF HandledOnce
<1>3. CASE transactions' \subseteq transactions
  BY <1>1, <1>2, <1>3
<1>4. ASSUME NEW g \in Handler, AddTransaction(g), inHand[g] \in Tx,
             transactions' \subseteq transactions \cup {inHand[g]}
      PROVE  ToAdd(h)' \cap transactions' = {}
  BY <1>1, <1>2, <1>4, AddedIsDone
<1>5. QED BY <1>1, <1>2, <1>3, <1>4, PoolChange
-----------------------------------------------------------------------------
(***************************************************************************)
(* PoolInv.                                                                *)
(***************************************************************************)
\* What is added is inserted in the list where its time is, and the rest of
\* the list is that of the map; what almostClear leaves is sorted anew.
LEMMA AddLists ==
  ASSUME UseInv, ListIsPool, NEW t \in Item, NEW h, Add(t, h), t \notin transactions
  PROVE  ListIsPool'
<1>1. CASE Full(t) \/ t \in Command
  BY <1>1 DEF Add, Refuse, poolVars, ListIsPool, SortedLists
<1>2. CASE ~Full(t) /\ t \notin Command
  <2> DEFINE map == transactions \cup {t}
  <2>1. /\ t \in Tx /\ map \subseteq Tx /\ IsFiniteSet(transactions) /\ IsFiniteSet(map)
        /\ \/ AlmostClear(map)
           \/ transactions' = map /\ list' = Insert(list, t, map)
    BY <1>2, TxPoolAssumption, FS_Subset, FS_AddElement DEF Add, Item, UseInv
  <2>2. CASE AlmostClear(map)
    BY <2>2 DEF AlmostClear, ListIsPool, SortedLists
  <2>3. CASE transactions' = map /\ list' = Insert(list, t, map)
    <3>1. Listing(list, transactions)
      BY <2>1, ListsAreListings DEF ListIsPool
    <3>2. Listing(list', map)
      BY <2>1, <2>3, <3>1, InsertListing DEF UseInv
    <3>3. list' \in SortedLists(map)
      BY <2>1, <3>2, ListsAreListings
    <3>4. QED BY <2>3, <3>3 DEF ListIsPool, SortedLists
  <2>4. QED BY <2>1, <2>2, <2>3
<1>3. QED BY <1>1, <1>2

\* What is taken out of the map is taken out of the list.
LEMMA RemoveLists ==
  ASSUME UseInv, ListIsPool, NEW t, Remove(t)
  PROVE  ListIsPool'
<1>1. CASE t \in Command \/ t \notin transactions
  <2>1. transactions' = transactions /\ list' = list
    BY <1>1 DEF Remove, Removed
  <2>2. QED BY <2>1 DEF ListIsPool, SortedLists
<1>2. CASE t \notin Command /\ t \in transactions
  <2>1. transactions' = transactions \ {t} /\ list' = RemoveEntry(list, t)
    BY <1>2 DEF Remove, Removed
  <2>2. IsFiniteSet(transactions) /\ IsFiniteSet(transactions \ {t})
    BY TxPoolAssumption, FS_Subset, FS_RemoveElement DEF UseInv
  <2>3. Listing(list, transactions)
    BY <2>2, ListsAreListings DEF ListIsPool
  <2>4. Listing(list', transactions \ {t})
    BY <1>2, <2>1, <2>3, RemoveListing DEF UseInv
  <2>5. list' \in SortedLists(transactions \ {t})
    BY <2>2, <2>4, ListsAreListings
  <2>6. QED BY <2>1, <2>5 DEF ListIsPool, SortedLists
<1>3. QED BY <1>1, <1>2

\* No hash of the list lacks its transaction, so that no proposal panics.
LEMMA GetTxKeepsPool == ASSUME UseInv, PoolInv, GetTxForBloc PROVE PoolInv'
<1>1. UNCHANGED <<transactions, list>>
  BY DEF GetTxForBloc, poolVars
<1>2. Listing(list, transactions)
  BY TxPoolAssumption, FS_Subset, ListsAreListings DEF PoolInv, ListIsPool, UseInv
<1>3. \A i \in DOMAIN GetFirstsElem(BlockSize) : GetFirstsElem(BlockSize)[i] \in transactions
  <2>1. list \in Seq(transactions) /\ Len(list) \in Nat /\ BlockSize \in Nat
    BY <1>2, TxPoolAssumption DEF Listing
  <2>2. PICK m \in Nat : m <= Len(list) /\ GetFirstsElem(BlockSize) = SubSeq(list, 1, m)
    BY <2>1 DEF GetFirstsElem
  <2>3. \A i \in 1..m : list[i] \in transactions
    BY <2>1, <2>2
  <2>4. SubSeq(list, 1, m) \in Seq(transactions)
    BY <2>2, <2>3, SubSeqProperties
  <2>5. QED BY <2>2, <2>4
<1>4. crashed' = crashed
  BY <1>3 DEF GetTxForBloc
<1>5. QED BY <1>1, <1>4 DEF PoolInv, ListIsPool, NoPanic, SortedLists

LEMMA PoolStep == UseInv /\ HandledOnce /\ PoolInv /\ [Next]_vars => PoolInv'
<1> SUFFICES ASSUME UseInv, HandledOnce, PoolInv, [Next]_vars PROVE PoolInv'
  OBVIOUS
<1>1. ASSUME UNCHANGED <<transactions, list, crashed>> PROVE PoolInv'
  BY <1>1 DEF PoolInv, ListIsPool, NoPanic, SortedLists
<1>2. ASSUME NEW h \in Handler, AddTransaction(h) PROVE PoolInv'
  <2>1. inHand[h] \in Item /\ Add(inHand[h], h) /\ crashed' = crashed
    BY <1>2 DEF AddTransaction, UseInv
  <2>2. inHand[h] \notin transactions
    BY <1>2 DEF AddTransaction, HandledOnce, ToAdd, Deciding
  <2>3. ListIsPool'
    BY <2>1, <2>2, AddLists DEF PoolInv
  <2>4. QED BY <2>1, <2>3 DEF PoolInv, NoPanic
<1>3. CASE RemoveTransaction
  <2>1. Remove(Head(toFlush)) /\ crashed' = crashed
    BY <1>3 DEF RemoveTransaction
  <2>2. QED BY <2>1, RemoveLists DEF PoolInv, NoPanic
<1>4. ASSUME NEW c \in Command, RemoveDoomed(c) PROVE PoolInv'
  <2>1. Remove(c) /\ crashed' = crashed
    BY <1>4 DEF RemoveDoomed
  <2>2. QED BY <2>1, RemoveLists DEF PoolInv, NoPanic
<1>5. ASSUME NEW h \in Handler,
             (\E t \in inbox[h] : TakeMessage(h, t)) \/ ExistingTransaction(h) \/ ExistTx(h)
      PROVE  PoolInv'
  BY <1>1, <1>5 DEF TakeMessage, ExistingTransaction, ExistTx, poolVars
<1>6. CASE ReadStop \/ SendStop \/ StartFlush \/ Execute \/ EndFlush \/ UNCHANGED vars
  BY <1>1, <1>6 DEF ReadStop, SendStop, StartFlush, Execute, EndFlush, vars, poolVars
<1>7. QED BY <1>2, <1>3, <1>4, <1>5, <1>6, GetTxKeepsPool DEF Next, Receive, Flush

LEMMA PoolInit == Init => PoolInv
<1> SUFFICES ASSUME Init PROVE PoolInv
  OBVIOUS
<1>1. transactions = {} /\ list = <<>> /\ ~crashed
  BY DEF Init
<1>2. Listing(<<>>, {})
  BY DEF Listing
<1>3. QED BY <1>1, <1>2, FS_EmptySet, ListsAreListings DEF PoolInv, ListIsPool, NoPanic

\* The map and the sorted list hold the same transactions, the oldest first,
\* and no proposal meets a hash without its transaction, if no transaction is
\* sent to both goroutines (sortedList.insert and remove, addTransaction,
\* removeTransaction, almostClear, getTxForBloc).
THEOREM TxPoolListed ==
  ASSUME Inbox["cons"] \cap Inbox["tx"] \subseteq Command
  PROVE  Spec => []PoolInv
<1>1. Apart
  BY DEF Apart
<1>2. HandledOnce /\ UseInv /\ [Next]_vars => HandledOnce'
  BY <1>1, HandledStep
<1>3. QED BY <1>2, HandledInit, PoolInit, PoolStep, TxPoolUse, PTL DEF Spec
-----------------------------------------------------------------------------
(***************************************************************************)
(* StuckNeedsRemovals.  A decision to resume costs a quarter of the pool;  *)
(* what is removed from the pool is spent, and never comes back.           *)
(***************************************************************************)
LEMMA QuarterType == Quarter \in Nat /\ Quarter <= Threshold /\ Threshold \in Nat
  BY QuarterLess, TxPoolAssumption DEF Quarter

LEMMA SpentFinite == IsFiniteSet(Spent) /\ Cardinality(Spent) \in Nat
<1>1. Spent \in SUBSET Tx
  BY DEF Spent
<1>2. QED BY <1>1, TxPoolAssumption, FS_Subset, FS_CardinalityType

LEMMA SpentFiniteNext == IsFiniteSet(Spent') /\ Cardinality(Spent') \in Nat
<1>1. Spent' \in SUBSET Tx
  BY DEF Spent
<1>2. QED BY <1>1, TxPoolAssumption, FS_Subset, FS_CardinalityType

\* What has been executed stays executed.
LEMMA ExecutedGrows ==
  ASSUME UseInv, [Next]_vars
  PROVE  \A t : HasExecuted(t) => HasExecuted(t)'
<1>1. CASE Execute
  <2>1. executed' = Append(executed, Head(toFlush)) /\ executed \in Seq(Item)
        /\ Head(toFlush) \in Item
    BY <1>1 DEF Execute, UseInv, Flushing
  <2>2. QED BY <2>1, ExecutedStays
<1>2. CASE executed' = executed
  BY <1>2 DEF HasExecuted
<1>3. CASE ~Execute
  BY <1>3, <1>2
     DEF Next, Receive, Flush, TakeMessage, ExistingTransaction, ExistTx, AddTransaction,
         ReadStop, SendStop, GetTxForBloc, StartFlush, RemoveTransaction, EndFlush,
         RemoveDoomed, vars, blockVars
<1>4. QED BY <1>1, <1>3

\* Nothing that is spent comes back.
LEMMA SpentGrows ==
  ASSUME Apart, UseInv, HandledOnce, [Next]_vars
  PROVE  Spent \subseteq Spent' /\ Cardinality(Spent) <= Cardinality(Spent')
<1>1. ASSUME NEW t \in Spent PROVE t \in Spent'
  <2>1. t \in Tx /\ HasExecuted(t)' /\ t \notin transactions
    BY <1>1, ExecutedGrows DEF Spent
  <2>2. \A h \in Handler : t \notin ToAdd(h) /\ t \notin ToAdd(h)'
    BY <1>1, ToAddStep DEF Spent, ToAddShrinks
  <2>3. t \notin transactions'
    BY <2>1, <2>2, PoolChange, AddedIsDone
  <2>4. QED BY <2>1, <2>2, <2>3 DEF Spent
<1>2. Spent \in SUBSET Spent'
  BY <1>1
<1>3. QED BY <1>2, SpentFiniteNext, FS_Subset

\* A transaction that has been executed is spent when it leaves the pool.
LEMMA RemovedIsSpent ==
  ASSUME Apart, UseInv, HandledOnce, [Next]_vars,
         NEW t \in transactions, HasExecuted(t), t \notin transactions'
  PROVE  Cardinality(Spent) + 1 <= Cardinality(Spent')
<1>1. t \in Tx /\ t \notin Spent /\ HasExecuted(t)'
  BY ExecutedGrows DEF UseInv, Spent
<1>2. \A h \in Handler : t \notin ToAdd(h) /\ t \notin ToAdd(h)'
  BY ToAddStep DEF HandledOnce, ToAddShrinks
<1>3. t \in Spent'
  BY <1>1, <1>2 DEF Spent
<1>4. Spent \cup {t} \in SUBSET Spent'
  BY <1>3, SpentGrows
<1>5. Cardinality(Spent \cup {t}) = Cardinality(Spent) + 1
  BY <1>1, SpentFinite, FS_AddElement
<1>6. QED BY <1>4, <1>5, SpentFiniteNext, FS_Subset

\* Half of a number, rounded, times a quarter of the pool.
LEMMA Halves ==
  ASSUME NEW n \in Nat, NEW q \in Nat
  PROVE  /\ (n \div 2) * q \in Nat /\ ((n + 1) \div 2) * q \in Nat
         /\ (n \div 2) * q <= ((n + 1) \div 2) * q
         /\ ((n + 2) \div 2) * q = (n \div 2) * q + q
<1>1. /\ n \div 2 \in Nat /\ (n + 1) \div 2 \in Nat
      /\ (n + 2) \div 2 = n \div 2 + 1
      /\ (n + 1) \div 2 = n \div 2 \/ (n + 1) \div 2 = n \div 2 + 1
  OBVIOUS
<1>2. \A a \in Nat : a * q \in Nat /\ (a + 1) * q = a * q + q
  OBVIOUS
<1>3. QED BY <1>1, <1>2

LEMMA PendingType ==
  ASSUME StopIInv
  PROVE  /\ Pending \in Nat /\ Len(stopChan) \in Nat
         /\ Cardinality(transactions) \in Nat /\ Cardinality(transactions) <= Threshold
  BY PoolSize DEF StopIInv, StopShape, Pending

\* Nothing is decided, and while the pool is paused what leaves it is spent.
LEMMA PaidStays ==
  ASSUME StopIInv, ResumesPaid, UNCHANGED <<stopChan, loop, status>>,
         Cardinality(Spent) <= Cardinality(Spent'), Cardinality(Spent') \in Nat,
         status \/ /\ Cardinality(transactions') \in Nat
                   /\ Cardinality(Spent) + Cardinality(transactions)
                        <= Cardinality(Spent') + Cardinality(transactions')
  PROVE  ResumesPaid'
<1>1. Pending' = Pending /\ Pending \in Nat /\ Cardinality(transactions) \in Nat
  BY PendingType DEF Pending
<1>2. Quarter \in Nat /\ Threshold \in Nat
  BY QuarterType
<1>3. /\ (Pending \div 2) * Quarter \in Nat /\ ((Pending + 1) \div 2) * Quarter \in Nat
  BY <1>1, <1>2, Halves
<1>4. Cardinality(Spent) \in Nat
  BY SpentFinite
<1>5. CASE status
  <2>1. Cardinality(Spent) >= ((Pending + 1) \div 2) * Quarter
    BY <1>5 DEF ResumesPaid
  <2>2. Cardinality(Spent') >= ((Pending' + 1) \div 2) * Quarter
    BY <1>1, <1>3, <1>4, <2>1
  <2>3. QED BY <1>5, <2>2 DEF ResumesPaid, Quarter
<1>6. CASE ~status
  <2>1. Cardinality(Spent) >= (Pending \div 2) * Quarter + (Threshold - Cardinality(transactions))
    BY <1>6 DEF ResumesPaid
  <2>2. Cardinality(Spent') >=
          (Pending' \div 2) * Quarter + (Threshold - Cardinality(transactions'))
    BY <1>1, <1>2, <1>3, <1>4, <1>6, <2>1
  <2>3. QED BY <1>6, <2>2 DEF ResumesPaid, Quarter
<1>7. QED BY <1>5, <1>6

\* The pool is full: it decides to pause, which costs nothing yet.
LEMMA PaidWhenFull ==
  ASSUME StopIInv, ResumesPaid, loop = "select", NEW h, TellIfContinu(FALSE, h), status,
         Cardinality(transactions') = Threshold,
         Cardinality(Spent) <= Cardinality(Spent'), Cardinality(Spent') \in Nat
  PROVE  ResumesPaid'
<1>1. status' = FALSE /\ Pending' = Pending + 1 /\ Pending \in Nat
  <2>1. /\ status' = FALSE
        /\ \/ stopChan' = Append(stopChan, FALSE) /\ loop' = "select"
           \/ stopChan' = stopChan /\ loop' = "tell"
    BY DEF TellIfContinu
  <2>2. Len(stopChan) \in Nat /\ Len(Append(stopChan, FALSE)) = Len(stopChan) + 1
    BY DEF StopIInv, StopShape
  <2>3. \/ Len(stopChan') = Len(stopChan) + 1 /\ loop' = "select"
        \/ Len(stopChan') = Len(stopChan) /\ loop' = "tell"
    BY <2>1, <2>2
  <2>4. QED BY <2>1, <2>2, <2>3 DEF Pending
<1>2. Cardinality(Spent) >= ((Pending + 1) \div 2) * Quarter
  BY DEF ResumesPaid
<1>3. /\ ((Pending + 1) \div 2) * Quarter \in Nat /\ Cardinality(Spent) \in Nat
      /\ Threshold \in Nat
  BY <1>1, QuarterType, Halves, SpentFinite
<1>4. Cardinality(Spent') >=
        (Pending' \div 2) * Quarter + (Threshold - Cardinality(transactions'))
  BY <1>1, <1>2, <1>3
<1>5. QED BY <1>1, <1>4 DEF ResumesPaid, Quarter

\* A quarter is free again: it decides to resume, and has paid for it.
LEMMA PaidWhenFree ==
  ASSUME StopIInv, ResumesPaid, loop = "select", NEW h, TellIfContinu(TRUE, h), ~status,
         Cardinality(transactions') \in Nat, QuarterFree(Cardinality(transactions')),
         Cardinality(Spent) + Cardinality(transactions)
           <= Cardinality(Spent') + Cardinality(transactions'),
         Cardinality(Spent') \in Nat
  PROVE  ResumesPaid'
<1>1. status' = TRUE /\ Pending' = Pending + 1 /\ Pending \in Nat
  <2>1. /\ status' = TRUE
        /\ \/ stopChan' = Append(stopChan, TRUE) /\ loop' = "select"
           \/ stopChan' = stopChan /\ loop' = "tell"
    BY DEF TellIfContinu
  <2>2. Len(stopChan) \in Nat /\ Len(Append(stopChan, TRUE)) = Len(stopChan) + 1
    BY DEF StopIInv, StopShape
  <2>3. \/ Len(stopChan') = Len(stopChan) + 1 /\ loop' = "select"
        \/ Len(stopChan') = Len(stopChan) /\ loop' = "tell"
    BY <2>1, <2>2
  <2>4. QED BY <2>1, <2>2, <2>3 DEF Pending
<1>2. Cardinality(Spent) >= (Pending \div 2) * Quarter + (Threshold - Cardinality(transactions))
  BY DEF ResumesPaid
<1>3. /\ (Pending \div 2) * Quarter \in Nat /\ Cardinality(Spent) \in Nat
      /\ ((Pending + 2) \div 2) * Quarter = (Pending \div 2) * Quarter + Quarter
  BY <1>1, QuarterType, Halves, SpentFinite
<1>4. Threshold - Cardinality(transactions') >= Quarter
  BY QuarterLess, TxPoolAssumption DEF QuarterFree, Quarter
<1>5. Cardinality(Spent') >= (Pending \div 2) * Quarter + (Threshold - Cardinality(transactions'))
  <2>1. Cardinality(transactions) \in Nat /\ Threshold \in Nat
    BY PendingType, QuarterType
  <2>2. QED BY <1>2, <1>3, <2>1
<1>6. Cardinality(Spent') >= ((Pending + 2) \div 2) * Quarter
  BY <1>3, <1>4, <1>5, QuarterType
<1>7. Pending' + 1 = Pending + 2
  BY <1>1
<1>8. QED BY <1>1, <1>6, <1>7 DEF ResumesPaid, Quarter

\* transactionHandler reads: fewer are pending.
LEMMA PaidWhenRead ==
  ASSUME StopIInv, ResumesPaid, ReadStop,
         Cardinality(Spent) <= Cardinality(Spent'), Cardinality(Spent') \in Nat
  PROVE  ResumesPaid'
<1>1. /\ stopChan # <<>> /\ stopChan' = Tail(stopChan) /\ stopChan \in Seq(BOOLEAN)
      /\ UNCHANGED <<transactions, status, loop>>
  BY DEF ReadStop, StopIInv, StopShape, poolVars
<1>2. Pending' \in Nat /\ Pending = Pending' + 1
  BY <1>1 DEF Pending
<1>3. /\ (Pending' \div 2) * Quarter \in Nat /\ ((Pending' + 1) \div 2) * Quarter \in Nat
      /\ (Pending' \div 2) * Quarter <= ((Pending' + 1) \div 2) * Quarter
      /\ ((Pending' + 2) \div 2) * Quarter = (Pending' \div 2) * Quarter + Quarter
      /\ ((Pending' + 1) \div 2) * Quarter <= ((Pending' + 2) \div 2) * Quarter
  <2>1. \A n \in Nat : n + 1 \in Nat /\ (n + 1) + 1 = n + 2
    OBVIOUS
  <2>2. QED BY <1>2, <2>1, Halves, QuarterType
<1>4. Cardinality(Spent) \in Nat /\ Quarter \in Nat /\ Threshold \in Nat
      /\ Cardinality(transactions) \in Nat
  BY SpentFinite, QuarterType, PendingType
<1>5. CASE status
  <2>1. Cardinality(Spent) >= ((Pending' + 2) \div 2) * Quarter
    <3>1. Pending + 1 = Pending' + 2
      BY <1>2
    <3>2. QED BY <1>5, <3>1 DEF ResumesPaid
  <2>2. Cardinality(Spent') >= ((Pending' + 1) \div 2) * Quarter
    BY <1>3, <1>4, <2>1
  <2>3. QED BY <1>1, <1>5, <2>2 DEF ResumesPaid, Quarter
<1>6. CASE ~status
  <2>1. Cardinality(Spent) >=
          ((Pending' + 1) \div 2) * Quarter + (Threshold - Cardinality(transactions))
    BY <1>2, <1>6 DEF ResumesPaid
  <2>2. Cardinality(Spent') >=
          (Pending' \div 2) * Quarter + (Threshold - Cardinality(transactions'))
    BY <1>1, <1>3, <1>4, <2>1
  <2>3. QED BY <1>1, <1>6, <2>2 DEF ResumesPaid, Quarter
<1>7. QED BY <1>5, <1>6

\* What leaves the pool when it has been executed is spent.
LEMMA RemoveSpends ==
  ASSUME Apart, UseInv, HandledOnce, [Next]_vars, StopIInv,
         NEW t, Remove(t), t \in Command \/ HasExecuted(t)
  PROVE  /\ Cardinality(transactions') \in Nat
         /\ Cardinality(Spent) + Cardinality(transactions)
              <= Cardinality(Spent') + Cardinality(transactions')
<1>1. /\ Cardinality(Spent) \in Nat /\ Cardinality(Spent') \in Nat
      /\ Cardinality(Spent) <= Cardinality(Spent')
      /\ IsFiniteSet(transactions) /\ Cardinality(transactions) \in Nat
  BY SpentFinite, SpentFiniteNext, SpentGrows, PoolSize DEF StopIInv
<1>2. CASE t \in Command \/ t \notin transactions
  <2>1. transactions' = transactions
    BY <1>2 DEF Remove, Removed
  <2>2. QED BY <1>1, <2>1
<1>3. CASE t \notin Command /\ t \in transactions
  <2>1. transactions' = transactions \ {t}
    BY <1>3 DEF Remove, Removed
  <2>2. /\ Cardinality(transactions') = Cardinality(transactions) - 1
        /\ Cardinality(transactions') \in Nat
    BY <1>1, <1>3, <2>1, FS_RemoveElement, FS_CardinalityType
  <2>3. Cardinality(Spent) + 1 <= Cardinality(Spent')
    BY <1>3, <2>1, RemovedIsSpent
  <2>4. QED BY <1>1, <2>2, <2>3
<1>4. QED BY <1>2, <1>3

LEMMA RemovePays ==
  ASSUME Apart, UseInv, HandledOnce, [Next]_vars, StopIInv, ResumesPaid, loop = "select",
         NEW t, Remove(t), t \in Command \/ HasExecuted(t)
  PROVE  ResumesPaid'
<1>1. /\ Cardinality(Spent') \in Nat /\ Cardinality(Spent) <= Cardinality(Spent')
      /\ Cardinality(transactions') \in Nat
      /\ Cardinality(Spent) + Cardinality(transactions)
           <= Cardinality(Spent') + Cardinality(transactions')
  BY SpentFiniteNext, SpentGrows, RemoveSpends
<1>2. CASE UNCHANGED stopVars
  BY <1>1, <1>2, PaidStays DEF stopVars
<1>3. CASE ~UNCHANGED stopVars
  <2>1. /\ ~status /\ TellIfContinu(TRUE, "none") /\ transactions' = transactions \ {t}
        /\ QuarterFree(Cardinality(transactions \ {t}))
    BY <1>3 DEF Remove, Removed
  <2>2. QED BY <1>1, <2>1, PaidWhenFree
<1>4. QED BY <1>2, <1>3

LEMMA AddPays ==
  ASSUME Apart, UseInv, HandledOnce, [Next]_vars, StopIInv, ResumesPaid, loop = "select",
         NEW t \in Item, NEW h, Add(t, h)
  PROVE  ResumesPaid'
<1>1. Cardinality(Spent') \in Nat /\ Cardinality(Spent) <= Cardinality(Spent')
      /\ Cardinality(Spent) \in Nat
  BY SpentFinite, SpentFiniteNext, SpentGrows
<1>2. IsFiniteSet(transactions) /\ Cardinality(transactions) \in Nat
  BY PoolSize DEF StopIInv
<1>3. CASE Full(t) \/ t \in Command
  <2>1. UNCHANGED stopVars /\ transactions' = transactions
    BY <1>3 DEF Add, Refuse, poolVars
  <2>2. QED BY <1>1, <1>2, <2>1, PaidStays DEF stopVars
<1>4. CASE ~Full(t) /\ t \notin Command
  <2> DEFINE map == transactions \cup {t}
             reached == Cardinality(map) = Threshold
  <2>1. /\ IF behavior = "Drop" /\ reached THEN AlmostClear(map) ELSE transactions' = map
        /\ IF behavior = "Ignore" /\ reached THEN TellIfContinu(FALSE, h) ELSE UNCHANGED stopVars
    BY <1>4 DEF Add
  <2>2. Cardinality(map) \in Nat /\ Cardinality(transactions) <= Cardinality(map)
    <3>1. Cardinality(map) = IF t \in transactions THEN Cardinality(transactions)
                             ELSE Cardinality(transactions) + 1
      BY <1>2, FS_AddElement
    <3>2. QED BY <1>2, <3>1
  <2> HIDE DEF map
  <2>3. CASE behavior = "Drop"
    <3>1. status /\ UNCHANGED stopVars
      BY <2>1, <2>3 DEF StopIInv, StopInv, PausedWhenFull
    <3>2. QED BY <1>1, <3>1, PaidStays DEF stopVars
  <2>4. CASE behavior # "Drop" /\ UNCHANGED stopVars
    <3>1. transactions' = map
      BY <2>1, <2>4
    <3>2. Cardinality(Spent) + Cardinality(transactions)
            <= Cardinality(Spent') + Cardinality(transactions')
      BY <1>1, <1>2, <2>2, <3>1
    <3>3. QED BY <1>1, <2>2, <2>4, <3>1, <3>2, PaidStays DEF stopVars
  <2>5. CASE behavior # "Drop" /\ ~UNCHANGED stopVars
    <3>1. reached /\ transactions' = map /\ TellIfContinu(FALSE, h)
      BY <2>1, <2>5
    <3>2. status
      BY <2>5, <3>1 DEF TellIfContinu, StopIInv, StopShape
    <3>3. QED BY <1>1, <3>1, <3>2, PaidWhenFull
  <2>6. QED BY <2>3, <2>4, <2>5
<1>5. QED BY <1>3, <1>4

LEMMA PaidStep ==
  Apart /\ UseInv /\ HandledOnce /\ StopIInv /\ ResumesPaid /\ [Next]_vars => ResumesPaid'
<1> SUFFICES ASSUME Apart, UseInv, HandledOnce, StopIInv, ResumesPaid, [Next]_vars
             PROVE  ResumesPaid'
  OBVIOUS
<1>1. /\ Cardinality(Spent') \in Nat /\ Cardinality(Spent) <= Cardinality(Spent')
      /\ Cardinality(Spent) \in Nat /\ Cardinality(transactions) \in Nat
  BY SpentFinite, SpentFiniteNext, SpentGrows, PendingType
<1>2. ASSUME UNCHANGED <<transactions, stopChan, loop, status>> PROVE ResumesPaid'
  <2>1. Cardinality(Spent) + Cardinality(transactions)
          <= Cardinality(Spent') + Cardinality(transactions')
    BY <1>1, <1>2
  <2>2. QED BY <1>1, <1>2, <2>1, PaidStays
<1>3. ASSUME NEW h \in Handler, AddTransaction(h) PROVE ResumesPaid'
  <2>1. inHand[h] \in Item /\ Add(inHand[h], h) /\ loop = "select"
    BY <1>3 DEF AddTransaction, Free, UseInv
  <2>2. QED BY <2>1, AddPays
<1>4. CASE RemoveTransaction
  <2>1. Remove(Head(toFlush)) /\ HasExecuted(Head(toFlush)) /\ loop = "select"
    BY <1>4 DEF RemoveTransaction, Free, UseInv
  <2>2. QED BY <2>1, RemovePays
<1>5. ASSUME NEW c \in Command, RemoveDoomed(c) PROVE ResumesPaid'
  <2>1. Remove(c) /\ loop = "select"
    BY <1>5 DEF RemoveDoomed, Free
  <2>2. QED BY <2>1, RemovePays
<1>6. CASE SendStop
  <2>1. /\ loop = "tell" /\ stopChan' = Append(stopChan, status) /\ loop' = "select"
        /\ UNCHANGED <<transactions, status>>
    BY <1>6 DEF SendStop, poolVars
  <2>2. Len(Append(stopChan, status)) = Len(stopChan) + 1 /\ Len(stopChan) \in Nat
    BY DEF StopIInv, StopShape
  <2>3. Pending' = Pending
    BY <2>1, <2>2 DEF Pending
  <2>4. /\ (Pending \div 2) * Quarter \in Nat /\ ((Pending + 1) \div 2) * Quarter \in Nat
        /\ Threshold \in Nat
    BY PendingType, QuarterType, Halves
  <2>5. CASE status
    <3>1. Cardinality(Spent) >= ((Pending + 1) \div 2) * Quarter
      BY <2>5 DEF ResumesPaid
    <3>2. Cardinality(Spent') >= ((Pending' + 1) \div 2) * Quarter
      BY <1>1, <2>3, <2>4, <3>1
    <3>3. QED BY <2>1, <2>5, <3>2 DEF ResumesPaid, Quarter
  <2>6. CASE ~status
    <3>1. Cardinality(Spent) >= (Pending \div 2) * Quarter + (Threshold - Cardinality(transactions))
      BY <2>6 DEF ResumesPaid
    <3>2. Cardinality(Spent') >=
            (Pending' \div 2) * Quarter + (Threshold - Cardinality(transactions'))
      BY <1>1, <2>1, <2>3, <2>4, <3>1
    <3>3. QED BY <2>1, <2>6, <3>2 DEF ResumesPaid, Quarter
  <2>7. QED BY <2>5, <2>6
<1>7. ASSUME NEW h \in Handler,
             (\E t \in inbox[h] : TakeMessage(h, t)) \/ ExistingTransaction(h) \/ ExistTx(h)
      PROVE  ResumesPaid'
  BY <1>2, <1>7 DEF TakeMessage, ExistingTransaction, ExistTx, poolVars, stopVars
<1>8. CASE GetTxForBloc \/ StartFlush \/ Execute \/ EndFlush \/ UNCHANGED vars
  BY <1>2, <1>8 DEF GetTxForBloc, StartFlush, Execute, EndFlush, vars, poolVars, stopVars
<1>9. QED
  BY <1>1, <1>3, <1>4, <1>5, <1>6, <1>7, <1>8, PaidWhenRead DEF Next, Receive, Flush

LEMMA PaidInit == Init => ResumesPaid
<1> SUFFICES ASSUME Init PROVE ResumesPaid
  OBVIOUS
<1>1. status = TRUE /\ Pending = 0
  BY DEF Init, Pending
<1>2. (0 + 1) \div 2 = 0 /\ 0 * Quarter = 0
  BY QuarterType
<1>3. QED BY <1>1, <1>2, SpentFinite DEF ResumesPaid

\* The loop and transactionHandler wait for each other only after the pool has
\* been emptied by a quarter for every two places of the stop channel, if no
\* transaction is sent to both goroutines (tellIfContinu, afterTxRemove).
THEOREM TxPoolStuckLate ==
  ASSUME Inbox["cons"] \cap Inbox["tx"] \subseteq Command
  PROVE  Spec => []StuckNeedsRemovals
<1>1. Apart
  BY DEF Apart
<1>2. HandledOnce /\ UseInv /\ [Next]_vars => HandledOnce'
  BY <1>1, HandledStep
<1>3. UseInv /\ HandledOnce /\ StopIInv /\ ResumesPaid /\ [Next]_vars => ResumesPaid'
  BY <1>1, PaidStep
<1>4. UseInv /\ StopIInv /\ ResumesPaid => StuckNeedsRemovals
  <2> SUFFICES ASSUME UseInv, StopIInv, ResumesPaid, Stuck
               PROVE  Cardinality({executed[i] : i \in DOMAIN executed} \cap Tx)
                        >= ((StopCap + 1) \div 2) * Quarter
    BY DEF StuckNeedsRemovals, Quarter
  <2> DEFINE done == {executed[i] : i \in DOMAIN executed} \cap Tx
  <2>1. Spent \in SUBSET done
    BY DEF Spent, HasExecuted
  <2>2. IsFiniteSet(done) /\ Cardinality(done) \in Nat /\ Cardinality(Spent) <= Cardinality(done)
    <3>1. done \in SUBSET Tx
      OBVIOUS
    <3>2. IsFiniteSet(done)
      BY <3>1, TxPoolAssumption, FS_Subset
    <3>3. QED BY <2>1, <3>2, FS_Subset, FS_CardinalityType
  <2>3. Pending = StopCap + 1 /\ StopCap \in Nat
    BY TxPoolAssumption DEF Stuck, Pending
  <2>4. Cardinality(Spent) >= ((StopCap + 1) \div 2) * Quarter
    <3>1. \A n \in Nat : n + 1 \in Nat /\ (n + 1) + 1 = n + 2
      OBVIOUS
    <3>2. /\ ((StopCap + 1) \div 2) * Quarter \in Nat
          /\ ((StopCap + 1) \div 2) * Quarter <= (((StopCap + 1) + 1) \div 2) * Quarter
          /\ (((StopCap + 1) + 1) \div 2) * Quarter \in Nat
      BY <2>3, <3>1, Halves, QuarterType
    <3>3. Cardinality(Spent) \in Nat /\ Threshold - Cardinality(transactions) >= 0
          /\ Threshold - Cardinality(transactions) \in Int
      BY SpentFinite, PendingType, QuarterType
    <3>4. CASE status
      <4>1. Cardinality(Spent) >= (((StopCap + 1) + 1) \div 2) * Quarter
        BY <2>3, <3>4 DEF ResumesPaid
      <4>2. QED BY <3>2, <3>3, <4>1
    <3>5. CASE ~status
      <4>1. Cardinality(Spent) >=
              ((StopCap + 1) \div 2) * Quarter + (Threshold - Cardinality(transactions))
        BY <2>3, <3>5 DEF ResumesPaid
      <4>2. QED BY <3>2, <3>3, <4>1
    <3>6. QED BY <3>4, <3>5
  <2>5. QED
    <3>1. /\ ((StopCap + 1) \div 2) * Quarter \in Nat /\ Cardinality(Spent) \in Nat
      <4>1. StopCap + 1 \in Nat
        BY <2>3
      <4>2. QED BY <4>1, Halves, QuarterType, SpentFinite
    <3>2. QED BY <2>2, <2>4, <3>1
<1>5. QED BY <1>2, <1>3, <1>4, HandledInit, PaidInit, StopInit, StopStep, TxPoolUse, PTL DEF Spec
-----------------------------------------------------------------------------
(***************************************************************************)
(* The types and the limits.                                               *)
(***************************************************************************)
\* The part of TypeOK that no invariant above states.
LimitsInv ==
  /\ behavior \in Behaviors /\ Cardinality(commands) <= Threshold
  /\ Len(stopChan) <= StopCap
  /\ caller \in Handler \cup {"none"}
  /\ foreign \subseteq Foreign /\ crashed \in BOOLEAN

LEMMA TellLimits ==
  ASSUME StopShape, LimitsInv, NEW b, NEW h \in Handler \cup {"none"},
         TellIfContinu(b, h) \/ UNCHANGED stopVars
  PROVE  Len(stopChan') <= StopCap /\ caller' \in Handler \cup {"none"}
<1>1. stopChan \in Seq(BOOLEAN) /\ Len(stopChan) \in Nat /\ StopCap \in Nat
  BY TxPoolAssumption DEF StopShape
<1>2. stopChan' = stopChan \/ (Len(stopChan) < StopCap /\ \E x : stopChan' = Append(stopChan, x))
  BY DEF TellIfContinu, stopVars
<1>3. caller' \in Handler \cup {"none"}
  BY DEF TellIfContinu, stopVars, LimitsInv
<1>4. Len(stopChan') <= StopCap
  BY <1>1, <1>2 DEF LimitsInv
<1>5. QED BY <1>3, <1>4

LEMMA AddLimits ==
  ASSUME StopShape, UseInv, LimitsInv, NEW t \in Item, NEW h \in Handler, Add(t, h)
  PROVE  /\ Cardinality(commands') <= Threshold
         /\ Len(stopChan') <= StopCap /\ caller' \in Handler \cup {"none"}
<1>1. CASE Full(t)
  BY <1>1, TellLimits DEF Add, Refuse, poolVars, LimitsInv
<1>2. CASE ~Full(t) /\ t \in Command
  <2>1. Cardinality(commands) < Threshold /\ commands' = commands \cup {t} /\ UNCHANGED stopVars
    <3>1. IsFiniteSet(commands) /\ Cardinality(commands) \in Nat
      BY TxPoolAssumption, FS_Subset, FS_CardinalityType DEF UseInv
    <3>2. QED BY <1>2, <3>1, TxPoolAssumption DEF Add, Full
  <2>2. IsFiniteSet(commands) /\ Cardinality(commands) \in Nat
    BY TxPoolAssumption, FS_Subset, FS_CardinalityType DEF UseInv
  <2>3. Cardinality(commands') <= Cardinality(commands) + 1
    <3>1. Cardinality(commands \cup {t}) =
            IF t \in commands THEN Cardinality(commands) ELSE Cardinality(commands) + 1
      BY <2>2, FS_AddElement
    <3>2. QED BY <2>1, <2>2, <3>1
  <2>4. Cardinality(commands') \in Nat
    BY <2>1, <2>2, FS_AddElement, FS_CardinalityType
  <2>5. QED BY <2>1, <2>2, <2>3, <2>4, TellLimits, TxPoolAssumption
<1>3. CASE ~Full(t) /\ t \notin Command
  <2>1. commands' = commands
    BY <1>3 DEF Add
  <2>2. TellIfContinu(FALSE, h) \/ UNCHANGED stopVars
    BY <1>3 DEF Add
  <2>3. QED BY <2>1, <2>2, TellLimits DEF LimitsInv
<1>4. QED BY <1>1, <1>2, <1>3

LEMMA RemoveLimits ==
  ASSUME StopShape, UseInv, LimitsInv, NEW t, Remove(t)
  PROVE  /\ Cardinality(commands') <= Threshold
         /\ Len(stopChan') <= StopCap /\ caller' \in Handler \cup {"none"}
<1>1. IsFiniteSet(commands) /\ Cardinality(commands) \in Nat
  BY TxPoolAssumption, FS_Subset, FS_CardinalityType DEF UseInv
<1>2. commands' = commands \/ commands' = commands \ {t}
  BY DEF Remove
<1>3. Cardinality(commands') <= Cardinality(commands) /\ Cardinality(commands') \in Nat
  <2>1. commands' \subseteq commands
    BY <1>2
  <2>2. QED BY <1>1, <2>1, FS_Subset, FS_CardinalityType
<1>4. Cardinality(commands') <= Threshold
  BY <1>1, <1>3, TxPoolAssumption DEF LimitsInv
<1>5. TellIfContinu(TRUE, "none") \/ UNCHANGED stopVars
  BY DEF Remove
<1>6. QED BY <1>4, <1>5, TellLimits

LEMMA LimitsInit == Init => LimitsInv
<1>1. Cardinality({}) <= Threshold
  BY TxPoolAssumption, FS_EmptySet
<1>2. Len(<<>>) <= StopCap
  BY TxPoolAssumption
<1>3. QED BY <1>1, <1>2 DEF Init, LimitsInv

LEMMA LimitsStep == StopShape /\ UseInv /\ LimitsInv /\ [Next]_vars => LimitsInv'
<1> SUFFICES ASSUME StopShape, UseInv, LimitsInv, [Next]_vars PROVE LimitsInv'
  OBVIOUS
<1>1. ASSUME NEW h \in Handler, Receive(h) PROVE LimitsInv'
  <2>1. CASE (\E t \in inbox[h] : TakeMessage(h, t)) \/ ExistingTransaction(h) \/ ExistTx(h)
    BY <2>1 DEF TakeMessage, ExistingTransaction, ExistTx, poolVars, stopVars, blockVars, LimitsInv
  <2>2. CASE AddTransaction(h)
    <3>1. inHand[h] \in Item
      BY <2>2 DEF AddTransaction, UseInv
    <3>2. QED BY <2>2, <3>1, AddLimits DEF AddTransaction, blockVars, LimitsInv
  <2>3. QED BY <1>1, <2>1, <2>2 DEF Receive
<1>2. CASE ReadStop
  <2>1. stopChan \in Seq(BOOLEAN) /\ stopChan # <<>> /\ stopChan' = Tail(stopChan)
    BY <1>2 DEF ReadStop, StopShape
  <2>2. Len(stopChan') <= Len(stopChan) /\ Len(stopChan) \in Nat /\ Len(stopChan') \in Nat
    BY <2>1
  <2>3. QED BY <1>2, <2>2, TxPoolAssumption DEF ReadStop, poolVars, blockVars, LimitsInv
<1>3. CASE SendStop
  <2>1. /\ stopChan \in Seq(BOOLEAN) /\ Len(stopChan) < StopCap
        /\ stopChan' = Append(stopChan, status)
    BY <1>3 DEF SendStop, StopShape
  <2>2. Len(stopChan') <= StopCap
    BY <2>1, TxPoolAssumption
  <2>3. QED BY <1>3, <2>2 DEF SendStop, poolVars, blockVars, LimitsInv
<1>4. CASE GetTxForBloc
  <2>1. crashed' \in BOOLEAN
    BY <1>4 DEF GetTxForBloc, LimitsInv
  <2>2. QED BY <1>4, <2>1 DEF GetTxForBloc, poolVars, stopVars, LimitsInv
<1>5. CASE StartFlush \/ Execute \/ EndFlush
  BY <1>5 DEF StartFlush, Execute, EndFlush, poolVars, stopVars, LimitsInv
<1>6. CASE RemoveTransaction
  BY <1>6, RemoveLimits DEF RemoveTransaction, LimitsInv
<1>7. ASSUME NEW c \in Command, RemoveDoomed(c) PROVE LimitsInv'
  BY <1>7, RemoveLimits DEF RemoveDoomed, blockVars, LimitsInv
<1>8. CASE UNCHANGED vars
  BY <1>8 DEF vars, poolVars, stopVars, blockVars, LimitsInv
<1>9. QED
  BY <1>1, <1>2, <1>3, <1>4, <1>5, <1>6, <1>7, <1>8 DEF Next, Flush

\* Neither map grows over TransactionThreshold, the stop channel not over its
\* capacity, and every variable has its type (addTransaction, tellIfContinu).
THEOREM TxPoolTypes == Spec => []TypeOK
<1>1. StopIInv => StopShape
  BY DEF StopIInv
<1>2. StopShape /\ UseInv /\ LimitsInv => TypeOK
  BY DEF StopShape, UseInv, LimitsInv, TypeOK
<1>3. QED
  BY <1>1, <1>2, StopInit, StopStep, TxPoolUse, LimitsInit, LimitsStep, PTL DEF Spec
=============================================================================
