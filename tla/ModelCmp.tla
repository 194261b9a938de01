------------------------------ MODULE ModelCmp ------------------------------
(***************************************************************************)
(* The models that ModelComparison asks how many validators it takes       *)
(* (ControlLoop/modelCmp.go).  A model is read from a table of measures,   *)
(* in the order of its lines.  In two dimensions a line says which         *)
(* throughput a number of validators had; in three, at which latency.      *)
(* Throughputs are integers: only their order matters.                     *)
(***************************************************************************)
EXTENDS Integers, FiniteSets, Sequences

Largest(S) == CHOOSE x \in S : \A y \in S : y <= x
Smallest(S) == CHOOSE x \in S : \A y \in S : x <= y

\* The list that inserting the elements of S gives.
SortedList(S) ==
  CHOOSE s \in [1..Cardinality(S) -> S] : \A i, j \in DOMAIN s : i < j => s[i] < s[j]

\* The best of f[i], f[i + 1], ... for every i: how both imports go through
\* a column, from its end.
BestFrom(f) ==
  LET best[i \in DOMAIN f] ==
        IF i + 1 \notin DOMAIN f \/ f[i] >= best[i + 1] THEN f[i] ELSE best[i + 1]
  IN best
-----------------------------------------------------------------------------
(***************************************************************************)
(* ModelVal2D: a sequence of [nbValid, throughput].                        *)
(***************************************************************************)
\* Line i is better than every line after it.
Improves(table, i) ==
  table[i].throughput > 0
    /\ (i = Len(table)
          \/ table[i].throughput > BestFrom([j \in DOMAIN table |-> table[j].throughput])[i + 1])

\* postImport writes 0 over the number of validators of the other lines and
\* then removes every line with a 0.
Import2D(table) ==
  LET kept == SortedList({i \in DOMAIN table : Improves(table, i) /\ table[i].nbValid # 0})
  IN [k \in DOMAIN kept |-> table[kept[k]]]

\* Mutant: the search keeps its upper end.
BisectUp(model, requested) ==
  LET search[ends \in (DOMAIN model) \X (DOMAIN model)] ==
        LET middle == (ends[1] + ends[2]) \div 2
        IN IF ends[1] + 1 >= ends[2] THEN ends[2]
           ELSE IF model[middle].throughput > requested THEN search[<<middle, ends[2]>>]
           ELSE search[<<ends[1], middle>>]
  IN search[<<1, Len(model)>>]
\* The binary search between the two ends of the model.
Bisect(model, requested) ==
  LET search[ends \in (DOMAIN model) \X (DOMAIN model)] ==
        LET middle == (ends[1] + ends[2]) \div 2
        IN IF ends[1] + 1 >= ends[2] THEN ends[1]
           ELSE IF model[middle].throughput > requested THEN search[<<middle, ends[2]>>]
           ELSE search[<<ends[1], middle>>]
  IN search[<<1, Len(model)>>]

\* GetIdealNbVal, 0 when the model has no opinion.
Ideal2D(model, requested) ==
  LET last == Len(model)
  IN IF model = <<>> THEN 0
     ELSE IF requested <= model[last].throughput THEN model[last].nbValid
     ELSE IF requested >= model[1].throughput THEN model[1].nbValid
     ELSE model[Bisect(model, requested)].nbValid
-----------------------------------------------------------------------------
(***************************************************************************)
(* ModelVal3D: the sorted numbers of validators and latencies, and the     *)
(* throughput for each of both.                                            *)
(***************************************************************************)
\* Both sweeps of the mesh: over the sizes, then over the latencies.
Sweep(mesh) ==
  LET rows == DOMAIN mesh
      overSizes == [j \in DOMAIN mesh[1] |-> BestFrom([i \in rows |-> mesh[i][j]])]
  IN [i \in rows |-> BestFrom([j \in DOMAIN mesh[1] |-> overSizes[j][i]])]

\* postImport: they are repeated as long as they change anything.
Optimize(mesh) ==
  LET swept[k \in Nat] == IF k = 0 THEN mesh ELSE Sweep(swept[k - 1])
  IN swept[Smallest({k \in 0..Len(mesh) : Sweep(swept[k]) = swept[k]})]

\* importCSV: a later line on the same point replaces an earlier one.
Import3D(table) ==
  LET listVal == SortedList({table[l].nbValid : l \in DOMAIN table})
      listLag == SortedList({table[l].lag : l \in DOMAIN table})
      Lines(i, j) == {l \in DOMAIN table :
                        table[l].nbValid = listVal[i] /\ table[l].lag = listLag[j]}
      Point(i, j) == IF Lines(i, j) = {} THEN 0 ELSE table[Largest(Lines(i, j))].throughput
  IN [listVal |-> listVal, listLag |-> listLag,
      mesh |-> Optimize([i \in DOMAIN listVal |-> [j \in DOMAIN listLag |-> Point(i, j)]])]

\* sort.Search on a column: the first throughput below the one asked for, less
\* one if possible, and then as far as the throughput stays the same.
SearchIndex(column, throughput) ==
  LET below == {i \in DOMAIN column : column[i] < throughput}
      first == IF below = {} THEN Len(column) + 1 ELSE Smallest(below)
      start == IF first > 1 THEN first - 1 ELSE first
  IN Largest({i \in start..Len(column) : \A k \in start..i : column[k] = column[start]})

\* getNbValIndex; past the end for a size the model does not reach.
NbValIndex(model, nbVal) ==
  LET larger == {i \in DOMAIN model.listVal : model.listVal[i] >= nbVal}
  IN IF larger = {} THEN Len(model.listVal) + 1 ELSE Smallest(larger)

\* The latency is guessed from what nbVal validators have committed, and the
\* number of validators from the latency.
LatencyIndex(model, nbVal, committed) ==
  SearchIndex(model.mesh[NbValIndex(model, nbVal)], committed)
Ideal3D(model, requested, committed, nbVal) ==
  LET latency == LatencyIndex(model, nbVal, committed)
  IN model.listVal[SearchIndex([i \in DOMAIN model.mesh |-> model.mesh[i][latency]], requested)]
-----------------------------------------------------------------------------
(***************************************************************************)
(* What the models promise, from their tables.                             *)
(***************************************************************************)
\* The lines of a table that are worth keeping: more throughput than with more
\* validators.
Worthwhile(table) ==
  {table[i] : i \in {k \in DOMAIN table :
     /\ table[k].nbValid # 0 /\ table[k].throughput > 0
     /\ \A j \in DOMAIN table : j > k => table[j].throughput < table[k].throughput}}

\* The most validators whose throughput is above the one requested (or equal to
\* it, for the most validators of all); the fewest if none is.
MostValidators2D(table, requested) ==
  LET kept == Worthwhile(table)
      fastest == CHOOSE s \in kept : \A t \in kept : t.throughput <= s.throughput
      slowest == CHOOSE s \in kept : \A t \in kept : s.throughput <= t.throughput
      above == {s \in kept : s.throughput > requested}
  IN IF kept = {} THEN 0
     ELSE IF requested <= slowest.throughput THEN slowest.nbValid
     ELSE IF above = {} THEN fastest.nbValid
     ELSE (CHOOSE s \in above : \A t \in above : s.throughput <= t.throughput).nbValid

\* What nbVal validators do at a latency: at least what more of them do, and at
\* least what they do at a larger latency.
Throughput3D(table, nbVal, lag) ==
  Largest({0} \cup {table[l].throughput : l \in {k \in DOMAIN table :
            /\ table[k].nbValid >= nbVal /\ table[k].lag >= lag
            /\ \A j \in DOMAIN table : (table[j].nbValid = table[k].nbValid
                                          /\ table[j].lag = table[k].lag) => j <= k}})

\* The most validators that do what is requested at a latency; if none do, the
\* most of those that do as well as the fewest.
MostValidators3D(table, requested, lag) ==
  LET sizes == {table[l].nbValid : l \in DOMAIN table}
      enough == {v \in sizes : Throughput3D(table, v, lag) >= requested}
      asFew == {v \in sizes : Throughput3D(table, v, lag) = Throughput3D(table, Smallest(sizes), lag)}
  IN IF enough # {} THEN Largest(enough) ELSE Largest(asFew)
=============================================================================
