--------------------------- MODULE Operators_proofs ---------------------------
(***************************************************************************)
(* Facts about the pure operators: the validator list, for every active    *)
(* set, and the performance models, for every table.                       *)
(***************************************************************************)
EXTENDS Validators, ModelCmp, Functions, FunctionTheorems, FiniteSetTheorems, SequenceTheorems,
        WellFoundedInduction, TLAPS

\* How many members of S come before v when S is sorted.
Rank(S, v) == Cardinality({w \in S : w < v})

\* A smaller member of a finite set of numbers has a smaller rank.
LEMMA RankIncreases ==
  ASSUME NEW S \in SUBSET Nat, IsFiniteSet(S), NEW u \in S, NEW v \in S, u < v
  PROVE  Rank(S, u) # Rank(S, v)
<1> DEFINE U == {w \in S : w < u}
           V == {w \in S : w < v}
<1>1. V \in SUBSET S /\ U \in SUBSET V
  <2>1. \A w \in S : w \in Nat
    OBVIOUS
  <2>2. \A w \in S : w < u => w < v
    BY <2>1
  <2> QED
    BY <2>2
<1>2. IsFiniteSet(V)
  BY <1>1, FS_Subset
<1>3. u \in V /\ u \notin U
  OBVIOUS
<1>4. Cardinality(V) = Cardinality(U) => V = U
  BY <1>1, <1>2, FS_Subset
<1> QED
  BY <1>3, <1>4 DEF Rank

\* A rank is below the number of members.
LEMMA RankBound ==
  ASSUME NEW S \in SUBSET Nat, IsFiniteSet(S), NEW v \in S
  PROVE  Rank(S, v) \in 0..(Cardinality(S) - 1)
<1> DEFINE V == {w \in S : w < v}
<1>1. V \in SUBSET S /\ v \notin V
  OBVIOUS
<1>2. /\ IsFiniteSet(V)
      /\ Cardinality(V) <= Cardinality(S)
      /\ Cardinality(S) = Cardinality(V) => S = V
  BY <1>1, FS_Subset
<1>3. Cardinality(V) \in Nat /\ Cardinality(S) \in Nat
  BY <1>2, FS_CardinalityType
<1>4. Cardinality(V) # Cardinality(S)
  BY <1>1, <1>2
<1> QED
  BY <1>2, <1>3, <1>4 DEF Rank

\* Indexing the sorted active set within its bounds gives the member with that rank:
\* listPublTemp[index] never panics and never names a stranger.
LEMMA ActiveValidatorIsMember ==
  ASSUME NEW S \in SUBSET Nat, IsFiniteSet(S), NEW index \in 0..(Cardinality(S) - 1)
  PROVE  /\ GetActiveValidatorIndexOfValue(S, index) \in S
         /\ Rank(S, GetActiveValidatorIndexOfValue(S, index)) = index
<1> DEFINE T == 0..(Cardinality(S) - 1)
           r == [v \in S |-> Rank(S, v)]
<1>1. Cardinality(S) \in Nat
  BY FS_CardinalityType
<1>2. r \in [S -> T]
  BY RankBound
<1>3. \A u, v \in S : r[u] = r[v] => u = v
  <2> SUFFICES ASSUME NEW u \in S, NEW v \in S, r[u] = r[v], u # v PROVE FALSE
    OBVIOUS
  <2>1. u < v \/ v < u
    OBVIOUS
  <2>2. Rank(S, u) # Rank(S, v)
    BY <2>1, RankIncreases
  <2> QED
    BY <2>2
<1>4. r \in Injection(S, T)
  BY <1>2, <1>3 DEF Injection, IsInjective
<1>5. IsFiniteSet(T) /\ Cardinality(T) = Cardinality(S)
  BY <1>1, FS_Interval
<1>6. r \in Surjection(S, T)
  BY <1>4, <1>5, FS_Injection
<1>7. PICK v \in S : r[v] = index
  BY <1>6 DEF Surjection
<1>8. v \in S /\ Cardinality({w \in S : w < v}) = index
  BY <1>7 DEF Rank
<1> QED
  BY <1>8 DEF GetActiveValidatorIndexOfValue, Rank

\* Two quorums of the same active set have more than a third of it in common,
\* so at least one validator signed both.
THEOREM QuorumsIntersect ==
  ASSUME NEW S, IsFiniteSet(S), NEW P \in SUBSET S, NEW Q \in SUBSET S,
         Cardinality(P) >= MinApprovals(Cardinality(S)),
         Cardinality(Q) >= MinApprovals(Cardinality(S))
  PROVE  3 * Cardinality(P \cap Q) > Cardinality(S)
<1>1. IsFiniteSet(P) /\ IsFiniteSet(Q)
  BY FS_Subset
<1>2. /\ Cardinality(S) \in Nat /\ Cardinality(P) \in Nat /\ Cardinality(Q) \in Nat
  BY <1>1, FS_CardinalityType
<1>3. /\ IsFiniteSet(P \cap Q)
      /\ Cardinality(P \cap Q) \in Nat
  BY <1>1, FS_Intersection, FS_CardinalityType
<1>4. Cardinality(P \cup Q) = Cardinality(P) + Cardinality(Q) - Cardinality(P \cap Q)
  BY <1>1, FS_Union
<1>5. Cardinality(P \cup Q) <= Cardinality(S)
  BY FS_Subset, P \cup Q \in SUBSET S
<1>6. 3 * MinApprovals(Cardinality(S)) > 2 * Cardinality(S)
  BY <1>2 DEF MinApprovals
<1> QED
  BY <1>2, <1>3, <1>4, <1>5, <1>6 DEF MinApprovals
-----------------------------------------------------------------------------
(***************************************************************************)
(* Numbers: the least, the largest, induction.                             *)
(***************************************************************************)
LEMMA Least == ASSUME NEW S, S \subseteq Nat, S # {} PROVE \E i \in S : \A j \in S : i <= j
<1>1. PICK i \in S : \A j \in S : ~(<<j, i>> \in OpToRel(<, Nat))
  BY WFMin, NatLessThanWellFounded
<1>2. ASSUME NEW j \in S, j < i PROVE FALSE
  <2>1. <<j, i>> \in OpToRel(<, Nat)
    BY <1>2 DEF OpToRel
  <2>2. QED BY <1>1, <2>1
<1>3. ASSUME NEW j \in S PROVE i <= j
  <2>1. i \in Nat /\ j \in Nat /\ ~(j < i)
    BY <1>1, <1>2
  <2>2. QED BY <2>1
<1>4. QED BY <1>1, <1>3

LEMMA Inducts ==
  ASSUME NEW S, 0 \in S, \A n \in Nat : n \in S => n + 1 \in S
  PROVE  Nat \subseteq S
<1> SUFFICES ASSUME ~(Nat \subseteq S) PROVE FALSE
  OBVIOUS
<1>1. Nat \ S \subseteq Nat /\ Nat \ S # {}
  OBVIOUS
<1>2. PICK n \in Nat \ S : \A m \in Nat \ S : n <= m
  BY <1>1, Least
<1>3. n # 0 /\ n - 1 \in Nat /\ (n - 1) + 1 = n
  BY <1>2
<1>4. n - 1 \in S
  BY <1>2, <1>3
<1>5. QED BY <1>2, <1>3, <1>4

LEMMA SmallestIs ==
  ASSUME NEW S, S \subseteq Nat, S # {}
  PROVE  Smallest(S) \in S /\ \A j \in S : Smallest(S) <= j
<1>1. \E i \in S : \A j \in S : i <= j
  BY Least
<1>2. QED BY <1>1 DEF Smallest

LEMMA LargestExists ==
  ASSUME NEW S, S \subseteq Nat, S # {}, IsFiniteSet(S)
  PROVE  \E i \in S : \A j \in S : j <= i
<1> DEFINE has(n) == \A T \in SUBSET Nat : IsFiniteSet(T) /\ Cardinality(T) = n /\ T # {} =>
                       \E i \in T : \A j \in T : j <= i
           N == {n \in Nat : has(n)}
<1>1. has(0)
  BY FS_EmptySet
<1>2. ASSUME NEW n \in Nat, has(n) PROVE has(n + 1)
  <2>1. SUFFICES ASSUME NEW T \in SUBSET Nat, IsFiniteSet(T), Cardinality(T) = n + 1, T # {}
                 PROVE  \E i \in T : \A j \in T : j <= i
    OBVIOUS
  <2>2. PICK x \in T : TRUE
    BY <2>1
  <2>3. x \in Nat /\ IsFiniteSet(T \ {x}) /\ Cardinality(T \ {x}) = n
    <3>1. x \in Nat /\ IsFiniteSet(T \ {x}) /\ Cardinality(T \ {x}) = Cardinality(T) - 1
      BY <2>1, <2>2, FS_RemoveElement
    <3>2. QED BY <2>1, <3>1
  <2>4. CASE T \ {x} = {}
    <3>1. \A j \in T : j <= x
      BY <2>3, <2>4
    <3>2. QED BY <3>1
  <2>5. CASE T \ {x} # {}
    <3>1. T \ {x} \in SUBSET Nat
      OBVIOUS
    <3>2. PICK i \in T \ {x} : \A j \in T \ {x} : j <= i
      BY <1>2, <2>3, <2>5, <3>1
    <3>3. i \in Nat /\ i \in T
      BY <3>2
    <3>4. CASE i <= x
      <4>1. \A j \in T : j <= x
        BY <2>3, <3>2, <3>3, <3>4
      <4>2. QED BY <4>1
    <3>5. CASE x <= i
      <4>1. \A j \in T : j <= i
        BY <3>2, <3>5
      <4>2. QED BY <3>3, <4>1
    <3>6. QED BY <2>3, <3>3, <3>4, <3>5
  <2>6. QED BY <2>4, <2>5
<1> HIDE DEF has
<1>3. Nat \subseteq N
  <2>1. 0 \in N /\ \A n \in Nat : n \in N => n + 1 \in N
    BY <1>1, <1>2
  <2> HIDE DEF N
  <2>2. QED BY <2>1, Inducts
<1>4. Cardinality(S) \in Nat
  BY FS_CardinalityType
<1>5. has(Cardinality(S))
  BY <1>3, <1>4
<1>6. QED BY <1>5 DEF has

LEMMA LargestIs ==
  ASSUME NEW S, S \subseteq Nat, S # {}, IsFiniteSet(S)
  PROVE  Largest(S) \in S /\ \A j \in S : j <= Largest(S)
<1>1. \E i \in S : \A j \in S : j <= i
  BY LargestExists
<1>2. QED BY <1>1 DEF Largest

LEMMA LargestOf ==
  ASSUME NEW S, S \subseteq Nat, NEW i \in S, \A j \in S : j <= i
  PROVE  Largest(S) = i
<1>1. Largest(S) \in S /\ \A j \in S : j <= Largest(S)
  BY DEF Largest
<1>2. /\ Largest(S) <= i /\ i <= Largest(S)
      /\ Largest(S) \in Nat /\ i \in Nat
  BY <1>1
<1>3. QED BY <1>2

LEMMA ImageFinite ==
  ASSUME NEW S, IsFiniteSet(S), NEW f, S \subseteq DOMAIN f
  PROVE  IsFiniteSet({f[k] : k \in S})
<1> DEFINE g == [k \in S |-> f[k]]
           T == {f[k] : k \in S}
<1>1. g \in Surjection(S, T)
  BY DEF Surjection
<1>2. QED BY <1>1, FS_Surjection
-----------------------------------------------------------------------------
(***************************************************************************)
(* BestFrom: for each entry of a column the best from it on.               *)
(***************************************************************************)
IsBest(g, f, n) ==
  /\ g \in [1..n -> Nat]
  /\ \A i \in 1..n : (\A k \in i..n : f[k] <= g[i]) /\ (\E k \in i..n : g[i] = f[k])

LEMMA BestUnique ==
  ASSUME NEW n \in Nat, NEW f \in [1..n -> Nat], NEW g, NEW h, IsBest(g, f, n), IsBest(h, f, n)
  PROVE  g = h
<1>1. ASSUME NEW i \in 1..n PROVE g[i] = h[i]
  <2>1. PICK k \in i..n : g[i] = f[k]
    BY DEF IsBest
  <2>2. PICK l \in i..n : h[i] = f[l]
    BY DEF IsBest
  <2>3. g[i] <= h[i] /\ h[i] <= g[i] /\ g[i] \in Nat /\ h[i] \in Nat
    BY <2>1, <2>2 DEF IsBest
  <2>4. QED BY <2>3
<1>2. QED BY <1>1 DEF IsBest

LEMMA BestFromIs ==
  ASSUME NEW n \in Nat, NEW f \in [1..n -> Nat]
  PROVE  IsBest(BestFrom(f), f, n)
<1> DEFINE max(i) == Largest({f[k] : k \in i..n})
           w == [i \in 1..n |-> max(i)]
           step(h) == [i \in 1..n |-> IF i + 1 \notin 1..n \/ f[i] >= h[i + 1] THEN f[i] ELSE h[i + 1]]
<1>1. ASSUME NEW i \in 1..n
      PROVE  /\ max(i) \in Nat /\ \A k \in i..n : f[k] <= max(i)
             /\ \E k \in i..n : max(i) = f[k]
  <2>1. {f[k] : k \in i..n} \subseteq Nat /\ {f[k] : k \in i..n} # {} /\ i..n \subseteq DOMAIN f
    <3>1. i..n \subseteq 1..n /\ i \in i..n
      OBVIOUS
    <3>2. QED BY <3>1
  <2>2. IsFiniteSet(i..n)
    BY FS_Interval
  <2>3. IsFiniteSet({f[k] : k \in i..n})
    BY <2>1, <2>2, ImageFinite
  <2>4. max(i) \in {f[k] : k \in i..n} /\ \A j \in {f[k] : k \in i..n} : j <= max(i)
    BY <2>1, <2>3, LargestIs
  <2> HIDE DEF max
  <2>5. QED BY <2>1, <2>4
<1> HIDE DEF max
<1>2. w = step(w)
  <2>1. ASSUME NEW i \in 1..n
        PROVE  max(i) = IF i + 1 \notin 1..n \/ f[i] >= w[i + 1] THEN f[i] ELSE w[i + 1]
    <3>1. PICK k \in i..n : max(i) = f[k]
      BY <1>1
    <3>2. CASE i = n
      BY <3>1, <3>2
    <3>3. CASE i # n
      <4>1. i + 1 \in 1..n /\ w[i + 1] = max(i + 1) /\ max(i + 1) \in Nat /\ max(i) \in Nat
            /\ f[i] \in Nat
        BY <1>1, <3>3
      <4>2. PICK l \in i + 1..n : max(i + 1) = f[l]
        BY <1>1, <4>1
      <4>3. f[i] <= max(i) /\ f[l] <= max(i)
        <5>1. i \in i..n /\ l \in i..n
          BY <4>2
        <5>2. QED BY <1>1, <5>1
      <4>4. k = i \/ f[k] <= max(i + 1)
        <5>1. k = i \/ k \in i + 1..n
          BY <3>1
        <5>2. QED BY <1>1, <4>1, <5>1
      <4>5. QED BY <3>1, <4>1, <4>2, <4>3, <4>4
    <3>4. QED BY <3>2, <3>3
  <2>2. QED BY <2>1
<1>3. ASSUME NEW h, h = step(h) PROVE h = w
  <2> DEFINE bad == {m \in Nat : m < n /\ h[n - m] # w[n - m]}
  <2>1. bad = {}
    <3>1. SUFFICES ASSUME bad # {} PROVE FALSE
      OBVIOUS
    <3>2. bad \subseteq Nat
      OBVIOUS
    <3>3. PICK m \in bad : \A j \in bad : m <= j
      BY <3>1, <3>2, Least
    <3> DEFINE i == n - m
    <3>4. i \in 1..n /\ h[i] # w[i]
      BY <3>3
    <3>5. i + 1 \in 1..n => h[i + 1] = w[i + 1]
      <4>1. SUFFICES ASSUME i + 1 \in 1..n, h[i + 1] # w[i + 1] PROVE FALSE
        OBVIOUS
      <4>2. m - 1 \in Nat /\ m - 1 < n /\ n - (m - 1) = i + 1
        BY <3>3, <4>1
      <4>3. m - 1 \in bad
        BY <4>1, <4>2
      <4>4. m \in Nat /\ m <= m - 1
        BY <3>2, <3>3, <4>3
      <4>5. QED BY <4>4
    <3>6. h[i] = IF i + 1 \notin 1..n \/ f[i] >= h[i + 1] THEN f[i] ELSE h[i + 1]
      BY <1>3, <3>4
    <3>7. w[i] = IF i + 1 \notin 1..n \/ f[i] >= w[i + 1] THEN f[i] ELSE w[i + 1]
      BY <1>2, <3>4
    <3> HIDE DEF i, w
    <3>8. QED BY <3>4, <3>5, <3>6, <3>7
  <2>2. ASSUME NEW i \in 1..n PROVE h[i] = w[i]
    <3>1. n - i \in Nat /\ n - i < n /\ n - (n - i) = i
      OBVIOUS
    <3>2. n - i \notin bad
      BY <2>1
    <3>3. QED BY <3>1, <3>2
  <2>3. DOMAIN h = 1..n /\ h = [i \in 1..n |-> h[i]]
    BY <1>3
  <2> HIDE DEF bad
  <2>4. QED BY <2>2, <2>3
<1>4. DOMAIN f = 1..n
  OBVIOUS
<1>5. BestFrom(f) = CHOOSE h : h = step(h)
  BY <1>4 DEF BestFrom
<1> HIDE DEF step, w
<1>6. BestFrom(f) = w
  BY <1>2, <1>3, <1>5
<1>7. QED BY <1>1, <1>6 DEF IsBest, w
-----------------------------------------------------------------------------
(***************************************************************************)
(* SortedList: there is one for every finite set of numbers, and it has    *)
(* all of them.                                                            *)
(***************************************************************************)
IsSorted(s, S) ==
  /\ s \in [1..Cardinality(S) -> S] /\ \A x \in S : \E i \in 1..Cardinality(S) : s[i] = x
  /\ \A i, j \in 1..Cardinality(S) : i < j => s[i] < s[j]

LEMMA RankOrders ==
  ASSUME NEW S \in SUBSET Nat, IsFiniteSet(S), NEW u \in S, NEW v \in S, Rank(S, u) < Rank(S, v)
  PROVE  u < v
<1> SUFFICES ASSUME ~(u < v) PROVE FALSE
  OBVIOUS
<1>1. {w \in S : w < v} \subseteq {w \in S : w < u}
  <2>1. \A w \in S : w < v => w < u
    <3>1. u \in Nat /\ v \in Nat /\ v <= u
      OBVIOUS
    <3>2. QED BY <3>1
  <2>2. QED BY <2>1
<1>2. IsFiniteSet({w \in S : w < u}) /\ IsFiniteSet({w \in S : w < v})
  BY FS_Subset
<1>3. Rank(S, v) <= Rank(S, u)
  BY <1>1, <1>2, FS_Subset DEF Rank
<1>4. Rank(S, v) \in Nat /\ Rank(S, u) \in Nat
  BY <1>2, FS_CardinalityType DEF Rank
<1>5. QED BY <1>3, <1>4

LEMMA SortedListIs ==
  ASSUME NEW S, S \subseteq Nat, IsFiniteSet(S)
  PROVE  IsSorted(SortedList(S), S)
<1> DEFINE n == Cardinality(S)
           P(s) == s \in [1..n -> S] /\ \A i, j \in DOMAIN s : i < j => s[i] < s[j]
           w == [i \in 1..n |-> GetActiveValidatorIndexOfValue(S, i - 1)]
<1>1. n \in Nat
  BY FS_CardinalityType
<1>2. ASSUME NEW i \in 1..n PROVE w[i] \in S /\ Rank(S, w[i]) = i - 1
  <2>1. i - 1 \in 0..Cardinality(S) - 1
    BY <1>1
  <2>2. QED BY <2>1, ActiveValidatorIsMember
<1>3. P(w)
  <2>1. w \in [1..n -> S] /\ DOMAIN w = 1..n
    BY <1>2
  <2> HIDE DEF w
  <2>2. ASSUME NEW i \in 1..n, NEW j \in 1..n, i < j PROVE w[i] < w[j]
    <3>1. Rank(S, w[i]) < Rank(S, w[j])
      BY <1>2, <2>2
    <3>2. QED BY <1>2, <3>1, RankOrders
  <2>3. QED BY <2>1, <2>2
<1>4. SortedList(S) = CHOOSE s : P(s)
  BY DEF SortedList
<1> HIDE DEF P, w
<1>5. P(SortedList(S))
  BY <1>3, <1>4
<1> DEFINE s == SortedList(S)
<1>6. s \in [1..n -> S] /\ \A i, j \in 1..n : i < j => s[i] < s[j]
  BY <1>5 DEF P
<1> HIDE DEF s
<1>7. \A i, j \in 1..n : s[i] = s[j] => i = j
  <2> SUFFICES ASSUME NEW i \in 1..n, NEW j \in 1..n, i # j PROVE s[i] # s[j]
    OBVIOUS
  <2>1. s[i] \in Nat /\ s[j] \in Nat /\ (i < j \/ j < i)
    <3>1. s[i] \in S /\ s[j] \in S
      BY <1>6
    <3>2. i \in Int /\ j \in Int
      BY <1>1
    <3>3. i < j \/ j < i
      BY <3>2
    <3>4. QED BY <3>1, <3>3
  <2>2. QED BY <1>6, <2>1
<1>8. s \in Injection(1..n, S)
  BY <1>6, <1>7 DEF Injection, IsInjective
<1>9. IsFiniteSet(1..n) /\ Cardinality(1..n) = n
  BY <1>1, FS_Interval
<1>10. s \in Surjection(1..n, S)
  BY <1>8, <1>9, FS_Injection
<1>11. QED BY <1>6, <1>10 DEF Surjection, IsSorted, s

LEMMA FunctionIsSeq ==
  ASSUME NEW S, NEW n \in Nat, NEW f \in [1..n -> S]
  PROVE  f \in Seq(S) /\ Len(f) = n /\ DOMAIN f = 1..n
<1>1. f \in Seq(S)
  BY SeqDef
<1>2. Len(f) \in Nat /\ DOMAIN f = 1..Len(f) /\ DOMAIN f = 1..n
  BY <1>1, LenProperties
<1>3. QED BY <1>1, <1>2
-----------------------------------------------------------------------------
(***************************************************************************)
(* The model in two dimensions: what is imported of a table, and that the  *)
(* search finds the most validators that are fast enough.                  *)
(***************************************************************************)
Sample == [nbValid : Nat, throughput : Nat]

\* No line after line k does as well.
Better(table, k) == \A j \in DOMAIN table : j > k => table[j].throughput < table[k].throughput
Decreasing(model) ==
  \A i, j \in DOMAIN model : i < j => model[i].throughput > model[j].throughput

LEMMA ImprovesIs ==
  ASSUME NEW table \in Seq(Sample), NEW i \in DOMAIN table
  PROVE  Improves(table, i) <=> table[i].throughput > 0 /\ Better(table, i)
<1> DEFINE n == Len(table)
           f == [j \in DOMAIN table |-> table[j].throughput]
<1>1. n \in Nat /\ DOMAIN table = 1..n /\ \A j \in 1..n : table[j] \in Sample
  BY LenProperties
<1>2. f \in [1..n -> Nat] /\ \A j \in 1..n : f[j] = table[j].throughput
  BY <1>1 DEF Sample
<1> HIDE DEF f
<1>3. IsBest(BestFrom(f), f, n)
  BY <1>1, <1>2, BestFromIs
<1>4. CASE i = n
  <2>1. Better(table, i)
    BY <1>1, <1>4 DEF Better
  <2>2. QED BY <1>4, <2>1 DEF Improves
<1>5. CASE i # n
  <2>1. i + 1 \in 1..n /\ f[i] \in Nat
    BY <1>1, <1>2, <1>5
  <2>2. PICK k \in i + 1..n : BestFrom(f)[i + 1] = f[k]
    BY <1>3, <2>1 DEF IsBest
  <2>3. \A j \in i + 1..n : f[j] <= f[k] /\ f[j] \in Nat
    <3>1. i + 1..n \subseteq 1..n
      BY <1>1
    <3>2. \A j \in i + 1..n : f[j] <= BestFrom(f)[i + 1]
      BY <1>3, <2>1 DEF IsBest
    <3>3. QED BY <1>2, <2>2, <3>1, <3>2
  <2>4. f[i] > f[k] <=> \A j \in i + 1..n : f[j] < f[i]
    BY <2>1, <2>2, <2>3
  <2>5. Better(table, i) <=> \A j \in i + 1..n : f[j] < f[i]
    <3>1. \A j \in 1..n : j > i <=> j \in i + 1..n
      BY <1>1
    <3>2. \A j \in i + 1..n : j \in 1..n
      BY <1>1
    <3>3. \A j \in 1..n : table[j].throughput < table[i].throughput <=> f[j] < f[i]
      BY <1>1, <1>2
    <3>4. Better(table, i) <=> \A j \in 1..n : j > i => f[j] < f[i]
      BY <1>1, <3>3 DEF Better
    <3>5. QED BY <3>1, <3>2, <3>4
  <2>6. Improves(table, i) <=> table[i].throughput > 0 /\ f[i] > f[k]
    BY <1>1, <1>2, <1>5, <2>2 DEF Improves, f
  <2>7. QED BY <2>4, <2>5, <2>6
<1>6. QED BY <1>4, <1>5

\* The lines that are worthwhile, in their order.
LEMMA Import2DIs ==
  ASSUME NEW table \in Seq(Sample)
  PROVE  /\ Import2D(table) \in Seq(Sample) /\ Decreasing(Import2D(table))
         /\ Keys(Import2D(table)) = Worthwhile(table)
<1> DEFINE n == Len(table)
           K == {i \in DOMAIN table : Improves(table, i) /\ table[i].nbValid # 0}
           s == SortedList(K)
           model == Import2D(table)
<1>1. n \in Nat /\ DOMAIN table = 1..n /\ \A j \in 1..n : table[j] \in Sample
  BY LenProperties
<1>2. K \subseteq Nat /\ IsFiniteSet(K) /\ K \subseteq DOMAIN table
  <2>1. IsFiniteSet(1..n)
    BY <1>1, FS_Interval
  <2>2. QED BY <1>1, <2>1, FS_Subset
<1>3. IsSorted(s, K) /\ Cardinality(K) \in Nat
  BY <1>2, SortedListIs, FS_CardinalityType
<1>4. \A i \in K : table[i].throughput > 0 /\ Better(table, i) /\ table[i].nbValid # 0
  BY ImprovesIs
<1>5. \A i \in DOMAIN table : table[i].throughput > 0 /\ Better(table, i) /\ table[i].nbValid # 0
                                => i \in K
  BY ImprovesIs
<1>6. model = [k \in DOMAIN s |-> table[s[k]]]
  BY DEF Import2D
<1> HIDE DEF K, s, model
<1> DEFINE m == Cardinality(K)
<1>7. /\ s \in [1..m -> K] /\ \A x \in K : \E i \in 1..m : s[i] = x
      /\ \A i, j \in 1..m : i < j => s[i] < s[j]
  BY <1>3 DEF IsSorted
<1> HIDE DEF m
<1>8. /\ model \in [1..m -> Sample] /\ m \in Nat
      /\ \A k \in 1..m : model[k] = table[s[k]] /\ s[k] \in K
  BY <1>1, <1>2, <1>3, <1>6, <1>7 DEF m
<1>9. model \in Seq(Sample) /\ DOMAIN model = 1..m
  BY <1>8, FunctionIsSeq
<1>10. Decreasing(model)
  <2>1. ASSUME NEW i \in 1..m, NEW j \in 1..m, i < j PROVE model[i].throughput > model[j].throughput
    <3>1. s[i] \in K /\ s[j] \in K /\ s[j] \in DOMAIN table /\ s[i] < s[j]
      BY <1>2, <1>7, <2>1
    <3>2. table[s[j]].throughput < table[s[i]].throughput
      <4>1. s[j] > s[i]
        BY <1>2, <3>1
      <4>2. QED BY <1>4, <3>1, <4>1 DEF Better
    <3>3. table[s[j]].throughput \in Nat /\ table[s[i]].throughput \in Nat
      BY <1>1, <1>2, <3>1 DEF Sample
    <3>4. QED BY <1>8, <3>2, <3>3
  <2>2. QED BY <1>9, <2>1 DEF Decreasing
<1>11. Keys(model) = {table[i] : i \in K}
  <2>1. Keys(model) = {model[k] : k \in 1..m}
    BY <1>9 DEF Keys
  <2>2. \A k \in 1..m : model[k] \in {table[i] : i \in K}
    BY <1>8
  <2>3. ASSUME NEW i \in K PROVE \E k \in 1..m : model[k] = table[i]
    BY <1>7, <1>8, <2>3
  <2>4. QED BY <2>1, <2>2, <2>3
<1>12. {table[i] : i \in K} = Worthwhile(table)
  <2>1. ASSUME NEW k \in DOMAIN table
        PROVE  k \in K <=> /\ table[k].nbValid # 0 /\ table[k].throughput > 0
                           /\ \A j \in DOMAIN table : j > k => table[j].throughput < table[k].throughput
    BY <1>4, <1>5 DEF Better
  <2>2. QED BY <1>2, <2>1 DEF Worthwhile
<1>13. QED BY <1>9, <1>10, <1>11, <1>12 DEF model
\* One iteration of the search.
SearchNext(model, r, search, d, f) ==
  IF d + 1 >= f THEN d
  ELSE IF model[(d + f) \div 2].throughput > r THEN search[<<(d + f) \div 2, f>>]
  ELSE search[<<d, (d + f) \div 2>>]
SearchStep(model, r, search) ==
  [ends \in (DOMAIN model) \X (DOMAIN model) |-> SearchNext(model, r, search, ends[1], ends[2])]

LEMMA BisectChosen ==
  ASSUME NEW model, NEW r
  PROVE  Bisect(model, r)
           = (CHOOSE search : search = SearchStep(model, r, search))[<<1, Len(model)>>]
BY DEF Bisect, SearchStep, SearchNext

LEMMA SearchStepAt ==
  ASSUME NEW model, NEW r, NEW search
  PROVE  /\ SearchStep(model, r, search) = [ends \in (DOMAIN model) \X (DOMAIN model) |->
                                               SearchStep(model, r, search)[ends]]
         /\ \A d, f \in DOMAIN model :
              SearchStep(model, r, search)[<<d, f>>] = SearchNext(model, r, search, d, f)
<1> DEFINE D == DOMAIN model
<1>1. SearchStep(model, r, search) = [ends \in D \X D |-> SearchNext(model, r, search, ends[1], ends[2])]
  BY DEF SearchStep
<1> HIDE DEF D
<1>2. ASSUME NEW d \in D, NEW f \in D
      PROVE  SearchStep(model, r, search)[<<d, f>>] = SearchNext(model, r, search, d, f)
  <2>1. <<d, f>> \in D \X D /\ <<d, f>>[1] = d /\ <<d, f>>[2] = f
    OBVIOUS
  <2>2. QED BY <1>1, <2>1
<1>3. SearchStep(model, r, search) = [ends \in D \X D |-> SearchStep(model, r, search)[ends]]
  BY <1>1
<1>4. QED BY <1>2, <1>3 DEF D

\* The search ends next to the place where the model gets too slow.
LEMMA BisectIs ==
  ASSUME NEW model \in Seq(Sample), Decreasing(model), NEW r \in Nat, Len(model) # 0,
         model[1].throughput > r, ~(model[Len(model)].throughput > r)
  PROVE  /\ Bisect(model, r) \in 1..Len(model) /\ Bisect(model, r) + 1 \in 1..Len(model)
         /\ model[Bisect(model, r)].throughput > r /\ ~(model[Bisect(model, r) + 1].throughput > r)
<1> DEFINE n == Len(model)
           D == DOMAIN model
           fast == {i \in D : model[i].throughput > r}
           middle(d, f) == (d + f) \div 2
           step(h) == SearchStep(model, r, h)
           between(d, f) == {i \in d..f - 1 : i = d \/ i \in fast}
           far(d, f) == IF d >= f THEN d ELSE Largest(between(d, f))
           w == [e \in D \X D |-> far(e[1], e[2])]
<1>1. n \in Nat /\ D = 1..n /\ \A i \in D : model[i] \in Sample
  BY LenProperties
<1> HIDE DEF D
<1>2. \A i \in D, j \in D : i < j /\ j \in fast => i \in fast
  <2>1. ASSUME NEW i \in D, NEW j \in D, i < j, j \in fast PROVE i \in fast
    <3>1. model[i].throughput > model[j].throughput
      BY <1>1, <2>1 DEF Decreasing
    <3>2. model[i].throughput \in Nat /\ model[j].throughput \in Nat
      BY <1>1 DEF Sample
    <3>3. model[i].throughput > r
      BY <2>1, <3>1, <3>2
    <3>4. QED BY <3>3
  <2>2. QED BY <2>1
<1>3. \A i \in D : model[i].throughput > r <=> i \in fast
  OBVIOUS
<1> HIDE DEF fast
<1>4. ASSUME NEW d \in D, NEW f \in D, d < f
      PROVE  /\ far(d, f) \in between(d, f) /\ \A i \in between(d, f) : i <= far(d, f)
  <2>1. between(d, f) \subseteq Nat /\ d \in between(d, f)
    BY <1>1, <1>4
  <2>2. IsFiniteSet(between(d, f))
    <3>1. d \in Int /\ f - 1 \in Int
      BY <1>1
    <3>2. IsFiniteSet(d..f - 1) /\ between(d, f) \subseteq d..f - 1
      BY <3>1, FS_Interval
    <3>3. QED BY <3>2, FS_Subset
  <2> HIDE DEF between
  <2>3. Largest(between(d, f)) \in between(d, f) /\ \A i \in between(d, f) : i <= Largest(between(d, f))
    BY <2>1, <2>2, LargestIs
  <2>4. far(d, f) = Largest(between(d, f))
    BY <1>1, <1>4
  <2>5. QED BY <2>3, <2>4
<1>5. \A d \in D : far(d, d) = d
  BY <1>1
<1>6. \A d \in D, f \in D : ~(d < f) => far(d, f) = d
  BY <1>1
<1>7. \A d \in D, f \in D : far(d, f) = w[<<d, f>>]
  OBVIOUS
<1> HIDE DEF far, w, step
<1>8. ASSUME NEW d \in D, NEW f \in D, ~(d + 1 >= f)
      PROVE  middle(d, f) \in D /\ d < middle(d, f) /\ middle(d, f) < f
  BY <1>1, <1>8
<1> HIDE DEF middle
<1> DEFINE next(h, d, f) == IF d + 1 >= f THEN d
                            ELSE IF model[middle(d, f)].throughput > r THEN h[<<middle(d, f), f>>]
                            ELSE h[<<d, middle(d, f)>>]
<1>9. ASSUME NEW h, NEW d \in D, NEW f \in D PROVE step(h)[<<d, f>>] = next(h, d, f)
  <2>1. step(h)[<<d, f>>] = SearchNext(model, r, h, d, f)
    BY SearchStepAt DEF D, step
  <2>2. QED BY <2>1 DEF middle, SearchNext
<1>10. w = step(w)
  <2>1. ASSUME NEW d \in D, NEW f \in D
        PROVE  far(d, f) = IF d + 1 >= f THEN d
                           ELSE IF middle(d, f) \in fast THEN far(middle(d, f), f)
                           ELSE far(d, middle(d, f))
    <3> DEFINE m == middle(d, f)
               y == far(d, f)
    <3>1. CASE d + 1 >= f
      <4>1. CASE d < f
        <5>1. y \in between(d, f) /\ d \in Nat /\ f \in Nat /\ f = d + 1
          BY <1>1, <1>4, <3>1, <4>1
        <5> HIDE DEF y
        <5>2. y = d
          BY <5>1
        <5>3. QED BY <3>1, <5>2 DEF y
      <4>2. CASE ~(d < f)
        BY <1>6, <3>1, <4>2
      <4>3. QED BY <4>1, <4>2
    <3>2. CASE ~(d + 1 >= f)
      <4>1. m \in D /\ d < m /\ m < f /\ d \in Nat /\ f \in Nat /\ m \in Nat
        BY <1>1, <1>8, <3>2
      <4>2. y \in between(d, f) /\ \A i \in between(d, f) : i <= y
        BY <1>4, <4>1
      <4> HIDE DEF m, y
      <4>3. CASE m \in fast
        <5> DEFINE x == far(m, f)
        <5>1. x \in between(m, f) /\ \A i \in between(m, f) : i <= x
          BY <1>4, <4>1
        <5> HIDE DEF x
        <5>2. x \in Nat /\ y \in Nat /\ x \in m..f - 1 /\ y \in d..f - 1 /\ x \in fast
          BY <4>1, <4>2, <4>3, <5>1
        <5>3. x <= y
          <6>1. x \in between(d, f)
            BY <4>1, <5>2
          <6>2. QED BY <4>2, <6>1
        <5>4. y <= x
          <6>1. y \in m..f - 1 /\ y # d
            BY <4>1, <5>2, <5>3
          <6>2. y \in fast
            BY <4>2, <6>1
          <6>3. y \in between(m, f)
            BY <6>1, <6>2
          <6>4. QED BY <5>1, <6>3
        <5>5. x = y
          BY <5>2, <5>3, <5>4
        <5>6. QED BY <3>2, <4>3, <5>5 DEF x, y, m
      <4>4. CASE m \notin fast
        <5> DEFINE x == far(d, m)
        <5>1. x \in between(d, m) /\ \A i \in between(d, m) : i <= x
          BY <1>4, <4>1
        <5> HIDE DEF x
        <5>2. x \in Nat /\ y \in Nat /\ x \in d..m - 1 /\ y \in d..f - 1
          BY <4>1, <4>2, <5>1
        <5>3. x <= y
          <6>1. x \in between(d, f)
            BY <4>1, <5>1, <5>2
          <6>2. QED BY <4>2, <6>1
        <5>4. y <= x
          <6>1. CASE y = d
            BY <5>2, <6>1
          <6>2. CASE y # d
            <7>1. y \in fast
              BY <4>2, <6>2
            <7>2. y \in D
              BY <1>1, <4>1, <5>2
            <7>3. ~(m < y) /\ m # y
              BY <1>2, <4>1, <4>4, <7>1, <7>2
            <7>4. y \in between(d, m)
              BY <4>1, <5>2, <7>1, <7>3
            <7>5. QED BY <5>1, <7>4
          <6>3. QED BY <6>1, <6>2
        <5>5. x = y
          BY <5>2, <5>3, <5>4
        <5>6. QED BY <3>2, <4>4, <5>5 DEF x, y, m
      <4>5. QED BY <4>3, <4>4
    <3>3. QED BY <3>1, <3>2
  <2>2. ASSUME NEW e \in D \X D PROVE w[e] = step(w)[e]
    <3>1. PICK d \in D, f \in D : e = <<d, f>>
      OBVIOUS
    <3>2. CASE d + 1 >= f
      <4>1. w[e] = d
        BY <1>7, <2>1, <3>1, <3>2
      <4>2. step(w)[e] = d
        BY <1>9, <3>1, <3>2
      <4>3. QED BY <4>1, <4>2
    <3>3. CASE ~(d + 1 >= f)
      <4>1. middle(d, f) \in D
        BY <1>8, <3>3
      <4>2. far(middle(d, f), f) = w[<<middle(d, f), f>>] /\ far(d, middle(d, f)) = w[<<d, middle(d, f)>>]
        BY <1>7, <4>1
      <4>3. w[e] = IF model[middle(d, f)].throughput > r THEN w[<<middle(d, f), f>>]
                   ELSE w[<<d, middle(d, f)>>]
        BY <1>3, <1>7, <2>1, <3>1, <3>3, <4>1, <4>2
      <4>4. QED BY <1>9, <3>1, <3>3, <4>3
    <3>4. QED BY <3>2, <3>3
  <2>3. w = [e \in D \X D |-> w[e]] /\ step(w) = [e \in D \X D |-> step(w)[e]]
    BY SearchStepAt DEF w, step, D
  <2>4. QED BY <2>2, <2>3
<1> DEFINE found(d) == d \in fast /\ d + 1 \in D /\ d + 1 \notin fast
           apart(d, f) == d \in fast /\ f \in D /\ f \notin fast
<1>11. ASSUME NEW d \in D, NEW f \in D, apart(d, f) PROVE d < f
  BY <1>1, <1>2, <1>11
<1>12. ASSUME NEW h, h = step(h), NEW d \in D, NEW f \in D, apart(d, f)
       PROVE  found(h[<<d, f>>])
  <2> DEFINE bad == {k \in Nat : \E a \in D, b \in D : b - a = k /\ apart(a, b) /\ ~found(h[<<a, b>>])}
  <2>1. bad = {}
    <3>1. SUFFICES ASSUME bad # {} PROVE FALSE
      OBVIOUS
    <3>2. bad \subseteq Nat
      OBVIOUS
    <3>3. PICK k \in bad : \A j \in bad : k <= j
      BY <3>1, <3>2, Least
    <3>4. PICK a \in D, b \in D : b - a = k /\ apart(a, b) /\ ~found(h[<<a, b>>])
      BY <3>3
    <3>5. a < b /\ a \in Nat /\ b \in Nat
      BY <1>1, <1>11, <3>4
    <3> DEFINE m == middle(a, b)
    <3>6. h[<<a, b>>] = IF a + 1 >= b THEN a ELSE IF m \in fast THEN h[<<m, b>>] ELSE h[<<a, m>>]
      <4>1. h[<<a, b>>] = next(h, a, b)
        BY <1>9, <1>12
      <4>4. CASE a + 1 >= b
        BY <4>1, <4>4
      <4>5. CASE ~(a + 1 >= b)
        <5>1. m \in D
          BY <1>8, <4>5
        <5>2. QED BY <1>3, <4>1, <5>1
      <4>6. QED BY <4>4, <4>5
    <3>7. CASE a + 1 >= b
      <4>1. b = a + 1 /\ h[<<a, b>>] = a
        BY <3>5, <3>6, <3>7
      <4>2. QED BY <3>4, <4>1
    <3>8. CASE ~(a + 1 >= b)
      <4>1. m \in D /\ a < m /\ m < b /\ m \in Nat
        BY <1>1, <1>8, <3>8
      <4> HIDE DEF m
      <4>2. CASE m \in fast
        <5>1. h[<<a, b>>] = h[<<m, b>>] /\ apart(m, b)
          BY <3>4, <3>6, <3>8, <4>2
        <5>2. b - m \in Nat /\ b - m < k
          BY <3>4, <3>5, <4>1
        <5>3. ~found(h[<<m, b>>])
          BY <3>4, <5>1
        <5> HIDE DEF apart, found
        <5>4. b - m \in bad
          BY <4>1, <5>1, <5>2, <5>3
        <5>5. k <= b - m /\ k \in Nat
          BY <3>2, <3>3, <5>4
        <5>6. QED BY <5>2, <5>5
      <4>3. CASE m \notin fast
        <5>1. h[<<a, b>>] = h[<<a, m>>] /\ apart(a, m)
          BY <3>4, <3>6, <3>8, <4>1, <4>3
        <5>2. m - a \in Nat /\ m - a < k
          BY SMTT(30), <3>4, <3>5, <4>1
        <5>3. ~found(h[<<a, m>>])
          BY <3>4, <5>1
        <5> HIDE DEF apart, found
        <5>4. m - a \in bad
          BY <4>1, <5>1, <5>2, <5>3
        <5>5. k <= m - a /\ k \in Nat
          BY <3>2, <3>3, <5>4
        <5>6. QED BY <5>2, <5>5
      <4>4. QED BY <4>2, <4>3
    <3>9. QED BY <3>7, <3>8
  <2>2. d < f /\ f - d \in Nat
    BY <1>1, <1>11, <1>12
  <2> HIDE DEF found, apart
  <2>3. QED BY <1>12, <2>1, <2>2
<1>13. 1 \in D /\ n \in D /\ apart(1, n)
  BY <1>1, <1>3
<1> DEFINE h == CHOOSE h : h = SearchStep(model, r, h)
<1>14. h = step(h)
  BY <1>10 DEF step
<1>15. Bisect(model, r) = h[<<1, n>>]
  BY BisectChosen
<1> HIDE DEF h, found, apart
<1>16. found(Bisect(model, r))
  BY <1>12, <1>13, <1>14, <1>15
<1>17. QED BY <1>1, <1>3, <1>16 DEF found, fast

\* In a model that decreases the line chosen by its throughput is the last, or
\* the first, of those there are.
LEMMA SlowestOf ==
  ASSUME NEW model \in Seq(Sample), Decreasing(model), NEW S \in SUBSET Keys(model),
         NEW k \in DOMAIN model, model[k] \in S, \A i \in DOMAIN model : model[i] \in S => i <= k
  PROVE  (CHOOSE s \in S : \A t \in S : s.throughput <= t.throughput) = model[k]
<1>1. \A i \in DOMAIN model : model[i] \in Sample /\ i \in Nat
  BY LenProperties
<1>2. \A s \in S : \E i \in DOMAIN model : s = model[i] /\ i <= k
  BY DEF Keys
<1>3. \A i \in DOMAIN model : model[i].throughput \in Nat
  BY <1>1 DEF Sample
<1>4. ASSUME NEW i \in DOMAIN model, i <= k, i # k PROVE model[k].throughput < model[i].throughput
  <2>1. i < k
    BY <1>1, <1>4
  <2>2. QED BY <1>3, <2>1 DEF Decreasing
<1>5. \A t \in S : model[k].throughput <= t.throughput
  BY <1>2, <1>3, <1>4
<1>6. ASSUME NEW s \in S, \A t \in S : s.throughput <= t.throughput PROVE s = model[k]
  <2>1. PICK i \in DOMAIN model : s = model[i] /\ i <= k
    BY <1>2
  <2>2. model[i].throughput <= model[k].throughput
    BY <1>6, <2>1
  <2>3. i = k
    BY <1>3, <1>4, <2>1, <2>2
  <2>4. QED BY <2>1, <2>3
<1>7. QED BY <1>5, <1>6

LEMMA FastestOf ==
  ASSUME NEW model \in Seq(Sample), Decreasing(model), NEW S \in SUBSET Keys(model),
         NEW k \in DOMAIN model, model[k] \in S, \A i \in DOMAIN model : model[i] \in S => k <= i
  PROVE  (CHOOSE s \in S : \A t \in S : t.throughput <= s.throughput) = model[k]
<1>1. \A i \in DOMAIN model : model[i] \in Sample /\ i \in Nat
  BY LenProperties
<1>2. \A s \in S : \E i \in DOMAIN model : s = model[i] /\ k <= i
  BY DEF Keys
<1>3. \A i \in DOMAIN model : model[i].throughput \in Nat
  BY <1>1 DEF Sample
<1>4. ASSUME NEW i \in DOMAIN model, k <= i, i # k PROVE model[i].throughput < model[k].throughput
  <2>1. k < i
    BY <1>1, <1>4
  <2>2. QED BY <1>3, <2>1 DEF Decreasing
<1>5. \A t \in S : t.throughput <= model[k].throughput
  BY <1>2, <1>3, <1>4
<1>6. ASSUME NEW s \in S, \A t \in S : t.throughput <= s.throughput PROVE s = model[k]
  <2>1. PICK i \in DOMAIN model : s = model[i] /\ k <= i
    BY <1>2
  <2>2. model[k].throughput <= model[i].throughput
    BY <1>6, <2>1
  <2>3. i = k
    BY <1>3, <1>4, <2>1, <2>2
  <2>4. QED BY <2>1, <2>3
<1>7. QED BY <1>5, <1>6

\* GetIdealNbVal of the model in two dimensions.
LEMMA Ideal2DIs ==
  ASSUME NEW table \in Seq(Sample), NEW r \in Nat
  PROVE  /\ Ideal2D(Import2D(table), r) = MostValidators2D(table, r)
         /\ Ideal2D(Import2D(table), r) \in Nat
<1> DEFINE model == Import2D(table)
           n == Len(model)
           kept == Worthwhile(table)
           slowest == CHOOSE s \in kept : \A t \in kept : s.throughput <= t.throughput
           fastest == CHOOSE s \in kept : \A t \in kept : t.throughput <= s.throughput
           above == {s \in kept : s.throughput > r}
           nearest == CHOOSE s \in above : \A t \in above : s.throughput <= t.throughput
           most == MostValidators2D(table, r)
           ideal == Ideal2D(model, r)
<1>1. model \in Seq(Sample) /\ Decreasing(model) /\ Keys(model) = kept
  BY Import2DIs
<1>2. most = IF kept = {} THEN 0 ELSE IF r <= slowest.throughput THEN slowest.nbValid
             ELSE IF above = {} THEN fastest.nbValid ELSE nearest.nbValid
  BY DEF MostValidators2D
<1> HIDE DEF model, kept, most
<1>3. n \in Nat /\ DOMAIN model = 1..n /\ \A i \in 1..n : model[i] \in Sample
  BY <1>1, LenProperties
<1>4. \A i \in 1..n : model[i].throughput \in Nat /\ model[i].nbValid \in Nat /\ model[i] \in kept
  BY <1>1, <1>3 DEF Sample, Keys
<1>5. ideal = IF model = <<>> THEN 0
              ELSE IF r <= model[n].throughput THEN model[n].nbValid
              ELSE IF r >= model[1].throughput THEN model[1].nbValid
              ELSE model[Bisect(model, r)].nbValid
  BY DEF Ideal2D
<1> HIDE DEF ideal
<1>6. CASE n = 0
  <2>1. model = <<>>
    BY <1>1, <1>6, EmptySeq
  <2>2. kept = {}
    BY <1>1, <1>3, <1>6 DEF Keys
  <2>3. ideal = 0 /\ most = 0
    BY <1>2, <1>5, <2>1, <2>2
  <2>4. QED BY <2>3 DEF ideal, most, model
<1>7. CASE n # 0
  <2>1. 1 \in 1..n /\ n \in 1..n
    BY <1>3, <1>7
  <2>2. model # <<>> /\ kept # {}
    BY <1>3, <1>4, <2>1
  <2>3. slowest = model[n]
    BY <1>1, <1>3, <1>4, <2>1, SlowestOf
  <2>4. fastest = model[1]
    BY <1>1, <1>3, <1>4, <2>1, FastestOf
  <2> HIDE DEF slowest, fastest, nearest, n
  <2>5. CASE r <= model[n].throughput
    <3>1. ideal = model[n].nbValid /\ most = model[n].nbValid
      BY <1>2, <1>5, <2>2, <2>3, <2>5
    <3>2. QED BY <1>4, <2>1, <3>1 DEF ideal, most, model
  <2>6. CASE ~(r <= model[n].throughput) /\ r >= model[1].throughput
    <3>1. above = {}
      <4>1. \A s \in kept : \E i \in 1..n : s = model[i] /\ model[i].throughput <= model[1].throughput
        <5>1. ASSUME NEW i \in 1..n PROVE model[i].throughput <= model[1].throughput
          <6>1. i = 1 \/ 1 < i
            BY <1>3
          <6>2. 1 \in DOMAIN model /\ i \in DOMAIN model
            BY <1>3, <2>1
          <6>3. 1 < i => model[1].throughput > model[i].throughput
            BY <1>1, <6>2 DEF Decreasing
          <6>4. QED BY <1>4, <2>1, <6>1, <6>3
        <5>2. QED BY <1>1, <1>3, <5>1 DEF Keys
      <4>2. QED BY <1>4, <2>1, <2>6, <4>1
    <3>2. ideal = model[1].nbValid /\ most = model[1].nbValid
      BY <1>2, <1>5, <2>2, <2>3, <2>4, <2>6, <3>1
    <3>3. QED BY <1>4, <2>1, <3>2 DEF ideal, most, model
  <2>7. CASE ~(r <= model[n].throughput) /\ ~(r >= model[1].throughput)
    <3> DEFINE d == Bisect(model, r)
    <3>1. model[1].throughput > r /\ ~(model[n].throughput > r)
      BY <1>4, <2>1, <2>7
    <3>2. /\ d \in 1..n /\ d + 1 \in 1..n
          /\ model[d].throughput > r /\ ~(model[d + 1].throughput > r)
      BY <1>1, <1>7, <3>1, BisectIs DEF n
    <3> HIDE DEF d
    <3>3. above \in SUBSET Keys(model) /\ model[d] \in above
      BY <1>1, <1>4, <3>2
    <3>4. ASSUME NEW i \in 1..n, model[i] \in above PROVE i <= d
      <4>1. SUFFICES ASSUME ~(i <= d) PROVE FALSE
        OBVIOUS
      <4>2. i = d + 1 \/ d + 1 < i
        BY <1>3, <3>2, <4>1
      <4>3. model[i].throughput <= model[d + 1].throughput
        <5>1. i \in DOMAIN model /\ d + 1 \in DOMAIN model
          BY <1>3, <3>2
        <5>2. d + 1 < i => model[d + 1].throughput > model[i].throughput
          BY <1>1, <5>1 DEF Decreasing
        <5>3. QED BY <1>4, <3>2, <4>2, <5>2
      <4>4. QED BY <1>4, <3>2, <3>4, <4>3
    <3>5. nearest = model[d]
      <4> HIDE DEF above
      <4>1. d \in DOMAIN model /\ \A i \in DOMAIN model : model[i] \in above => i <= d
        BY <1>3, <3>2, <3>4
      <4>2. QED BY <1>1, <3>3, <4>1, SlowestOf DEF nearest
    <3>6. ideal = model[d].nbValid /\ most = model[d].nbValid
      BY <1>2, <1>5, <2>2, <2>3, <2>7, <3>3, <3>5 DEF d
    <3>7. QED BY <1>4, <3>2, <3>6 DEF ideal, most, model
  <2>8. QED BY <2>5, <2>6, <2>7
<1>8. QED BY <1>6, <1>7
-----------------------------------------------------------------------------
(***************************************************************************)
(* The mesh of the model in three dimensions: one pass of both sweeps      *)
(* gives the best of what is as large and as late, and changes nothing the *)
(* second time.                                                            *)
(***************************************************************************)
IsSweep(g, f, m, p) ==
  /\ g \in [1..m -> [1..p -> Nat]]
  /\ \A i \in 1..m, j \in 1..p : \A k \in i..m, l \in j..p : f[k][l] <= g[i][j]
  /\ \A i \in 1..m, j \in 1..p : \E k \in i..m, l \in j..p : g[i][j] = f[k][l]

LEMMA SweepIs ==
  ASSUME NEW m \in Nat \ {0}, NEW p \in Nat \ {0}, NEW f \in [1..m -> [1..p -> Nat]]
  PROVE  IsSweep(Sweep(f), f, m, p)
<1> DEFINE column(j) == [i \in 1..m |-> f[i][j]]
           overSizes == [j \in 1..p |-> BestFrom(column(j))]
           row(i) == [j \in 1..p |-> overSizes[j][i]]
           g == [i \in 1..m |-> BestFrom(row(i))]
<1>1. DOMAIN f = 1..m /\ DOMAIN f[1] = 1..p
  OBVIOUS
<1>2. Sweep(f) = g
  BY <1>1 DEF Sweep
<1>3. ASSUME NEW j \in 1..p PROVE IsBest(overSizes[j], column(j), m)
  <2>1. column(j) \in [1..m -> Nat]
    OBVIOUS
  <2> HIDE DEF column
  <2>2. QED BY <2>1, BestFromIs
<1>4. \A i \in 1..m, j \in 1..p : column(j)[i] = f[i][j]
  OBVIOUS
<1> HIDE DEF column, overSizes
<1>5. ASSUME NEW i \in 1..m PROVE IsBest(g[i], row(i), p)
  <2>1. row(i) \in [1..p -> Nat]
    BY <1>3 DEF IsBest
  <2> HIDE DEF row
  <2>2. QED BY <2>1, BestFromIs
<1>6. \A i \in 1..m, j \in 1..p : row(i)[j] = overSizes[j][i]
  OBVIOUS
<1>7. g = [i \in 1..m |-> g[i]]
  OBVIOUS
<1> HIDE DEF row, g
<1>8. g \in [1..m -> [1..p -> Nat]]
  BY <1>5, <1>7 DEF IsBest
<1>9. ASSUME NEW i \in 1..m, NEW j \in 1..p, NEW k \in i..m, NEW l \in j..p
      PROVE  f[k][l] <= g[i][j]
  <2>1. k \in 1..m /\ l \in 1..p
    OBVIOUS
  <2>2. f[k][l] <= overSizes[l][i]
    <3>1. IsBest(overSizes[l], column(l), m)
      BY <1>3, <2>1
    <3>2. column(l)[k] <= overSizes[l][i]
      BY <3>1 DEF IsBest
    <3>3. column(l)[k] = f[k][l]
      BY <1>4, <2>1
    <3>4. QED BY <3>2, <3>3
  <2>3. overSizes[l][i] <= g[i][j]
    BY <1>5, <1>6, <2>1 DEF IsBest
  <2>4. overSizes[l][i] \in Nat
    <3>1. overSizes[l] \in [1..m -> Nat]
      BY <1>3, <2>1 DEF IsBest
    <3>2. QED BY <3>1
  <2>5. f[k][l] \in Nat
    <3>1. f[k] \in [1..p -> Nat]
      BY <2>1
    <3>2. QED BY <2>1, <3>1
  <2>6. g[i][j] \in Nat
    <3>1. g[i] \in [1..p -> Nat]
      BY <1>8
    <3>2. QED BY <3>1
  <2> DEFINE a == f[k][l]
             b == overSizes[l][i]
             c == g[i][j]
  <2>7. a <= b /\ b <= c /\ a \in Nat /\ b \in Nat /\ c \in Nat
    BY <2>2, <2>3, <2>4, <2>5, <2>6
  <2> HIDE DEF a, b, c
  <2>8. a <= c
    BY <2>7
  <2>9. QED BY <2>8 DEF a, c
<1>10. ASSUME NEW i \in 1..m, NEW j \in 1..p
       PROVE  \E k \in i..m, l \in j..p : g[i][j] = f[k][l]
  <2>1. PICK l \in j..p : g[i][j] = row(i)[l]
    BY <1>5 DEF IsBest
  <2>2. l \in 1..p
    OBVIOUS
  <2>3. PICK k \in i..m : overSizes[l][i] = column(l)[k]
    BY <1>3, <2>2 DEF IsBest
  <2>4. k \in 1..m
    OBVIOUS
  <2>5. QED BY <1>4, <1>6, <2>1, <2>2, <2>3, <2>4
<1>11. IsSweep(g, f, m, p)
  BY <1>8, <1>9, <1>10 DEF IsSweep
<1>12. QED BY <1>2, <1>11

\* Tables none of whose cells is above the other's are the same table.
Alike(f, g, m, p) ==
  /\ m \in Nat /\ p \in Nat
  /\ f \in [1..m -> [1..p -> Nat]] /\ g \in [1..m -> [1..p -> Nat]]
  /\ \A i \in 1..m, j \in 1..p : f[i][j] <= g[i][j] /\ g[i][j] <= f[i][j]

LEMMA SameTable == ASSUME NEW m, NEW p, NEW f, NEW g, Alike(f, g, m, p) PROVE f = g
<1>1. ASSUME NEW i \in 1..m PROVE f[i] = g[i]
  <2> DEFINE r == f[i]
             s == g[i]
  <2>1. p \in Nat /\ r \in [1..p -> Nat] /\ s \in [1..p -> Nat]
    BY DEF Alike
  <2>2. \A j \in 1..p : r[j] <= s[j] /\ s[j] <= r[j]
    BY DEF Alike
  <2> HIDE DEF r, s
  <2>3. \A j \in 1..p : r[j] = s[j]
    BY <2>1, <2>2
  <2>4. r = s
    BY <2>1, <2>3
  <2>5. QED BY <2>4 DEF r, s
<1>2. m \in Nat /\ f \in [1..m -> [1..p -> Nat]] /\ g \in [1..m -> [1..p -> Nat]]
  BY DEF Alike
<1>3. QED BY <1>1, <1>2

LEMMA SweptIsBest ==
  ASSUME NEW m \in Nat \ {0}, NEW p \in Nat \ {0}, NEW f \in [1..m -> [1..p -> Nat]], NEW g,
         IsSweep(g, f, m, p)
  PROVE  /\ \A i \in 1..m, j \in 1..p : \A k \in i..m, l \in j..p : g[k][l] <= g[i][j]
         /\ Sweep(g) = g
<1>1. g \in [1..m -> [1..p -> Nat]]
  BY DEF IsSweep
<1>2. ASSUME NEW i \in 1..m, NEW j \in 1..p, NEW k \in i..m, NEW l \in j..p
      PROVE  g[k][l] <= g[i][j]
  <2>1. k \in 1..m /\ l \in 1..p
    OBVIOUS
  <2>2. PICK x \in k..m, y \in l..p : g[k][l] = f[x][y]
    BY <2>1 DEF IsSweep
  <2>3. x \in i..m /\ y \in j..p
    BY <2>1
  <2>4. QED BY <2>2, <2>3 DEF IsSweep
<1> DEFINE h == Sweep(g)
<1>3. IsSweep(h, g, m, p)
  BY <1>1, SweepIs
<1> HIDE DEF h
<1>4. h \in [1..m -> [1..p -> Nat]]
  BY <1>3 DEF IsSweep
<1>5. ASSUME NEW i \in 1..m, NEW j \in 1..p PROVE h[i][j] <= g[i][j] /\ g[i][j] <= h[i][j]
  <2>1. i \in i..m /\ j \in j..p
    OBVIOUS
  <2>2. g[i][j] <= h[i][j]
    BY <1>3, <2>1 DEF IsSweep
  <2>3. PICK k \in i..m, l \in j..p : h[i][j] = g[k][l]
    BY <1>3 DEF IsSweep
  <2>4. h[i][j] <= g[i][j]
    BY <1>2, <2>3
  <2>5. QED BY <2>2, <2>4
<1>6. h = g
  <2>1. Alike(h, g, m, p)
    BY <1>1, <1>4, <1>5 DEF Alike
  <2>2. QED BY <2>1, SameTable
<1>7. QED BY <1>2, <1>6 DEF h

\* postImport stops after one pass, or before it when that changes nothing.
LEMMA OptimizeIs ==
  ASSUME NEW m \in Nat \ {0}, NEW p \in Nat \ {0}, NEW f \in [1..m -> [1..p -> Nat]]
  PROVE  Optimize(f) = Sweep(f)
<1> DEFINE next(h) == [k \in Nat |-> IF k = 0 THEN f ELSE Sweep(h[k - 1])]
           w == [k \in Nat |-> IF k = 0 THEN f ELSE Sweep(f)]
           swept == CHOOSE h : h = next(h)
           still == {k \in 0..Len(f) : Sweep(swept[k]) = swept[k]}
<1>1. IsSweep(Sweep(f), f, m, p)
  BY SweepIs
<1>2. Sweep(Sweep(f)) = Sweep(f)
  BY <1>1, SweptIsBest
<1>3. w = next(w)
  <2>1. ASSUME NEW k \in Nat PROVE w[k] = next(w)[k]
    <3>1. CASE k = 0
      BY <3>1
    <3>2. CASE k = 1
      BY <3>2
    <3>3. CASE k # 0 /\ k # 1
      <4>1. k - 1 \in Nat /\ k - 1 # 0
        BY <3>3
      <4>2. QED BY <1>2, <3>3, <4>1
    <3>4. QED BY <3>1, <3>2, <3>3
  <2> DEFINE v == next(w)
  <2>2. w = [k \in Nat |-> w[k]] /\ v = [k \in Nat |-> v[k]]
    OBVIOUS
  <2> HIDE DEF w, v
  <2>3. QED BY <2>1, <2>2 DEF v
<1>4. Optimize(f) = swept[Smallest(still)]
  BY DEF Optimize
<1>5. swept = next(swept)
  BY <1>3
<1> HIDE DEF swept
<1>6. swept[0] = f /\ swept[1] = Sweep(f)
  <2>1. next(swept)[0] = f /\ next(swept)[1] = Sweep(swept[0])
    OBVIOUS
  <2>2. QED BY <1>5, <2>1
<1>7. Len(f) = m
  BY FunctionIsSeq
<1>8. 1 \in still
  BY <1>2, <1>6, <1>7
<1>9. still \subseteq Nat
  BY <1>7
<1>10. Smallest(still) \in still /\ Smallest(still) <= 1
  BY <1>8, <1>9, SmallestIs
<1>11. Smallest(still) = 0 \/ Smallest(still) = 1
  BY <1>9, <1>10
<1>12. QED BY <1>4, <1>6, <1>10, <1>11

Sample3D == [nbValid : Nat, lag : Nat, throughput : Nat]
SizesOf(table) == {table[l].nbValid : l \in DOMAIN table}
LagsOf(table) == {table[l].lag : l \in DOMAIN table}

\* The list s has the numbers of S in their order.
Lists(s, S) ==
  /\ s \in Seq(Nat) /\ Len(s) \in Nat \ {0} /\ s \in [1..Len(s) -> S]
  /\ \A x \in S : \E i \in 1..Len(s) : s[i] = x
  /\ \A i, j \in 1..Len(s) : i <= j <=> s[i] <= s[j]

LEMMA ListsOf ==
  ASSUME NEW S \in SUBSET Nat, IsFiniteSet(S), S # {}
  PROVE  Lists(SortedList(S), S)
<1> DEFINE s == SortedList(S)
           m == Cardinality(S)
<1>1. IsSorted(s, S) /\ m \in Nat
  BY SortedListIs, FS_CardinalityType
<1>2. m # 0
  BY FS_EmptySet
<1> HIDE DEF s, m
<1>3. s \in [1..m -> S] /\ s \in [1..m -> Nat]
  BY <1>1 DEF IsSorted, m
<1>4. s \in Seq(Nat) /\ Len(s) = m
  BY <1>1, <1>3, FunctionIsSeq
<1>5. \A x \in S : \E i \in 1..m : s[i] = x
  BY <1>1 DEF IsSorted, m
<1>6. ASSUME NEW i \in 1..m, NEW j \in 1..m PROVE i <= j <=> s[i] <= s[j]
  <2>1. i < j => s[i] < s[j]
    BY <1>1 DEF IsSorted, m
  <2>2. j < i => s[j] < s[i]
    BY <1>1 DEF IsSorted, m
  <2>3. s[i] \in Nat /\ s[j] \in Nat
    BY <1>3
  <2>4. i < j \/ j < i \/ i = j
    BY <1>1
  <2>5. QED BY <1>1, <2>1, <2>2, <2>3, <2>4
<1>7. QED BY <1>1, <1>2, <1>3, <1>4, <1>5, <1>6 DEF Lists, s

LEMMA SizesAndLags ==
  ASSUME NEW table \in Seq(Sample3D), table # <<>>
  PROVE  Lists(SortedList(SizesOf(table)), SizesOf(table)) /\ Lists(SortedList(LagsOf(table)), LagsOf(table))
<1> DEFINE sizes == [l \in DOMAIN table |-> table[l].nbValid]
           lags == [l \in DOMAIN table |-> table[l].lag]
<1>1. Len(table) \in Nat /\ DOMAIN table = 1..Len(table) /\ \A l \in DOMAIN table : table[l] \in Sample3D
  BY LenProperties
<1>2. Len(table) # 0
  BY EmptySeq
<1>3. IsFiniteSet(DOMAIN table) /\ 1 \in DOMAIN table
  BY <1>1, <1>2, FS_Interval
<1>4. SizesOf(table) = {sizes[l] : l \in DOMAIN table} /\ LagsOf(table) = {lags[l] : l \in DOMAIN table}
  BY DEF SizesOf, LagsOf
<1>5. IsFiniteSet(SizesOf(table)) /\ IsFiniteSet(LagsOf(table))
  <2>1. DOMAIN table \subseteq DOMAIN sizes /\ DOMAIN table \subseteq DOMAIN lags
    OBVIOUS
  <2> HIDE DEF sizes, lags
  <2>2. QED BY <1>3, <1>4, <2>1, ImageFinite
<1>6. SizesOf(table) \subseteq Nat /\ LagsOf(table) \subseteq Nat
  BY <1>1 DEF SizesOf, LagsOf, Sample3D
<1>7. SizesOf(table) # {} /\ LagsOf(table) # {}
  BY <1>3 DEF SizesOf, LagsOf
<1>8. QED BY <1>5, <1>6, <1>7, ListsOf

\* The model is the table filled up: the throughput of a number of validators at
\* a latency is the best of what was measured for as many, as late.
Filled(model, table) ==
  /\ Lists(model.listVal, SizesOf(table)) /\ Lists(model.listLag, LagsOf(table))
  /\ model.mesh \in [1..Len(model.listVal) -> [1..Len(model.listLag) -> Nat]]
  /\ \A i \in 1..Len(model.listVal), j \in 1..Len(model.listLag) :
       /\ model.mesh[i][j] = Throughput3D(table, model.listVal[i], model.listLag[j])
       /\ \A k \in i..Len(model.listVal), l \in j..Len(model.listLag) :
            model.mesh[k][l] <= model.mesh[i][j]

LEMMA Import3DIs ==
  ASSUME NEW table \in Seq(Sample3D), table # <<>>
  PROVE  Filled(Import3D(table), table)
<1> DEFINE listVal == SortedList(SizesOf(table))
           listLag == SortedList(LagsOf(table))
           m == Len(listVal)
           p == Len(listLag)
           Lines(i, j) == {l \in DOMAIN table : table[l].nbValid = listVal[i] /\ table[l].lag = listLag[j]}
           Point(i, j) == IF Lines(i, j) = {} THEN 0 ELSE table[Largest(Lines(i, j))].throughput
           raw == [i \in DOMAIN listVal |-> [j \in DOMAIN listLag |-> Point(i, j)]]
           mesh == Optimize(raw)
           model == Import3D(table)
           kept(v, d) == {k \in DOMAIN table :
              /\ table[k].nbValid >= v /\ table[k].lag >= d
              /\ \A j \in DOMAIN table : (table[j].nbValid = table[k].nbValid
                                            /\ table[j].lag = table[k].lag) => j <= k}
           Found(v, d) == {0} \cup {table[l].throughput : l \in kept(v, d)}
<1>1. model = [listVal |-> listVal, listLag |-> listLag, mesh |-> mesh]
  BY DEF Import3D, SizesOf, LagsOf
<1>2. Lists(listVal, SizesOf(table)) /\ Lists(listLag, LagsOf(table))
  BY SizesAndLags
<1>3. \A v, d : Throughput3D(table, v, d) = Largest(Found(v, d))
  BY DEF Throughput3D
<1> HIDE DEF listVal, listLag, model
<1>4. m \in Nat \ {0} /\ p \in Nat \ {0} /\ DOMAIN listVal = 1..m /\ DOMAIN listLag = 1..p
  BY <1>2 DEF Lists
<1>5. \A i \in 1..m : listVal[i] \in Nat
  BY <1>2, <1>4 DEF Lists
<1>6. \A j \in 1..p : listLag[j] \in Nat
  BY <1>2, <1>4 DEF Lists
<1>7. \A l \in DOMAIN table : table[l] \in Sample3D /\ l \in Nat
  BY LenProperties
<1>8. \A l \in DOMAIN table : table[l].nbValid \in Nat /\ table[l].lag \in Nat /\ table[l].throughput \in Nat
  BY <1>7 DEF Sample3D
<1> HIDE DEF m, p
<1>9. ASSUME NEW i \in 1..m, NEW j \in 1..p, Lines(i, j) # {}
      PROVE  Largest(Lines(i, j)) \in Lines(i, j) /\ \A l \in Lines(i, j) : l <= Largest(Lines(i, j))
  <2>1. Lines(i, j) \subseteq Nat /\ IsFiniteSet(DOMAIN table) /\ Lines(i, j) \subseteq DOMAIN table
    <3>1. DOMAIN table = 1..Len(table) /\ Len(table) \in Nat
      BY LenProperties
    <3>2. IsFiniteSet(DOMAIN table)
      BY <3>1, FS_Interval
    <3>3. QED BY <1>7, <3>2
  <2>2. IsFiniteSet(Lines(i, j))
    BY <2>1, FS_Subset
  <2> HIDE DEF Lines
  <2>3. QED BY <1>9, <2>1, <2>2, LargestIs
<1>10. ASSUME NEW i \in 1..m, NEW j \in 1..p PROVE Point(i, j) \in Nat
  <2>1. CASE Lines(i, j) = {}
    BY <2>1
  <2>2. CASE Lines(i, j) # {}
    <3>1. Largest(Lines(i, j)) \in DOMAIN table
      BY <1>9, <2>2
    <3> HIDE DEF Lines
    <3>2. QED BY <1>8, <2>2, <3>1
  <2>3. QED BY <2>1, <2>2
<1>11. raw \in [1..m -> [1..p -> Nat]] /\ \A i \in 1..m, j \in 1..p : raw[i][j] = Point(i, j)
  <2>1. raw = [i \in 1..m |-> [j \in 1..p |-> Point(i, j)]]
    BY <1>4
  <2> HIDE DEF raw, Point
  <2>2. QED BY <1>10, <2>1
<1> HIDE DEF raw
<1>12. IsSweep(mesh, raw, m, p)
  <2>1. mesh = Sweep(raw)
    BY <1>4, <1>11, OptimizeIs
  <2>2. IsSweep(Sweep(raw), raw, m, p)
    BY <1>4, <1>11, SweepIs
  <2>3. QED BY <2>1, <2>2
<1>13. \A i \in 1..m, j \in 1..p : \A k \in i..m, l \in j..p : mesh[k][l] <= mesh[i][j]
  BY <1>4, <1>11, <1>12, SweptIsBest
<1> HIDE DEF mesh
<1>14. mesh \in [1..m -> [1..p -> Nat]]
  BY <1>12 DEF IsSweep
<1>15. ASSUME NEW i \in 1..m, NEW j \in 1..p
       PROVE  mesh[i][j] \in Found(listVal[i], listLag[j])
  <2>1. PICK k \in i..m, l \in j..p : mesh[i][j] = raw[k][l]
    BY <1>12 DEF IsSweep
  <2>2. k \in 1..m /\ l \in 1..p /\ i <= k /\ j <= l
    BY <1>4
  <2>3. mesh[i][j] = Point(k, l)
    BY <1>11, <2>1, <2>2
  <2>4. CASE Lines(k, l) = {}
    BY <2>3, <2>4
  <2>5. CASE Lines(k, l) # {}
    <3> DEFINE last == Largest(Lines(k, l))
    <3>1. last \in Lines(k, l) /\ \A q \in Lines(k, l) : q <= last
      BY <1>9, <2>2, <2>5
    <3>2. mesh[i][j] = table[last].throughput
      BY <2>3, <2>5
    <3> HIDE DEF last
    <3>3. last \in DOMAIN table /\ table[last].nbValid = listVal[k] /\ table[last].lag = listLag[l]
      BY <3>1
    <3>4. listVal[i] <= listVal[k] /\ listLag[j] <= listLag[l]
      BY <1>2, <2>2 DEF Lists, m, p
    <3>5. table[last].nbValid >= listVal[i] /\ table[last].lag >= listLag[j]
      BY <1>5, <1>6, <2>2, <3>3, <3>4
    <3>6. \A q \in DOMAIN table : (table[q].nbValid = table[last].nbValid
                                      /\ table[q].lag = table[last].lag) => q <= last
      BY <3>1, <3>3
    <3>7. last \in kept(listVal[i], listLag[j])
      BY <3>3, <3>5, <3>6
    <3> HIDE DEF kept
    <3>8. QED BY <3>2, <3>7
  <2>6. QED BY <2>4, <2>5
<1>16. ASSUME NEW i \in 1..m, NEW j \in 1..p, NEW t \in Found(listVal[i], listLag[j])
       PROVE  t <= mesh[i][j] /\ t \in Nat
  <2>1. mesh[i][j] \in Nat
    <3>1. mesh[i] \in [1..p -> Nat]
      BY <1>14
    <3>2. QED BY <3>1
  <2>2. CASE t = 0
    BY <2>1, <2>2
  <2>3. CASE t # 0
    <3>1. PICK q \in kept(listVal[i], listLag[j]) : t = table[q].throughput
      BY <2>3
    <3>2. /\ q \in DOMAIN table /\ table[q].nbValid >= listVal[i] /\ table[q].lag >= listLag[j]
          /\ \A r \in DOMAIN table : (table[r].nbValid = table[q].nbValid
                                          /\ table[r].lag = table[q].lag) => r <= q
      BY <3>1
    <3> HIDE DEF kept
    <3>3. PICK k \in 1..m : listVal[k] = table[q].nbValid
      BY <1>2, <3>2 DEF Lists, SizesOf, m
    <3>4. PICK l \in 1..p : listLag[l] = table[q].lag
      BY <1>2, <3>2 DEF Lists, LagsOf, p
    <3>5. k \in i..m /\ l \in j..p
      <4>1. listVal[i] <= listVal[k] /\ listLag[j] <= listLag[l]
        BY <1>5, <1>6, <3>2, <3>3, <3>4
      <4>2. i <= k /\ j <= l
        BY <1>2, <4>1 DEF Lists, m, p
      <4>3. QED BY <1>4, <4>2
    <3>6. q \in Lines(k, l) /\ \A r \in Lines(k, l) : r <= q
      BY <3>2, <3>3, <3>4
    <3>7. Lines(k, l) \subseteq Nat
      BY <1>7
    <3>8. Largest(Lines(k, l)) = q
      <4> HIDE DEF Lines
      <4>1. QED BY <3>6, <3>7, LargestOf
    <3>9. Point(k, l) = t
      <4> HIDE DEF Lines
      <4>1. QED BY <3>1, <3>6, <3>8
    <3>10. raw[k][l] = t
      BY <1>11, <3>9
    <3>11. t <= mesh[i][j]
      BY <1>12, <3>5, <3>10 DEF IsSweep
    <3>12. QED BY <1>8, <3>1, <3>2, <3>11
  <2>4. QED BY <2>2, <2>3
<1>17. ASSUME NEW i \in 1..m, NEW j \in 1..p
       PROVE  mesh[i][j] = Throughput3D(table, listVal[i], listLag[j])
  <2> DEFINE F == Found(listVal[i], listLag[j])
  <2>1. F \subseteq Nat
    BY <1>16
  <2>2. mesh[i][j] \in F /\ \A t \in F : t <= mesh[i][j]
    BY <1>15, <1>16
  <2>3. Throughput3D(table, listVal[i], listLag[j]) = Largest(F)
    BY <1>3
  <2> HIDE DEF F
  <2>4. QED BY <2>1, <2>2, <2>3, LargestOf
<1>18. model.listVal = listVal /\ model.listLag = listLag /\ model.mesh = mesh
  BY <1>1
<1>19. Filled(model, table)
  BY <1>2, <1>13, <1>14, <1>17, <1>18 DEF Filled, m, p
<1>20. QED BY <1>19 DEF model

\* sort.Search on a column that does not increase finds the last entry that is
\* large enough, or the last that is as large as the first.
LEMMA SearchIndexIs ==
  ASSUME NEW n \in Nat \ {0}, NEW column \in [1..n -> Nat], NEW t \in Nat,
         \A i, j \in 1..n : i <= j => column[j] <= column[i]
  PROVE  /\ SearchIndex(column, t) \in 1..n
         /\ column[1] >= t => \A i \in 1..n : i <= SearchIndex(column, t) <=> column[i] >= t
         /\ ~(column[1] >= t) =>
              \A i \in 1..n : i <= SearchIndex(column, t) <=> column[i] = column[1]
<1> DEFINE below == {i \in DOMAIN column : column[i] < t}
           first == IF below = {} THEN Len(column) + 1 ELSE Smallest(below)
           begin == IF first > 1 THEN first - 1 ELSE first
           run == {i \in begin..Len(column) : \A k \in begin..i : column[k] = column[begin]}
           x == SearchIndex(column, t)
<1>1. x = Largest(run)
  BY DEF SearchIndex
<1> HIDE DEF x
<1>2. Len(column) = n /\ DOMAIN column = 1..n
  BY FunctionIsSeq
<1>3. /\ first \in 1..n + 1 /\ \A i \in 1..n : i < first => ~(column[i] < t)
      /\ first # n + 1 => column[first] < t
  <2>1. CASE below = {}
    BY <1>2, <2>1
  <2>2. CASE below # {}
    <3>1. below \subseteq Nat /\ below \subseteq 1..n
      BY <1>2
    <3>2. first \in below /\ \A j \in below : first <= j
      <4> HIDE DEF below
      <4>1. QED BY <2>2, <3>1, SmallestIs
    <3> HIDE DEF first
    <3>3. first \in 1..n /\ column[first] < t
      BY <3>1, <3>2
    <3>4. ASSUME NEW i \in 1..n, i < first, column[i] < t PROVE FALSE
      <4>1. i \in below
        BY <1>2, <3>4
      <4>2. QED BY <3>2, <3>3, <3>4, <4>1
    <3>5. QED BY <3>3, <3>4
  <2>3. QED BY <2>1, <2>2
<1> HIDE DEF first
<1>4. begin \in 1..n /\ begin = (IF first > 1 THEN first - 1 ELSE 1)
  BY <1>3
<1> HIDE DEF begin
<1>5. \A i \in 1..n : column[i] \in Nat
  OBVIOUS
<1>6. /\ run \subseteq Nat /\ begin \in run /\ IsFiniteSet(run) /\ run \subseteq begin..n
  <2>1. run \subseteq begin..n /\ begin \in run
    BY <1>2, <1>4
  <2>2. begin \in Int /\ n \in Int
    BY <1>4
  <2>3. IsFiniteSet(begin..n)
    BY <2>2, FS_Interval
  <2>4. begin..n \subseteq Nat
    BY <1>4
  <2> HIDE DEF run
  <2>5. QED BY <2>1, <2>3, <2>4, FS_Subset
<1>7. x \in run /\ \A i \in run : i <= x
  <2> HIDE DEF run
  <2>1. QED BY <1>1, <1>6, LargestIs
<1>8. x \in 1..n /\ begin <= x /\ x \in begin..n
  BY <1>4, <1>6, <1>7
<1>9. CASE first = 1
  <2>1. begin = 1 /\ column[1] < t
    BY <1>3, <1>4, <1>9
  <2>2. ASSUME NEW i \in 1..n PROVE i <= x <=> column[i] = column[1]
    <3>1. ASSUME i <= x PROVE column[i] = column[1]
      <4>1. i \in begin..x
        BY <1>8, <2>1, <3>1
      <4>2. QED BY <1>7, <2>1, <4>1
    <3>2. ASSUME column[i] = column[1] PROVE i <= x
      <4>1. \A k \in 1..i : k \in 1..n /\ column[k] = column[1]
        <5>1. ASSUME NEW k \in 1..i PROVE k \in 1..n /\ column[k] = column[1]
          <6>1. k \in 1..n /\ 1 <= k /\ k <= i /\ 1 \in 1..n
            OBVIOUS
          <6>2. column[k] <= column[1] /\ column[i] <= column[k]
            BY <6>1
          <6>3. QED BY <1>5, <3>2, <6>1, <6>2
        <5>2. QED BY <5>1
      <4>2. i \in run
        BY <1>2, <2>1, <4>1
      <4>3. QED BY <1>7, <4>2
    <3>3. QED BY <3>1, <3>2
  <2>3. ~(column[1] >= t)
    <3>1. 1 \in 1..n
      OBVIOUS
    <3>2. QED BY <1>5, <2>1, <3>1
  <2>4. QED BY <1>8, <2>2, <2>3 DEF x
<1>10. CASE first # 1
  <2>1. begin = first - 1 /\ first \in Nat
    BY <1>3, <1>4, <1>10
  <2>2. \A i \in 1..n : i <= begin => column[i] >= t
    BY <1>3, <1>5, <2>1
  <2>3. \A i \in 1..n : ~(i <= begin) => ~(column[i] >= t)
    <3>1. ASSUME NEW i \in 1..n, ~(i <= begin) PROVE ~(column[i] >= t)
      <4>1. first <= i /\ first \in 1..n
        BY <1>3, <2>1, <3>1
      <4>2. column[i] <= column[first] /\ column[first] < t
        BY <1>3, <4>1
      <4>3. column[first] \in Nat
        BY <1>5, <4>1
      <4>4. QED BY <1>5, <4>2, <4>3
    <3>2. QED BY <3>1
  <2>4. x = begin
    <3>1. SUFFICES ASSUME x # begin PROVE FALSE
      OBVIOUS
    <3>2. ~(x <= begin) /\ x \in begin..x
      BY <1>4, <1>8, <3>1
    <3>3. column[x] = column[begin]
      BY <1>7, <3>2
    <3>4. column[begin] >= t /\ ~(column[x] >= t)
      BY <1>4, <1>8, <2>2, <2>3, <3>2
    <3>5. QED BY <3>3, <3>4
  <2>5. column[1] >= t
    <3>1. 1 \in 1..n /\ 1 <= begin
      BY <1>4
    <3>2. QED BY <2>2, <3>1
  <2>6. QED BY <1>8, <2>2, <2>3, <2>4, <2>5 DEF x
<1>11. QED BY <1>9, <1>10

\* getNbValIndex is past the end for more validators than were measured only.
LEMMA NbValIndexIs ==
  ASSUME NEW table \in Seq(Sample3D), NEW model, Lists(model.listVal, SizesOf(table)), NEW v \in Nat
  PROVE  /\ ~(NbValIndex(model, v) > Len(model.listVal)) => NbValIndex(model, v) \in 1..Len(model.listVal)
         /\ NbValIndex(model, v) > Len(model.listVal) => \A s \in SizesOf(table) : s < v
         /\ v \in SizesOf(table) => ~(NbValIndex(model, v) > Len(model.listVal))
<1> DEFINE larger == {i \in DOMAIN model.listVal : model.listVal[i] >= v}
           m == Len(model.listVal)
           x == NbValIndex(model, v)
<1>1. m \in Nat \ {0} /\ DOMAIN model.listVal = 1..m /\ \A i \in 1..m : model.listVal[i] \in Nat
  <2>1. m \in Nat \ {0} /\ model.listVal \in [1..m -> Nat]
    BY LenProperties DEF Lists
  <2>2. QED BY <2>1
<1>2. x = IF larger = {} THEN m + 1 ELSE Smallest(larger)
  BY DEF NbValIndex
<1> HIDE DEF x, m
<1>3. \A s \in SizesOf(table) : \E i \in 1..m : s = model.listVal[i]
  BY DEF Lists, m
<1>4. CASE larger = {}
  <2>1. \A i \in 1..m : model.listVal[i] < v
    BY <1>1, <1>4
  <2>2. \A s \in SizesOf(table) : s < v
    BY <1>3, <2>1
  <2>3. x = m + 1
    BY <1>2, <1>4
  <2>4. v \notin SizesOf(table)
    BY <2>2
  <2>5. QED BY <1>1, <2>2, <2>3, <2>4 DEF x, m
<1>5. CASE larger # {}
  <2>1. larger \subseteq Nat /\ larger \subseteq 1..m
    BY <1>1
  <2>2. x \in larger
    <3> HIDE DEF larger
    <3>1. QED BY <1>2, <1>5, <2>1, SmallestIs
  <2>3. x \in 1..m /\ ~(x > m)
    BY <1>1, <2>1, <2>2
  <2>4. QED BY <2>3 DEF x, m
<1>6. QED BY <1>4, <1>5

LEMMA LatencyIndexIs ==
  ASSUME NEW table \in Seq(Sample3D), NEW model, Filled(model, table), NEW v \in Nat, NEW c \in Nat,
         ~(NbValIndex(model, v) > Len(model.listVal))
  PROVE  LatencyIndex(model, v, c) \in 1..Len(model.listLag)
<1> DEFINE m == Len(model.listVal)
           p == Len(model.listLag)
           x == NbValIndex(model, v)
           row == model.mesh[x]
<1>1. m \in Nat \ {0} /\ p \in Nat \ {0} /\ model.mesh \in [1..m -> [1..p -> Nat]]
  BY DEF Filled, Lists
<1>2. x \in 1..m
  BY NbValIndexIs DEF Filled
<1> HIDE DEF m, p, x
<1>3. row \in [1..p -> Nat]
  BY <1>1, <1>2
<1>4. \A i, j \in 1..p : i <= j => row[j] <= row[i]
  <2>1. ASSUME NEW i \in 1..p, NEW j \in 1..p, i <= j PROVE row[j] <= row[i]
    <3>1. x \in x..m /\ j \in i..p
      BY <1>1, <1>2, <2>1
    <3>2. QED BY <1>2, <3>1 DEF Filled, m, p
  <2>2. QED BY <2>1
<1>5. LatencyIndex(model, v, c) = SearchIndex(row, c)
  BY DEF LatencyIndex, x
<1> HIDE DEF row
<1>6. SearchIndex(row, c) \in 1..p
  BY <1>1, <1>3, <1>4, SearchIndexIs
<1>7. QED BY <1>5, <1>6 DEF p

\* GetIdealNbVal of the model in three dimensions, for a number of validators it
\* reaches.
LEMMA Ideal3DIs ==
  ASSUME NEW table \in Seq(Sample3D), NEW model, Filled(model, table),
         NEW r \in Nat, NEW c \in Nat, NEW v \in Nat, ~(NbValIndex(model, v) > Len(model.listVal))
  PROVE  /\ Ideal3D(model, r, c, v)
              = MostValidators3D(table, r, model.listLag[LatencyIndex(model, v, c)])
         /\ Ideal3D(model, r, c, v) \in SizesOf(table)
<1> DEFINE m == Len(model.listVal)
           p == Len(model.listLag)
           list == model.listVal
           latency == LatencyIndex(model, v, c)
           lag == model.listLag[latency]
           column == [i \in DOMAIN model.mesh |-> model.mesh[i][latency]]
           x == SearchIndex(column, r)
           sizes == SizesOf(table)
           does(s) == Throughput3D(table, s, lag)
           enough == {s \in sizes : does(s) >= r}
           asFew == {s \in sizes : does(s) = does(Smallest(sizes))}
           most == MostValidators3D(table, r, lag)
           ideal == Ideal3D(model, r, c, v)
<1>1. m \in Nat \ {0} /\ p \in Nat \ {0} /\ model.mesh \in [1..m -> [1..p -> Nat]]
  BY DEF Filled, Lists
<1>2. latency \in 1..p
  BY LatencyIndexIs
<1>3. most = IF enough # {} THEN Largest(enough) ELSE Largest(asFew)
  BY DEF MostValidators3D, SizesOf
<1>4. ideal = list[x]
  BY DEF Ideal3D
<1>5. Lists(list, sizes)
  BY DEF Filled
<1> HIDE DEF most, ideal, latency
<1>6. column \in [1..m -> Nat] /\ \A i \in 1..m : column[i] = model.mesh[i][latency]
  <2>1. DOMAIN model.mesh = 1..m /\ \A i \in 1..m : model.mesh[i] \in [1..p -> Nat]
    BY <1>1
  <2>2. \A i \in 1..m : model.mesh[i][latency] \in Nat
    BY <1>2, <2>1
  <2>3. QED BY <2>1, <2>2
<1>7. \A i \in 1..m : column[i] = does(list[i])
  BY <1>2, <1>6 DEF Filled
<1>8. \A i, j \in 1..m : i <= j => column[j] <= column[i]
  <2>1. ASSUME NEW i \in 1..m, NEW j \in 1..m, i <= j PROVE column[j] <= column[i]
    <3>1. j \in i..m /\ latency \in latency..p
      BY <1>1, <1>2, <2>1
    <3>2. model.mesh[j][latency] <= model.mesh[i][latency]
      BY <1>2, <3>1 DEF Filled
    <3>3. QED BY <1>6, <3>2
  <2>2. QED BY <2>1
<1> HIDE DEF column, m, p, does
<1>9. /\ x \in 1..m
      /\ column[1] >= r => \A i \in 1..m : i <= x <=> column[i] >= r
      /\ ~(column[1] >= r) => \A i \in 1..m : i <= x <=> column[i] = column[1]
  BY <1>1, <1>6, <1>8, SearchIndexIs
<1> HIDE DEF x, list, sizes
<1>10. /\ list \in [1..m -> sizes] /\ \A s \in sizes : \E i \in 1..m : list[i] = s
       /\ \A i, j \in 1..m : i <= j <=> list[i] <= list[j]
       /\ \A i \in 1..m : list[i] \in Nat
  <2>1. list \in Seq(Nat) /\ m = Len(list)
    BY <1>5 DEF Lists, m, list
  <2>2. \A i \in 1..m : list[i] \in Nat
    BY <2>1, LenProperties
  <2>3. QED BY <1>5, <2>1, <2>2 DEF Lists
<1>11. sizes \subseteq Nat /\ 1 \in 1..m
  BY <1>1, <1>10
<1>12. Smallest(sizes) = list[1]
  <2>1. \A s \in sizes : list[1] <= s
    BY <1>10, <1>11
  <2>2. list[1] \in sizes
    BY <1>10, <1>11
  <2>3. Smallest(sizes) \in sizes /\ \A s \in sizes : Smallest(sizes) <= s
    BY <1>11, <2>2, SmallestIs
  <2>4. Smallest(sizes) <= list[1] /\ list[1] <= Smallest(sizes)
    BY <2>1, <2>2, <2>3
  <2> DEFINE a == Smallest(sizes)
             b == list[1]
  <2>5. a \in Nat /\ b \in Nat
    BY <1>11, <2>2, <2>3
  <2> HIDE DEF a, b
  <2>6. a = b
    BY <2>4, <2>5 DEF a, b
  <2>7. QED BY <2>6 DEF a, b
<1>13. ASSUME NEW S \in SUBSET sizes, \A i \in 1..m : list[i] \in S <=> i <= x
       PROVE  Largest(S) = list[x]
  <2>1. list[x] \in S
    BY <1>9, <1>11, <1>13
  <2>2. ASSUME NEW s \in S PROVE s <= list[x]
    <3>1. PICK i \in 1..m : list[i] = s
      BY <1>10
    <3>2. i <= x
      BY <1>13, <3>1
    <3>3. QED BY <1>9, <1>10, <3>1, <3>2
  <2>3. S \subseteq Nat
    BY <1>11
  <2>4. QED BY <2>1, <2>2, <2>3, LargestOf
<1>14. CASE column[1] >= r
  <2>1. \A i \in 1..m : list[i] \in enough <=> i <= x
    BY <1>7, <1>9, <1>10, <1>14
  <2>2. enough # {}
    BY <1>9, <2>1
  <2> HIDE DEF enough
  <2>3. Largest(enough) = list[x]
    <3>1. enough \in SUBSET sizes
      BY DEF enough
    <3>2. QED BY <1>13, <2>1, <3>1
  <2>4. QED BY <1>3, <1>4, <1>9, <1>10, <2>2, <2>3 DEF most, ideal, lag, latency, sizes
<1>15. CASE ~(column[1] >= r)
  <2>1. \A i \in 1..m : list[i] \in asFew <=> i <= x
    BY SMTT(30), <1>7, <1>9, <1>10, <1>11, <1>12, <1>15
  <2>2. enough = {}
    <3>1. SUFFICES ASSUME NEW s \in enough PROVE FALSE
      OBVIOUS
    <3>2. PICK i \in 1..m : list[i] = s
      BY <1>10
    <3>3. column[i] >= r /\ column[i] <= column[1]
      BY <1>7, <1>8, <1>11, <3>2
    <3>4. column[i] \in Nat /\ column[1] \in Nat
      BY <1>6, <1>11
    <3>5. QED BY <1>15, <3>3, <3>4
  <2> HIDE DEF asFew, enough
  <2>3. Largest(asFew) = list[x]
    <3>1. asFew \in SUBSET sizes
      BY DEF asFew
    <3>2. QED BY <1>13, <2>1, <3>1
  <2>4. QED BY <1>3, <1>4, <1>9, <1>10, <2>2, <2>3 DEF most, ideal, lag, latency, sizes
<1>16. QED BY <1>14, <1>15
-----------------------------------------------------------------------------
(***************************************************************************)
(* Sums of natural numbers.                                                *)
(***************************************************************************)
SumNext(f, h, s) == IF s = {} THEN 0 ELSE f[CHOOSE x \in s : TRUE] + h[s \ {CHOOSE x \in s : TRUE}]

LEMMA SumFunctionChosen ==
  ASSUME NEW f
  PROVE  SumFunction(f) =
           (CHOOSE h : h = [s \in SUBSET DOMAIN f |-> SumNext(f, h, s)])[DOMAIN f]
BY DEF SumFunction, SumFunctionOnSet, FoldFunctionOnSet, MapThenFoldSet, SumNext

LEMMA SumFunctionIsNat ==
  ASSUME NEW f, IsFiniteSet(DOMAIN f), \A x \in DOMAIN f : f[x] \in Nat
  PROVE  SumFunction(f) \in Nat
<1> DEFINE S == DOMAIN f
           card(s) == Cardinality(s)
           upTo(n) == {s \in SUBSET S : card(s) <= n}
           sums(n) == {h \in [upTo(n) -> Nat] : \A s \in upTo(n) : h[s] = SumNext(f, h, s)}
           pick(s) == CHOOSE x \in s : TRUE
           rest(s) == s \ {pick(s)}
<1>1. ASSUME NEW s \in SUBSET S
      PROVE  /\ IsFiniteSet(s) /\ Cardinality(s) \in Nat /\ (Cardinality(s) = 0 <=> s = {})
             /\ s # {} => /\ pick(s) \in s /\ f[pick(s)] \in Nat /\ rest(s) \in SUBSET S
                          /\ Cardinality(rest(s)) = Cardinality(s) - 1
  <2>1. IsFiniteSet(s)
    BY FS_Subset
  <2>2. Cardinality(s) \in Nat /\ (Cardinality(s) = 0 <=> s = {})
    BY <2>1, FS_CardinalityType, FS_EmptySet
  <2>3. ASSUME s # {}
        PROVE  /\ pick(s) \in s /\ f[pick(s)] \in Nat /\ rest(s) \in SUBSET S
               /\ Cardinality(rest(s)) = Cardinality(s) - 1
    <3>1. pick(s) \in s
      BY <2>3
    <3> HIDE DEF pick
    <3>2. Cardinality(rest(s)) = Cardinality(s) - 1
      BY <2>1, <3>1, FS_RemoveElement
    <3>3. QED BY <3>1, <3>2
  <2>4. QED BY <2>1, <2>2, <2>3
<1>2. \A s \in SUBSET S : card(s) \in Nat /\ (card(s) = 0 <=> s = {})
  BY <1>1
<1>3. \A s \in SUBSET S : s # {} =>
        /\ f[pick(s)] \in Nat /\ rest(s) \in SUBSET S
        /\ card(rest(s)) = card(s) - 1
  BY <1>1
<1> HIDE DEF card
<1>4. \A h, s : SumNext(f, h, s) = IF s = {} THEN 0 ELSE f[pick(s)] + h[rest(s)]
  BY DEF SumNext
<1> HIDE DEF pick, rest, S
<1>5. sums(0) # {}
  <2> DEFINE h == [s \in upTo(0) |-> 0]
  <2>1. \A s \in upTo(0) : s = {}
    BY <1>2
  <2>2. \A s \in upTo(0) : h[s] = SumNext(f, h, s)
    BY <1>4, <2>1
  <2>3. h \in [upTo(0) -> Nat]
    OBVIOUS
  <2> HIDE DEF h, upTo
  <2>4. QED BY <2>2, <2>3
<1>6. ASSUME NEW n \in Nat, sums(n) # {} PROVE sums(n + 1) # {}
  <2>1. PICK h \in [upTo(n) -> Nat] : \A s \in upTo(n) : h[s] = SumNext(f, h, s)
    BY <1>6
  <2> DEFINE g == [s \in upTo(n + 1) |-> SumNext(f, h, s)]
  <2>2. ASSUME NEW s \in upTo(n + 1), s # {}
        PROVE  rest(s) \in upTo(n) /\ f[pick(s)] \in Nat /\ rest(s) \in upTo(n + 1)
    BY <1>2, <1>3, <2>2
  <2>3. \A s \in upTo(n) : s \in upTo(n + 1) /\ g[s] = h[s]
    <3>1. \A s \in upTo(n) : s \in upTo(n + 1)
      BY <1>2
    <3> HIDE DEF upTo
    <3>2. QED BY <2>1, <3>1
  <2>4. ASSUME NEW s \in upTo(n + 1) PROVE g[s] \in Nat /\ g[s] = SumNext(f, g, s)
    <3>1. CASE s = {}
      BY <1>4, <3>1
    <3>2. CASE s # {}
      <4> DEFINE t == rest(s)
      <4>1. t \in upTo(n) /\ f[pick(s)] \in Nat
        BY <2>2, <3>2
      <4>2. SumNext(f, h, s) = f[pick(s)] + h[t] /\ SumNext(f, g, s) = f[pick(s)] + g[t]
        BY <1>4, <3>2
      <4> HIDE DEF t, upTo
      <4>3. g[t] = h[t] /\ h[t] \in Nat
        BY <2>3, <4>1
      <4>4. g[s] = SumNext(f, h, s)
        OBVIOUS
      <4> HIDE DEF g
      <4>5. QED BY <4>1, <4>2, <4>3, <4>4
    <3>3. QED BY <3>1, <3>2
  <2>5. g = [s \in upTo(n + 1) |-> g[s]]
    OBVIOUS
  <2> HIDE DEF g, upTo
  <2>6. g \in sums(n + 1)
    BY <2>4, <2>5
  <2>7. QED BY <2>6
<1> DEFINE N == {n \in Nat : sums(n) # {}}
<1>7. Nat \subseteq N
  <2> HIDE DEF sums
  <2>1. 0 \in N /\ \A n \in Nat : n \in N => n + 1 \in N
    BY <1>5, <1>6
  <2> HIDE DEF N
  <2>2. QED BY <2>1, Inducts
<1>8. S \in SUBSET S /\ card(S) \in Nat /\ upTo(card(S)) = SUBSET S
  <2>1. card(S) \in Nat
    BY <1>2
  <2>2. \A s \in SUBSET S : card(s) <= card(S)
    BY FS_Subset DEF S, card
  <2>3. QED BY <2>1, <2>2
<1> HIDE DEF upTo
<1>9. PICK g \in [SUBSET S -> Nat] : \A s \in SUBSET S : g[s] = SumNext(f, g, s)
  <2>1. sums(card(S)) # {}
    BY <1>7, <1>8
  <2>2. QED BY <1>8, <2>1
<1> DEFINE h == CHOOSE h : h = [s \in SUBSET S |-> SumNext(f, h, s)]
<1>10. h = [s \in SUBSET S |-> SumNext(f, h, s)]
  <2>1. g = [s \in SUBSET S |-> SumNext(f, g, s)]
    BY <1>9
  <2>2. QED BY <2>1
<1>11. SumFunction(f) = h[S]
  BY SumFunctionChosen DEF S
<1> HIDE DEF h
<1> DEFINE M == {n \in Nat : \A s \in SUBSET S : card(s) = n => h[s] \in Nat}
<1>12. Nat \subseteq M
  <2>1. 0 \in M
    <3>1. ASSUME NEW s \in SUBSET S, card(s) = 0 PROVE h[s] \in Nat
      <4>1. h[s] = SumNext(f, h, s) /\ s = {}
        BY <1>2, <1>10, <3>1
      <4>2. QED BY <1>4, <4>1
    <3>2. QED BY <3>1
  <2>2. ASSUME NEW n \in Nat, n \in M PROVE n + 1 \in M
    <3>1. ASSUME NEW s \in SUBSET S, card(s) = n + 1 PROVE h[s] \in Nat
      <4>1. h[s] = SumNext(f, h, s) /\ s # {}
        BY <1>2, <1>10, <3>1
      <4> DEFINE t == rest(s)
      <4>2. t \in SUBSET S /\ card(t) = n /\ f[pick(s)] \in Nat
        BY <1>2, <1>3, <3>1, <4>1
      <4>3. SumNext(f, h, s) = f[pick(s)] + h[t]
        BY <1>4, <4>1
      <4> HIDE DEF t
      <4>4. h[t] \in Nat
        BY <2>2, <4>2
      <4>5. QED BY <4>1, <4>2, <4>3, <4>4
    <3>2. QED BY <3>1
  <2> HIDE DEF M
  <2>3. QED BY <2>1, <2>2, Inducts
<1>13. QED BY <1>8, <1>11, <1>12
=============================================================================
