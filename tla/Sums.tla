-------------------------------- MODULE Sums --------------------------------
(***************************************************************************)
(* What the proofs need to know of MapThenSumSet, the sum the models use,  *)
(* and of folds that take the steps of a run.                              *)
(***************************************************************************)
EXTENDS Integers, FiniteSets, FiniteSetsExt, FiniteSetTheorems, WellFoundedInduction,
        TLAPS

\* The sum of f over the finite set S, in the shape the models write it.
Sum(f, S) == MapThenSumSet(LAMBDA x : f[x], S)

\* The recursion behind it, as a predicate on the function g it defines.
Pick(s) == CHOOSE x \in s : TRUE
SumAt(f, g, s) == IF s = {} THEN 0 ELSE f[Pick(s)] + g[s \ {Pick(s)}]
IsSum(f, S, g) == g = [s \in SUBSET S |-> SumAt(f, g, s)]

\* A natural number is least in every set of them.
LEMMA LeastNat ==
  ASSUME NEW T, T \subseteq Nat, T # {}
  PROVE  \E n \in T : \A m \in T : n <= m
<1>1. PICK n \in T : \A m \in T : <<m, n>> \notin OpToRel(<, Nat)
  BY WFMin, NatLessThanWellFounded
<1>2. \A m \in T : ~ (m < n)
  BY <1>1 DEF OpToRel
<1> QED
  BY <1>2

\* The maximum of a set of positions.
LEMMA MaxInSet ==
  ASSUME NEW n \in Nat, NEW s \in SUBSET (1..n), s # {}
  PROVE  Max(s) \in s
<1> DEFINE T == {n - x : x \in s}
<1>0. \A x \in s : x \in 1..n /\ n - x \in Nat
  OBVIOUS
<1>1. T \subseteq Nat /\ T # {}
  <2>1. \A m \in T : m \in Nat
    BY <1>0
  <2>2. \A x \in s : n - x \in T
    OBVIOUS
  <2> HIDE DEF T
  <2> QED BY <2>1, <2>2
<1>2. PICK m \in T : \A k \in T : m <= k
  <2> HIDE DEF T
  <2> QED BY <1>1, LeastNat
<1>3. PICK x \in s : m = n - x
  BY <1>2
<1>4. \A y \in s : x >= y
  <2> SUFFICES ASSUME NEW y \in s PROVE x >= y
    OBVIOUS
  <2>1. n - x <= n - y
    BY <1>2, <1>3
  <2>2. s \subseteq 1..n
    OBVIOUS
  <2>3. x \in 1..n /\ y \in 1..n
    BY <2>2, Zenon
  <2> QED BY <2>1, <2>3
<1> QED BY <1>3, <1>4 DEF Max

\* What holds at 0 and climbs holds at the top.
LEMMA Climb ==
  ASSUME NEW n \in Nat, NEW G, 0 \in G, \A i \in 1..n : i - 1 \in G => i \in G
  PROVE  n \in G
<1> DEFINE Bad == {i \in 0..n : i \notin G}
<1>1. SUFFICES ASSUME Bad # {} PROVE FALSE
  OBVIOUS
<1>2. PICK i \in Bad : \A j \in Bad : i <= j
  <2>1. Bad \subseteq Nat
    OBVIOUS
  <2> HIDE DEF Bad
  <2> QED BY <1>1, <2>1, LeastNat
<1>3. i \in 1..n /\ i - 1 \in 0..n
  BY <1>2
<1>4. i - 1 \notin Bad
  <2> HIDE DEF Bad
  <2> QED BY <1>2, <1>3
<1> QED BY <1>2, <1>3, <1>4

LEMMA Topmost ==
  ASSUME NEW n \in Nat, NEW i \in 1..n
  PROVE  /\ 1..i \in SUBSET (1..n) /\ 1..i # {}
         /\ Max(1..i) = i
         /\ (1..i) \ {i} = 1..(i - 1) /\ 1..(i - 1) \in SUBSET (1..n)
<1>1. Max(1..i) \in 1..i /\ \A y \in 1..i : Max(1..i) >= y
  <2>1. \E x \in 1..i : \A y \in 1..i : x >= y
    BY i \in 1..i
  <2> QED BY <2>1 DEF Max
<1>2. Max(1..i) = i
  BY <1>1, i \in 1..i
<1> QED BY <1>2

\* A function from R to R can be applied over and over.
RunOf(R, f, base, n, r) ==
  r \in [0..n -> R] /\ r[0] = base /\ \A i \in 1..n : r[i] = f[r[i - 1]]
LEMMA RunExists ==
  ASSUME NEW R, NEW f \in [R -> R], NEW base \in R, NEW n \in Nat
  PROVE  \E r : RunOf(R, f, base, n, r)
<1> DEFINE Run(m, r) == RunOf(R, f, base, m, r)
           G == {m \in 0..n : \E r : Run(m, r)}
<1> USE DEF RunOf
<1>1. 0 \in G
  <2>1. Run(0, [i \in 0..0 |-> base])
    OBVIOUS
  <2> HIDE DEF Run
  <2> QED BY <2>1
<1>2. ASSUME NEW m \in 1..n, m - 1 \in G PROVE m \in G
  <2>1. PICK r : Run(m - 1, r)
    BY <1>2
  <2> DEFINE q == [i \in 0..m |-> IF i = m THEN f[r[m - 1]] ELSE r[i]]
  <2>2. r[m - 1] \in R
    BY <2>1
  <2>3. q \in [0..m -> R] /\ q[0] = base
    BY <2>1, <2>2
  <2>4. ASSUME NEW i \in 1..m PROVE q[i] = f[q[i - 1]]
    BY <2>1
  <2>5. Run(m, q)
    BY <2>3, <2>4
  <2> HIDE DEF Run, q
  <2> QED BY <2>5
<1>3. n \in G
  <2> HIDE DEF G
  <2> QED BY <1>1, <1>2, Climb
<1> HIDE DEF RunOf
<1> QED BY <1>3

\* The same with a function of the position, too.
RunAlong(R, f, base, n, r) ==
  r \in [0..n -> R] /\ r[0] = base /\ \A i \in 1..n : r[i] = f[<<i, r[i - 1]>>]
LEMMA RunAlongExists ==
  ASSUME NEW R, NEW n \in Nat, NEW f \in [(1..n) \X R -> R], NEW base \in R
  PROVE  \E r : RunAlong(R, f, base, n, r)
<1> DEFINE Run(m, r) == RunAlong(R, f, base, m, r)
           G == {m \in 0..n : \E r : Run(m, r)}
<1> USE DEF RunAlong
<1>1. 0 \in G
  <2>1. Run(0, [i \in 0..0 |-> base])
    OBVIOUS
  <2> HIDE DEF Run
  <2> QED BY <2>1
<1>2. ASSUME NEW m \in 1..n, m - 1 \in G PROVE m \in G
  <2>1. PICK r : Run(m - 1, r)
    BY <1>2
  <2> DEFINE q == [i \in 0..m |-> IF i = m THEN f[<<m, r[m - 1]>>] ELSE r[i]]
  <2>2. r[m - 1] \in R /\ <<m, r[m - 1]>> \in (1..n) \X R
    BY <2>1
  <2>3. q \in [0..m -> R] /\ q[0] = base
    BY <2>1, <2>2
  <2>4. ASSUME NEW i \in 1..m PROVE q[i] = f[<<i, q[i - 1]>>]
    <3>1. q[i - 1] = r[i - 1]
      OBVIOUS
    <3>2. i # m => q[i] = r[i] /\ i \in 1..(m - 1)
      OBVIOUS
    <3>3. i = m => q[i] = f[<<m, r[m - 1]>>]
      OBVIOUS
    <3> HIDE DEF q
    <3> QED BY <2>1, <3>1, <3>2, <3>3
  <2>5. Run(m, q)
    BY <2>3, <2>4
  <2> HIDE DEF Run, q
  <2> QED BY <2>5
<1>3. n \in G
  <2> HIDE DEF G
  <2> QED BY <1>1, <1>2, Climb
<1> HIDE DEF RunAlong
<1> QED BY <1>3

\* The recursion of a fold over 1..n that applies f once for each element.
FoldOf(R, f, base, n, g) ==
  /\ g \in [SUBSET (1..n) -> R]
  /\ g = [s \in SUBSET (1..n) |-> IF s = {} THEN base ELSE f[g[s \ {Max(s)}]]]
LEMMA FoldExists ==
  ASSUME NEW R, NEW f \in [R -> R], NEW base \in R, NEW n \in Nat
  PROVE  \E g : FoldOf(R, f, base, n, g)
<1>1. PICK r : RunOf(R, f, base, n, r)
  BY RunExists
<1> USE DEF RunOf
<1> DEFINE D == 1..n
           g == [s \in SUBSET D |-> r[Cardinality(s)]]
<1>2. IsFiniteSet(D) /\ Cardinality(D) = n
  BY FS_Interval
<1>3. ASSUME NEW s \in SUBSET D
      PROVE  /\ IsFiniteSet(s) /\ Cardinality(s) \in 0..n
             /\ s # {} => /\ s \ {Max(s)} \in SUBSET D
                         /\ Cardinality(s) \in 1..n
                         /\ Cardinality(s \ {Max(s)}) = Cardinality(s) - 1
  <2>1. IsFiniteSet(s) /\ Cardinality(s) \in 0..n
    <3> HIDE DEF D
    <3>1. IsFiniteSet(s) /\ Cardinality(s) <= n
      BY <1>2, FS_Subset
    <3> QED BY <3>1, FS_CardinalityType
  <2>2. s # {} => Max(s) \in s
    BY MaxInSet
  <2> HIDE DEF D
  <2>3. s # {} => Cardinality(s) # 0
    BY <2>1, FS_EmptySet
  <2>4. s # {} => Cardinality(s \ {Max(s)}) = Cardinality(s) - 1
    BY <2>1, <2>2, FS_RemoveElement
  <2> QED BY <2>1, <2>3, <2>4
<1>4. Cardinality({}) = 0 /\ {} \in SUBSET D
  BY FS_EmptySet
<1> HIDE DEF D
<1>5. g \in [SUBSET D -> R]
  BY <1>1, <1>3
<1>6. ASSUME NEW s \in SUBSET D
      PROVE  g[s] = IF s = {} THEN base ELSE f[g[s \ {Max(s)}]]
  BY <1>1, <1>3, <1>4
<1>7. FoldOf(R, f, base, n, g)
  BY <1>5, <1>6 DEF D, FoldOf
<1> QED BY <1>7

LEMMA PickSmaller ==
  ASSUME NEW s, IsFiniteSet(s), s # {}
  PROVE  /\ Pick(s) \in s
         /\ IsFiniteSet(s \ {Pick(s)})
         /\ Cardinality(s \ {Pick(s)}) = Cardinality(s) - 1
         /\ Cardinality(s) \in Nat
  BY FS_RemoveElement, FS_CardinalityType DEF Pick

\* Induction over the subsets of a finite set, with a set in place of a
\* predicate: it holds all of them when it holds {}, and every s that is one
\* element larger than subsets it holds.
LEMMA SubsetInduction ==
  ASSUME NEW S, IsFiniteSet(S), NEW G, {} \in G,
         \A s \in SUBSET S : s # {} /\ (\A x \in s : s \ {x} \in G) => s \in G
  PROVE  SUBSET S \subseteq G
<1> DEFINE Bad == {n \in Nat : \E s \in SUBSET S : Cardinality(s) = n /\ s \notin G}
<1>0. \A s \in SUBSET S : IsFiniteSet(s) /\ Cardinality(s) \in Nat
  BY FS_Subset, FS_CardinalityType
<1>1. Bad = {}
  <2> SUFFICES ASSUME Bad # {} PROVE FALSE
    OBVIOUS
  <2>1. PICK n \in Bad : \A m \in Bad : n <= m
    BY LeastNat
  <2>2. PICK s \in SUBSET S : Cardinality(s) = n /\ s \notin G
    BY <2>1
  <2>3. PICK x \in s : s \ {x} \notin G
    BY <2>2
  <2>4. /\ s \ {x} \in SUBSET S
        /\ Cardinality(s \ {x}) \in Nat /\ Cardinality(s \ {x}) < n
    BY <1>0, <2>2, FS_RemoveElement
  <2> DEFINE m == Cardinality(s \ {x})
  <2>5. m \in Bad /\ m \in Nat /\ m < n /\ n \in Nat
    BY <2>1, <2>3, <2>4
  <2>6. n <= m
    <3> HIDE DEF Bad, m
    <3> QED BY <2>1, <2>5
  <2> HIDE DEF m
  <2> QED BY <2>5, <2>6
<1> QED BY <1>0, <1>1

\* The recursion has a solution on a finite set.
LEMMA SumExists ==
  ASSUME NEW S, IsFiniteSet(S), NEW f \in [S -> Nat]
  PROVE  \E g : IsSum(f, S, g)
<1> DEFINE Upto(n, g) == /\ g \in [SUBSET S -> Nat]
                         /\ \A s \in SUBSET S :
                              Cardinality(s) <= n => g[s] = SumAt(f, g, s)
           Bad == {n \in Nat : ~ \E g : Upto(n, g)}
<1>0. \A s \in SUBSET S : IsFiniteSet(s) /\ Cardinality(s) \in Nat
  BY FS_Subset, FS_CardinalityType
<1>a. \A s \in SUBSET S : s # {} =>
        /\ Pick(s) \in S
        /\ s \ {Pick(s)} \in SUBSET S
        /\ Cardinality(s \ {Pick(s)}) = Cardinality(s) - 1
  BY <1>0, PickSmaller
<1>1. Bad = {}
  <2> SUFFICES ASSUME Bad # {} PROVE FALSE
    OBVIOUS
  <2>1. PICK n \in Bad : \A m \in Bad : n <= m
    <3> HIDE DEF Upto
    <3> QED BY LeastNat
  <2>2. CASE n = 0
    <3> DEFINE g == [s \in SUBSET S |-> 0]
    <3>1. \A s \in SUBSET S : Cardinality(s) <= 0 => s = {}
      BY <1>0, FS_EmptySet
    <3>2. Upto(0, g)
      BY <3>1 DEF SumAt
    <3> QED BY <2>1, <2>2, <3>2
  <2>3. CASE n # 0
    <3>1. n - 1 \in Nat /\ n - 1 \notin Bad
      <4> HIDE DEF Upto
      <4>1. n \in Nat /\ n - 1 \in Nat /\ ~ (n <= n - 1)
        BY <2>1, <2>3
      <4> QED BY <2>1, <4>1
    <3>2. PICK h : Upto(n - 1, h)
      BY <3>1
    <3> DEFINE g == [s \in SUBSET S |->
                       IF Cardinality(s) <= n - 1 THEN h[s] ELSE SumAt(f, h, s)]
    <3>3. \A s \in SUBSET S : SumAt(f, h, s) \in Nat
      <4> SUFFICES ASSUME NEW s \in SUBSET S, s # {}
                   PROVE  f[Pick(s)] + h[s \ {Pick(s)}] \in Nat
        BY DEF SumAt
      <4>1. f[Pick(s)] \in Nat /\ h[s \ {Pick(s)}] \in Nat
        BY <1>a, <3>2
      <4> QED BY <4>1
    <3>4. g \in [SUBSET S -> Nat]
      BY <3>2, <3>3
    <3>5. \A s \in SUBSET S : Cardinality(s) <= n => SumAt(f, g, s) = SumAt(f, h, s)
      BY <1>0, <1>a, <2>1 DEF SumAt
    <3>6. \A s \in SUBSET S : Cardinality(s) <= n => g[s] = SumAt(f, g, s)
      BY <1>0, <3>2, <3>5
    <3>7. Upto(n, g)
      BY <3>4, <3>6
    <3> QED BY <2>1, <3>7
  <2> QED BY <2>2, <2>3
<1>2. Cardinality(S) \in Nat
  BY FS_CardinalityType
<1>3. PICK g : Upto(Cardinality(S), g)
  BY <1>1, <1>2
<1>4. \A s \in SUBSET S : Cardinality(s) <= Cardinality(S)
  BY FS_Subset
<1>5. IsSum(f, S, g)
  BY <1>3, <1>4 DEF IsSum
<1> QED BY <1>5

\* Every solution has natural numbers for values.
LEMMA SolutionNat ==
  ASSUME NEW S, IsFiniteSet(S), NEW f \in [S -> Nat], NEW g, IsSum(f, S, g)
  PROVE  \A s \in SUBSET S : g[s] \in Nat
<1> DEFINE G == {s \in SUBSET S : g[s] \in Nat}
<1>0. \A s \in SUBSET S : IsFiniteSet(s) /\ g[s] = SumAt(f, g, s)
  BY FS_Subset DEF IsSum
<1>1. {} \in G
  BY <1>0 DEF SumAt
<1>2. ASSUME NEW s \in SUBSET S, s # {}, \A x \in s : s \ {x} \in G
      PROVE  s \in G
  <2>1. Pick(s) \in s
    BY <1>0, <1>2, PickSmaller
  <2>2. f[Pick(s)] \in Nat /\ g[s \ {Pick(s)}] \in Nat
    BY <1>2, <2>1
  <2>3. g[s] = f[Pick(s)] + g[s \ {Pick(s)}]
    BY <1>0, <1>2 DEF SumAt
  <2> QED BY <2>2, <2>3
<1>3. SUBSET S \subseteq G
  <2> HIDE DEF G
  <2> QED BY <1>1, <1>2, SubsetInduction
<1> QED BY <1>3

\* What MapThenSumSet chooses is a solution, if there is one.
LEMMA SumIsSolution ==
  ASSUME NEW S, IsFiniteSet(S), NEW f \in [S -> Nat]
  PROVE  \E g : IsSum(f, S, g) /\ Sum(f, S) = g[S]
<1>1. Sum(f, S) = (CHOOSE g : IsSum(f, S, g))[S]
  BY DEF Sum, MapThenSumSet, MapThenFoldSet, IsSum, SumAt, Pick
<1>2. IsSum(f, S, CHOOSE g : IsSum(f, S, g))
  BY SumExists
<1> QED BY <1>1, <1>2

\* A sum of natural numbers is one, and the empty sum is 0.
LEMMA SumNat ==
  ASSUME NEW S, IsFiniteSet(S), NEW f \in [S -> Nat]
  PROVE  Sum(f, S) \in Nat
  BY SumIsSolution, SolutionNat

LEMMA SumEmpty == ASSUME NEW f PROVE Sum(f, {}) = 0
<1> DEFINE P(g) == g = [s \in SUBSET {} |-> SumAt(f, g, s)]
<1>1. P([s \in SUBSET {} |-> 0])
  BY DEF SumAt
<1>2. Sum(f, {}) = (CHOOSE g : P(g))[{}]
  BY DEF Sum, MapThenSumSet, MapThenFoldSet, SumAt, Pick
<1>3. P(CHOOSE g : P(g))
  BY <1>1
<1> QED BY <1>2, <1>3 DEF SumAt

-----------------------------------------------------------------------------
(* Taking a sum apart *)

\* A sum depends on the values it adds up, and on nothing else of f.
LEMMA SumSame ==
  ASSUME NEW S, NEW f, NEW h, \A x \in S : f[x] = h[x]
  PROVE  Sum(f, S) = Sum(h, S)
<1> DEFINE P(g) == IsSum(f, S, g)
           Q(g) == IsSum(h, S, g)
<1>1. Sum(f, S) = (CHOOSE g : P(g))[S] /\ Sum(h, S) = (CHOOSE g : Q(g))[S]
  BY DEF Sum, MapThenSumSet, MapThenFoldSet, IsSum, SumAt, Pick
<1>2. \A s \in SUBSET S : s # {} => f[Pick(s)] = h[Pick(s)]
  BY DEF Pick
<1>3. \A g : P(g) <=> Q(g)
  BY <1>2 DEF IsSum, SumAt
<1>4. (CHOOSE g : P(g)) = (CHOOSE g : Q(g))
  <2> HIDE DEF P, Q
  <2> QED BY <1>3
<1> QED BY <1>1, <1>4

LEMMA SumInNat ==
  ASSUME NEW S, IsFiniteSet(S), NEW f, \A x \in S : f[x] \in Nat
  PROVE  Sum(f, S) \in Nat
<1> DEFINE h == [x \in S |-> f[x]]
<1>1. Sum(f, S) = Sum(h, S)
  BY SumSame
<1>2. h \in [S -> Nat]
  OBVIOUS
<1> HIDE DEF h
<1> QED BY <1>1, <1>2, SumNat

\* Any element may be taken out first.
LEMMA SolutionRemove ==
  ASSUME NEW S, IsFiniteSet(S), NEW f \in [S -> Nat], NEW g, IsSum(f, S, g)
  PROVE  \A s \in SUBSET S : \A x \in s : g[s] = f[x] + g[s \ {x}]
<1> DEFINE G == {s \in SUBSET S : \A x \in s : g[s] = f[x] + g[s \ {x}]}
<1>0. \A s \in SUBSET S : IsFiniteSet(s) /\ g[s] \in Nat
  BY FS_Subset, SolutionNat
<1>1. ASSUME NEW s \in SUBSET S, \A z \in s : s \ {z} \in G, NEW x \in s
      PROVE  g[s] = f[x] + g[s \ {x}]
  <2> DEFINE y == Pick(s)
             r == s \ {x, y}
  <2>1. g[s] = f[y] + g[s \ {y}] /\ y \in s
    BY PickSmaller, <1>0 DEF IsSum, SumAt
  <2> HIDE DEF y
  <2>2. CASE x = y
    BY <2>1, <2>2
  <2>3. CASE x # y
    <3>1. s \ {y} \in G /\ x \in s \ {y} /\ (s \ {y}) \ {x} = r
      BY <1>1, <2>1, <2>3
    <3>2. s \ {x} \in G /\ y \in s \ {x} /\ (s \ {x}) \ {y} = r
      BY <1>1, <2>1, <2>3
    <3>3. g[s \ {y}] = f[x] + g[r]
      BY <3>1
    <3>4. g[s \ {x}] = f[y] + g[r]
      BY <3>2
    <3>5. f[x] \in Nat /\ f[y] \in Nat /\ g[r] \in Nat
      BY <1>0, <2>1
    <3> QED BY <2>1, <3>3, <3>4, <3>5
  <2> QED BY <2>2, <2>3
<1>2. {} \in G
  OBVIOUS
<1>3. \A s \in SUBSET S : s # {} /\ (\A x \in s : s \ {x} \in G) => s \in G
  BY <1>1
<1>4. SUBSET S \subseteq G
  <2> HIDE DEF G
  <2> QED BY <1>2, <1>3, SubsetInduction
<1> QED BY <1>4

\* Two solutions agree where both are defined.
LEMMA SolutionSame ==
  ASSUME NEW S, IsFiniteSet(S), NEW T \in SUBSET S, NEW f, NEW g, NEW h,
         IsSum(f, S, g), IsSum(f, T, h)
  PROVE  \A s \in SUBSET T : g[s] = h[s]
<1> DEFINE G == {s \in SUBSET T : g[s] = h[s]}
<1>0. IsFiniteSet(T) /\ \A s \in SUBSET T :
        IsFiniteSet(s) /\ g[s] = SumAt(f, g, s) /\ h[s] = SumAt(f, h, s)
  BY FS_Subset DEF IsSum
<1>1. {} \in G
  BY <1>0 DEF SumAt
<1>2. ASSUME NEW s \in SUBSET T, s # {}, \A x \in s : s \ {x} \in G
      PROVE  s \in G
  <2>1. Pick(s) \in s
    BY <1>0, <1>2, PickSmaller
  <2> QED BY <1>0, <1>2, <2>1 DEF SumAt
<1>3. SUBSET T \subseteq G
  <2> HIDE DEF G
  <2> QED BY <1>0, <1>1, <1>2, SubsetInduction
<1> QED BY <1>3

LEMMA SumRemove ==
  ASSUME NEW S, IsFiniteSet(S), NEW f, \A x \in S : f[x] \in Nat, NEW x \in S
  PROVE  Sum(f, S) = f[x] + Sum(f, S \ {x})
<1> DEFINE h == [y \in S |-> f[y]]
           k == [y \in S \ {x} |-> f[y]]
           R == S \ {x}
<1>1. Sum(f, S) = Sum(h, S) /\ Sum(f, R) = Sum(k, R) /\ h[x] = f[x]
  BY SumSame
<1>2. h \in [S -> Nat] /\ k \in [R -> Nat] /\ \A y \in R : k[y] = h[y]
  OBVIOUS
<1>3. IsFiniteSet(R) /\ R \in SUBSET S
  BY FS_Subset
<1> HIDE DEF h, k
<1>4. PICK g : IsSum(h, S, g) /\ Sum(h, S) = g[S]
  BY <1>2, SumIsSolution
<1>5. PICK j : IsSum(k, R, j) /\ Sum(k, R) = j[R]
  BY <1>2, <1>3, SumIsSolution
<1>6. IsSum(h, R, j)
  <2>1. \A s \in SUBSET R : s # {} => k[Pick(s)] = h[Pick(s)]
    BY <1>2 DEF Pick
  <2> QED BY <1>5, <2>1 DEF IsSum, SumAt
<1>7. g[R] = j[R]
  <2>1. \A s \in SUBSET R : g[s] = j[s]
    <3> HIDE DEF R
    <3> QED BY <1>3, <1>4, <1>6, SolutionSame
  <2> QED BY <2>1
<1>8. g[S] = h[x] + g[R]
  BY <1>2, <1>4, SolutionRemove
<1> QED BY <1>1, <1>4, <1>5, <1>7, <1>8

LEMMA SumAdd ==
  ASSUME NEW S, IsFiniteSet(S), NEW x, x \notin S, NEW f, \A y \in S \cup {x} : f[y] \in Nat
  PROVE  Sum(f, S \cup {x}) = f[x] + Sum(f, S)
<1>1. IsFiniteSet(S \cup {x}) /\ (S \cup {x}) \ {x} = S
  BY FS_AddElement
<1> QED BY <1>1, SumRemove

\* The sum over a union of disjoint sets.
LEMMA SumUnion ==
  ASSUME NEW S, IsFiniteSet(S), NEW T, IsFiniteSet(T), S \cap T = {},
         NEW f, \A x \in S \cup T : f[x] \in Nat
  PROVE  Sum(f, S \cup T) = Sum(f, S) + Sum(f, T)
<1> DEFINE G == {t \in SUBSET T : Sum(f, S \cup t) = Sum(f, S) + Sum(f, t)}
<1>0. \A t \in SUBSET T : IsFiniteSet(t) /\ IsFiniteSet(S \cup t)
  BY FS_Subset, FS_Union
<1>1. Sum(f, S) \in Nat /\ \A t \in SUBSET T : Sum(f, t) \in Nat
  BY <1>0, SumInNat
<1>2. {} \in G
  <2>1. S \cup {} = S
    OBVIOUS
  <2> QED BY <1>1, <2>1, SumEmpty
<1>3. ASSUME NEW t \in SUBSET T, NEW x \in t, t \ {x} \in G
      PROVE  t \in G
  <2>1. Sum(f, t) = f[x] + Sum(f, t \ {x})
    BY <1>0, SumRemove
  <2>2. Sum(f, S \cup t) = f[x] + Sum(f, S \cup (t \ {x}))
    <3>1. (S \cup t) \ {x} = S \cup (t \ {x}) /\ x \in S \cup t
      OBVIOUS
    <3>2. Sum(f, S \cup t) = f[x] + Sum(f, (S \cup t) \ {x})
      <4>1. \A y \in S \cup t : f[y] \in Nat
        OBVIOUS
      <4> QED BY <1>0, <3>1, <4>1, SumRemove
    <3> QED BY <3>1, <3>2
  <2>3. f[x] \in Nat /\ Sum(f, t \ {x}) \in Nat
    BY <1>1
  <2> QED BY <1>1, <1>3, <2>1, <2>2, <2>3
<1>4. SUBSET T \subseteq G
  <2>1. \A t \in SUBSET T : t # {} /\ (\A x \in t : t \ {x} \in G) => t \in G
    BY <1>3
  <2> HIDE DEF G
  <2> QED BY <1>2, <2>1, SubsetInduction
<1> QED BY <1>4

LEMMA SumSubset ==
  ASSUME NEW S, IsFiniteSet(S), NEW T \in SUBSET S, NEW f, \A x \in S : f[x] \in Nat
  PROVE  Sum(f, S) = Sum(f, T) + Sum(f, S \ T) /\ Sum(f, T) <= Sum(f, S)
<1>1. IsFiniteSet(T) /\ IsFiniteSet(S \ T) /\ T \cup (S \ T) = S /\ T \cap (S \ T) = {}
  BY FS_Subset
<1>2. Sum(f, T) \in Nat /\ Sum(f, S \ T) \in Nat
  BY <1>1, SumInNat
<1> QED BY <1>1, <1>2, SumUnion

\* A sum may be taken in any order.
LEMMA SumRenamed ==
  ASSUME NEW D, IsFiniteSet(D), NEW r, \A d, e \in D : r[d] = r[e] => d = e,
         NEW f, \A d \in D : f[r[d]] \in Nat
  PROVE  Sum(f, {r[d] : d \in D}) = Sum([d \in D |-> f[r[d]]], D)
<1> DEFINE h == [d \in D |-> f[r[d]]]
           Im(s) == {r[d] : d \in s}
           G == {s \in SUBSET D : IsFiniteSet(Im(s)) /\ Sum(f, Im(s)) = Sum(h, s)}
<1>0. /\ \A s \in SUBSET D : IsFiniteSet(s)
      /\ \A d \in D : h[d] = f[r[d]] /\ h[d] \in Nat
  BY FS_Subset
<1>1. {} \in G
  <2>1. Im({}) = {}
    OBVIOUS
  <2> QED BY <2>1, SumEmpty, FS_EmptySet
<1>2. ASSUME NEW s \in SUBSET D, NEW x \in s, s \ {x} \in G
      PROVE  s \in G
  <2> DEFINE q == s \ {x}
  <2>1. IsFiniteSet(Im(q)) /\ Sum(f, Im(q)) = Sum(h, q)
    BY <1>2
  <2>2. Sum(h, s) = h[x] + Sum(h, q)
    <3>1. IsFiniteSet(s) /\ \A d \in s : h[d] \in Nat
      BY <1>0
    <3> HIDE DEF h
    <3> QED BY <3>1, SumRemove
  <2>3. Im(s) = Im(q) \cup {r[x]} /\ r[x] \notin Im(q)
    OBVIOUS
  <2>4. \A y \in Im(q) \cup {r[x]} : f[y] \in Nat
    OBVIOUS
  <2>5. IsFiniteSet(Im(s)) /\ Sum(f, Im(s)) = f[r[x]] + Sum(f, Im(q))
    <3> DEFINE A == Im(q)
               B == Im(s)
               v == r[x]
    <3>1. /\ IsFiniteSet(A) /\ B = A \cup {v} /\ v \notin A
          /\ \A y \in A \cup {v} : f[y] \in Nat
      BY <2>1, <2>3, <2>4
    <3> HIDE DEF A, B, v
    <3>2. IsFiniteSet(B) /\ Sum(f, B) = f[v] + Sum(f, A)
      BY <3>1, SumAdd, FS_AddElement
    <3> QED BY <3>2 DEF A, B, v
  <2> QED BY <1>0, <2>1, <2>2, <2>5
<1>3. SUBSET D \subseteq G
  <2>1. \A s \in SUBSET D : s # {} /\ (\A x \in s : s \ {x} \in G) => s \in G
    BY <1>2
  <2> HIDE DEF G
  <2> QED BY <1>1, <2>1, SubsetInduction
<1> QED BY <1>3

\* Zeros add up to zero.
LEMMA SumZero ==
  ASSUME NEW S, IsFiniteSet(S), NEW f, \A x \in S : f[x] = 0
  PROVE  Sum(f, S) = 0
<1> DEFINE G == {s \in SUBSET S : Sum(f, s) = 0}
<1>1. {} \in G
  BY SumEmpty
<1>2. ASSUME NEW s \in SUBSET S, NEW x \in s, s \ {x} \in G
      PROVE  s \in G
  <2>1. IsFiniteSet(s) /\ \A y \in s : f[y] \in Nat
    BY FS_Subset
  <2> QED BY <1>2, <2>1, SumRemove
<1>3. SUBSET S \subseteq G
  <2>1. \A s \in SUBSET S : s # {} /\ (\A x \in s : s \ {x} \in G) => s \in G
    BY <1>2
  <2> HIDE DEF G
  <2> QED BY <1>1, <2>1, SubsetInduction
<1> QED BY <1>3
=============================================================================
