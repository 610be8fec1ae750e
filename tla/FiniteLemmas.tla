---------------------------- MODULE FiniteLemmas ----------------------------
(***************************************************************************)
(* What the models' sums, minima and maxima over finite sets do: a sum is  *)
(* a natural number, loses what a removed element contributed, grows with  *)
(* its terms and with its set, and can be taken group by group; and a set  *)
(* can be put in a row by weight.  No induction theorem can be used for    *)
(* this, so each is proved by its smallest counterexample: a family of     *)
(* subsets of a finite set has a minimal member.                           *)
(***************************************************************************)
EXTENDS Integers, FiniteSets, FiniteSetsExt, FiniteSetTheorems, TLAPS

(* MapThenSumSet of a function, which it is for every sum here.            *)
SumOver(f, S) == MapThenSumSet(LAMBDA x : f[x], S)

-----------------------------------------------------------------------------
(* Sets of subsets of a finite set have a smallest member.                 *)
LEMMA SmallestSubset ==
    ASSUME NEW S, IsFiniteSet(S), NEW Bad \in SUBSET SUBSET S, Bad # {}
    PROVE  \E s \in Bad : \A t \in SUBSET s : t # s => t \notin Bad
<1>1. IsWellFoundedOn(StrictSubsetOrdering(S), SUBSET S)
  BY FS_StrictSubsetOrderingWellFounded, FS_FiniteSubsetsOfFinite
<1>2. PICK s \in Bad : \A t \in Bad : ~(<<t, s>> \in StrictSubsetOrdering(S))
  BY <1>1, WFMin
<1>3. \A t \in SUBSET s : t # s => t \notin Bad
  BY <1>2 DEF StrictSubsetOrdering
<1> QED
  BY <1>3

(* A set of natural numbers with 0 and all successors has them all: the    *)
(* intervals up to what it lacks would have no smallest.                   *)
LEMMA NatSetInduction ==
    ASSUME NEW N \in SUBSET Nat, 0 \in N, \A n \in N : n + 1 \in N
    PROVE  N = Nat
<1>1. SUFFICES ASSUME NEW b \in Nat \ N PROVE FALSE
  OBVIOUS
<1> DEFINE Bad == {s \in SUBSET (0..b) : \E k \in Nat \ N : s = 0..k}
<1>2. 0..b \in Bad /\ Bad \in SUBSET SUBSET (0..b) /\ Bad # {}
  OBVIOUS
<1>3. PICK s \in Bad : \A t \in SUBSET s : t # s => t \notin Bad
  <2>1. IsFiniteSet(0..b)
    BY FS_Interval
  <2> DEFINE T == 0..b
  <2>2. IsFiniteSet(T) /\ Bad \in SUBSET SUBSET T /\ Bad # {}
    BY <1>2, <2>1
  <2> HIDE DEF Bad, T
  <2> QED
    BY <2>2, SmallestSubset
<1>4. PICK k \in Nat \ N : s = 0..k
  OBVIOUS
<1>5. k # 0 /\ k - 1 \in Nat /\ k - 1 \notin N
  <2>1. k # 0 /\ k - 1 \in Nat
    OBVIOUS
  <2> QED
    BY <2>1
<1>6. 0..(k - 1) \in SUBSET s /\ 0..(k - 1) # s
  BY <1>4, <1>5
<1>7. 0..(k - 1) \in Bad
  BY <1>5, <1>6
<1> QED
  BY <1>3, <1>6, <1>7

(* A set of natural numbers has its minimum, and a finite one its maximum. *)
LEMMA MinIsMember == ASSUME NEW S \in SUBSET Nat, S # {} PROVE Min(S) \in S /\ \A m \in S : Min(S) <= m
<1>1. PICK b \in S : TRUE
  OBVIOUS
<1> DEFINE T == 0..b
           Bad == {s \in SUBSET T : \E k \in S : s = 0..k}
<1>2. IsFiniteSet(T) /\ Bad \in SUBSET SUBSET T /\ Bad # {}
  <2>1. 0..b \in Bad /\ Bad \in SUBSET SUBSET T
    OBVIOUS
  <2>2. IsFiniteSet(0..b)
    BY FS_Interval
  <2> QED
    BY <2>1, <2>2
<1>3. PICK s \in Bad : \A t \in SUBSET s : t # s => t \notin Bad
  <2> HIDE DEF Bad, T
  <2> QED
    BY <1>2, SmallestSubset
<1>4. PICK n \in S : s = 0..n
  OBVIOUS
<1>5. \A m \in S : n <= m
  <2> SUFFICES ASSUME NEW m \in S, m < n PROVE FALSE
    OBVIOUS
  <2>1. 0..m \in SUBSET s /\ 0..m # s
    <3>1. n \in 0..n /\ n \notin 0..m
      OBVIOUS
    <3> QED
      BY <1>4, <3>1
  <2>2. 0..m \in Bad
    BY <2>1
  <2> QED
    BY <1>3, <2>1, <2>2
<1> QED
  BY <1>5 DEF Min

LEMMA MaxIsMember ==
    ASSUME NEW S \in SUBSET Nat, S # {}, NEW b \in Nat, \A m \in S : m <= b
    PROVE  Max(S) \in S /\ \A m \in S : m <= Max(S)
<1> DEFINE U == {u \in 0..b : \A m \in S : m <= u}
<1>1. U \in SUBSET Nat /\ U # {}
  OBVIOUS
<1> DEFINE n == Min(U)
<1>2. n \in U /\ \A u \in U : n <= u
  BY <1>1, MinIsMember
<1> HIDE DEF n
<1>3. n \in S
  <2> SUFFICES ASSUME n \notin S PROVE FALSE
    OBVIOUS
  <2>1. PICK x \in S : TRUE
    OBVIOUS
  <2>2. n - 1 \in U
    BY <1>2, <2>1
  <2> QED
    BY <1>2, <2>2
<1>4. \A m \in S : m <= n
  BY <1>2
<1> QED
  BY <1>3, <1>4 DEF Max

-----------------------------------------------------------------------------
Pick(s) == CHOOSE x \in s : TRUE

(* The table that MapThenSumSet computes a sum with.                       *)
IsTable(h, f, S) ==
    h = [s \in SUBSET S |-> IF s = {} THEN 0 ELSE f[Pick(s)] + h[s \ {Pick(s)}]]

LEMMA TableExists ==
    ASSUME NEW S, IsFiniteSet(S), NEW f, \A x \in S : f[x] \in Int
    PROVE  \E h : IsTable(h, f, S)
<1> DEFINE Value(h, s) == IF s = {} THEN 0 ELSE f[Pick(s)] + h[s \ {Pick(s)}]
           N == {n \in Nat : \E h \in [SUBSET S -> Int] :
                     \A s \in SUBSET S : Cardinality(s) <= n => h[s] = Value(h, s)}
<1>1. \A s \in SUBSET S : /\ IsFiniteSet(s) /\ Cardinality(s) \in Nat
                          /\ Cardinality(s) = 0 <=> s = {}
                          /\ Cardinality(s) <= Cardinality(S)
  BY FS_Subset, FS_CardinalityType, FS_EmptySet
<1>2. \A s \in SUBSET S : s # {} =>
         /\ Pick(s) \in s /\ Pick(s) \in S
         /\ s \ {Pick(s)} \in SUBSET S
         /\ Cardinality(s \ {Pick(s)}) = Cardinality(s) - 1
  <2> TAKE s \in SUBSET S
  <2> HAVE s # {}
  <2>1. Pick(s) \in s
    BY DEF Pick
  <2> QED
    BY <1>1, <2>1, FS_RemoveElement
<1>3. 0 \in N
  <2> DEFINE h == [s \in SUBSET S |-> 0]
  <2>1. \A s \in SUBSET S : Cardinality(s) <= 0 => h[s] = Value(h, s)
    BY <1>1
  <2>2. h \in [SUBSET S -> Int]
    OBVIOUS
  <2> QED
    BY <2>1, <2>2
<1>4. ASSUME NEW n \in N PROVE n + 1 \in N
  <2>1. PICK h \in [SUBSET S -> Int] :
           \A s \in SUBSET S : Cardinality(s) <= n => h[s] = Value(h, s)
    OBVIOUS
  <2> DEFINE g == [s \in SUBSET S |-> IF Cardinality(s) <= n THEN h[s] ELSE Value(h, s)]
  <2>2. \A s \in SUBSET S : s # {} => f[Pick(s)] \in Int /\ h[s \ {Pick(s)}] \in Int
    BY <1>2
  <2>3. g \in [SUBSET S -> Int]
    <3>1. \A s \in SUBSET S : Value(h, s) \in Int /\ h[s] \in Int
      BY <2>2
    <3> HIDE DEF Value
    <3> QED
      BY <3>1
  <2>4. \A s \in SUBSET S : Cardinality(s) <= n + 1 => g[s] = Value(g, s)
    <3> TAKE s \in SUBSET S
    <3> HAVE Cardinality(s) <= n + 1
    <3>1. CASE s = {}
      BY <1>1, <2>1, <3>1
    <3>2. CASE s # {}
      <4>1. Cardinality(s \ {Pick(s)}) <= n /\ s \ {Pick(s)} \in SUBSET S
        BY <1>1, <1>2, <3>2
      <4>2. g[s \ {Pick(s)}] = h[s \ {Pick(s)}]
        BY <4>1
      <4>3. Value(g, s) = Value(h, s)
        BY <3>2, <4>2
      <4>4. g[s] = Value(h, s)
        BY <2>1
      <4> QED
        BY <4>3, <4>4
    <3> QED
      BY <3>1, <3>2
  <2>5. n + 1 \in Nat
    OBVIOUS
  <2>6. \E k \in [SUBSET S -> Int] :
           \A s \in SUBSET S : Cardinality(s) <= n + 1 => k[s] = Value(k, s)
    <3> HIDE DEF g
    <3> QED
      BY <2>3, <2>4
  <2> QED
    BY <2>5, <2>6
<1>5. N = Nat
  <2> HIDE DEF N
  <2>1. N \in SUBSET Nat
    BY DEF N
  <2> QED
    BY <1>3, <1>4, <2>1, NatSetInduction
<1>6. Cardinality(S) \in N
  BY <1>1, <1>5
<1>7. PICK h \in [SUBSET S -> Int] :
         \A s \in SUBSET S : Cardinality(s) <= Cardinality(S) => h[s] = Value(h, s)
  BY <1>6
<1>8. h = [s \in SUBSET S |-> Value(h, s)]
  BY <1>1, <1>7
<1> QED
  BY <1>8 DEF IsTable

LEMMA SumIsTable ==
    ASSUME NEW S, IsFiniteSet(S), NEW f, \A x \in S : f[x] \in Int
    PROVE  \E h : IsTable(h, f, S) /\ SumOver(f, S) = h[S]
<1> DEFINE h == CHOOSE h : IsTable(h, f, S)
<1>1. IsTable(h, f, S)
  BY TableExists
<1>2. SumOver(f, S) = h[S]
  BY DEF SumOver, MapThenSumSet, MapThenFoldSet, IsTable, Pick
<1> QED
  BY <1>1, <1>2

(* Two tables have the same sums of the subsets they share.                *)
LEMMA TablesAgree ==
    ASSUME NEW S, NEW T, IsFiniteSet(S), NEW f, NEW h, NEW k,
           IsTable(h, f, S), IsTable(k, f, T), NEW u \in SUBSET S, u \in SUBSET T
    PROVE  h[u] = k[u]
<1> DEFINE Bad == {s \in SUBSET S : s \in SUBSET T /\ h[s] # k[s]}
<1>1. SUFFICES ASSUME Bad # {} PROVE FALSE
  OBVIOUS
<1>2. PICK s \in Bad : \A t \in SUBSET s : t # s => t \notin Bad
  <2>1. Bad \in SUBSET SUBSET S
    OBVIOUS
  <2> HIDE DEF Bad
  <2> QED
    BY <1>1, <2>1, SmallestSubset
<1>3. /\ h[s] = IF s = {} THEN 0 ELSE f[Pick(s)] + h[s \ {Pick(s)}]
      /\ k[s] = IF s = {} THEN 0 ELSE f[Pick(s)] + k[s \ {Pick(s)}]
  BY DEF IsTable
<1>4. s # {}
  BY <1>3
<1>5. Pick(s) \in s
  BY <1>4 DEF Pick
<1>6. s \ {Pick(s)} \in SUBSET s /\ s \ {Pick(s)} # s
  BY <1>5
<1>7. h[s \ {Pick(s)}] = k[s \ {Pick(s)}]
  BY <1>2, <1>6
<1> QED
  BY <1>3, <1>7

LEMMA SumEmpty == \A f : SumOver(f, {}) = 0
<1> TAKE f
<1>1. \A x \in {} : f[x] \in Nat
  OBVIOUS
<1>2. IsFiniteSet({})
  BY FS_EmptySet
<1>3. PICK h : IsTable(h, f, {}) /\ SumOver(f, {}) = h[{}]
  BY <1>1, <1>2, SumIsTable
<1> QED
  BY <1>3 DEF IsTable

LEMMA SumStep ==
    ASSUME NEW S, IsFiniteSet(S), S # {}, NEW f, \A x \in S : f[x] \in Int
    PROVE  Pick(S) \in S /\ SumOver(f, S) = f[Pick(S)] + SumOver(f, S \ {Pick(S)})
<1> DEFINE R == S \ {Pick(S)}
<1>1. Pick(S) \in S
  BY DEF Pick
<1>2. IsFiniteSet(R) /\ R \in SUBSET S /\ \A x \in R : f[x] \in Int
  BY FS_Subset
<1>3. PICK h : IsTable(h, f, S) /\ SumOver(f, S) = h[S]
  BY SumIsTable
<1>4. PICK k : IsTable(k, f, R) /\ SumOver(f, R) = k[R]
  <2> HIDE DEF R
  <2> QED
    BY <1>2, SumIsTable
<1>5. h[R] = k[R]
  <2>1. R \in SUBSET R
    OBVIOUS
  <2> HIDE DEF R
  <2> QED
    BY <1>2, <1>3, <1>4, <2>1, TablesAgree
<1>6. h[S] = f[Pick(S)] + h[R]
  BY <1>3 DEF IsTable
<1> QED
  BY <1>1, <1>3, <1>4, <1>5, <1>6

(* A sum of integers is one.                                              *)
LEMMA SumIsInteger ==
    ASSUME NEW S, IsFiniteSet(S), NEW f, \A x \in S : f[x] \in Int
    PROVE  SumOver(f, S) \in Int
<1> DEFINE Bad == {s \in SUBSET S : SumOver(f, s) \notin Int}
<1>1. SUFFICES ASSUME Bad # {} PROVE FALSE
  OBVIOUS
<1>2. PICK s \in Bad : \A t \in SUBSET s : t # s => t \notin Bad
  <2>1. Bad \in SUBSET SUBSET S
    OBVIOUS
  <2> HIDE DEF Bad
  <2> QED
    BY <1>1, <2>1, SmallestSubset
<1>3. s # {}
  BY SumEmpty
<1>4. IsFiniteSet(s) /\ \A x \in s : f[x] \in Int
  BY FS_Subset
<1>5. Pick(s) \in s /\ SumOver(f, s) = f[Pick(s)] + SumOver(f, s \ {Pick(s)})
  BY <1>3, <1>4, SumStep
<1>6. s \ {Pick(s)} \in SUBSET s /\ s \ {Pick(s)} # s
  BY <1>5
<1>7. SumOver(f, s \ {Pick(s)}) \in Int
  BY <1>2, <1>6
<1> QED
  BY <1>4, <1>5, <1>7

(* A sum of natural numbers is one.                                        *)
LEMMA SumType ==
    ASSUME NEW S, IsFiniteSet(S), NEW f, \A x \in S : f[x] \in Nat
    PROVE  SumOver(f, S) \in Nat
<1> DEFINE Bad == {s \in SUBSET S : SumOver(f, s) \notin Nat}
<1>1. SUFFICES ASSUME Bad # {} PROVE FALSE
  OBVIOUS
<1>2. PICK s \in Bad : \A t \in SUBSET s : t # s => t \notin Bad
  <2>1. Bad \in SUBSET SUBSET S
    OBVIOUS
  <2> HIDE DEF Bad
  <2> QED
    BY <1>1, <2>1, SmallestSubset
<1>3. s # {}
  BY SumEmpty
<1>4. IsFiniteSet(s) /\ \A x \in s : f[x] \in Nat
  BY FS_Subset
<1>5. Pick(s) \in s /\ SumOver(f, s) = f[Pick(s)] + SumOver(f, s \ {Pick(s)})
  BY <1>3, <1>4, SumStep
<1>6. s \ {Pick(s)} \in SUBSET s /\ s \ {Pick(s)} # s
  BY <1>5
<1>7. SumOver(f, s \ {Pick(s)}) \in Nat
  BY <1>2, <1>6
<1> QED
  BY <1>4, <1>5, <1>7

(* Any element may be taken out of a sum.                                  *)
LEMMA SumRemove ==
    ASSUME NEW S, IsFiniteSet(S), NEW f, \A x \in S : f[x] \in Nat, NEW e \in S
    PROVE  SumOver(f, S) = f[e] + SumOver(f, S \ {e})
<1> DEFINE Bad == {s \in SUBSET S : \E x \in s : SumOver(f, s) # f[x] + SumOver(f, s \ {x})}
<1>1. SUFFICES ASSUME Bad # {} PROVE FALSE
  OBVIOUS
<1>2. PICK s \in Bad : \A t \in SUBSET s : t # s => t \notin Bad
  <2>1. Bad \in SUBSET SUBSET S
    OBVIOUS
  <2> HIDE DEF Bad
  <2> QED
    BY <1>1, <2>1, SmallestSubset
<1>3. PICK x \in s : SumOver(f, s) # f[x] + SumOver(f, s \ {x})
  OBVIOUS
<1>4. IsFiniteSet(s) /\ \A y \in s : f[y] \in Nat
  BY FS_Subset
<1> DEFINE p == Pick(s)
<1>5. p \in s /\ SumOver(f, s) = f[p] + SumOver(f, s \ {p})
  BY <1>3, <1>4, SumStep
<1>6. p # x
  BY <1>3, <1>5
<1> HIDE DEF p
<1>7. s \ {p} \in SUBSET S /\ s \ {p} \in SUBSET s /\ s \ {p} # s /\ x \in s \ {p}
  BY <1>5, <1>6
<1>8. s \ {x} \in SUBSET S /\ s \ {x} \in SUBSET s /\ s \ {x} # s /\ p \in s \ {x}
  BY <1>5, <1>6
<1>9. SumOver(f, s \ {p}) = f[x] + SumOver(f, (s \ {p}) \ {x})
  BY <1>2, <1>7
<1>10. SumOver(f, s \ {x}) = f[p] + SumOver(f, (s \ {x}) \ {p})
  BY <1>2, <1>8
<1>11. (s \ {p}) \ {x} = (s \ {x}) \ {p}
  OBVIOUS
<1>12. SumOver(f, (s \ {x}) \ {p}) \in Nat /\ f[p] \in Nat /\ f[x] \in Nat
  <2>1. IsFiniteSet((s \ {x}) \ {p}) /\ \A y \in (s \ {x}) \ {p} : f[y] \in Nat
    BY <1>4, FS_Subset
  <2> QED
    BY <1>4, <1>5, <2>1, SumType
<1> DEFINE w == SumOver(f, (s \ {x}) \ {p})
           a == SumOver(f, s \ {p})
           b == SumOver(f, s \ {x})
           c == SumOver(f, s)
<1>13. a = f[x] + w
  BY <1>9, <1>11
<1>14. b = f[p] + w /\ c = f[p] + a /\ c # f[x] + b /\ w \in Nat
  BY <1>3, <1>5, <1>10, <1>12
<1> HIDE DEF w, a, b, c
<1> QED
  BY <1>12, <1>13, <1>14

(* Sums of functions that agree are equal, and of one that is nowhere      *)
(* above the other not above.                                              *)
LEMMA SumMonotone ==
    ASSUME NEW S, IsFiniteSet(S), NEW f, NEW g,
           \A x \in S : f[x] \in Nat /\ g[x] \in Nat /\ f[x] <= g[x]
    PROVE  SumOver(f, S) <= SumOver(g, S)
<1> DEFINE Bad == {s \in SUBSET S : ~(SumOver(f, s) <= SumOver(g, s))}
<1>1. SUFFICES ASSUME Bad # {} PROVE FALSE
  OBVIOUS
<1>2. PICK s \in Bad : \A t \in SUBSET s : t # s => t \notin Bad
  <2>1. Bad \in SUBSET SUBSET S
    OBVIOUS
  <2> HIDE DEF Bad
  <2> QED
    BY <1>1, <2>1, SmallestSubset
<1>3. s # {}
  BY SumEmpty
<1>4. IsFiniteSet(s) /\ (\A x \in s : f[x] \in Nat) /\ (\A x \in s : g[x] \in Nat)
  BY FS_Subset
<1> DEFINE p == Pick(s)
           r == s \ {p}
<1>5. p \in s /\ SumOver(f, s) = f[p] + SumOver(f, r) /\ SumOver(g, s) = g[p] + SumOver(g, r)
  <2>1. (\A x \in s : f[x] \in Int) /\ (\A x \in s : g[x] \in Int)
    BY <1>4
  <2> QED
    BY <1>3, <1>4, <2>1, SumStep
<1>6. r \in SUBSET s /\ r # s /\ r \in SUBSET S
  BY <1>5
<1> HIDE DEF p, r
<1>7. SumOver(f, r) <= SumOver(g, r)
  BY <1>2, <1>6
<1>8. SumOver(f, r) \in Nat /\ SumOver(g, r) \in Nat
  <2>1. IsFiniteSet(r) /\ (\A x \in r : f[x] \in Nat) /\ (\A x \in r : g[x] \in Nat)
    BY <1>4, <1>6, FS_Subset
  <2> QED
    BY <2>1, SumType
<1>9. f[p] \in Nat /\ g[p] \in Nat /\ f[p] <= g[p]
  BY <1>5
<1> QED
  BY <1>5, <1>7, <1>8, <1>9

LEMMA SumEqual ==
    ASSUME NEW S, IsFiniteSet(S), NEW f, NEW g,
           \A x \in S : f[x] \in Nat /\ g[x] = f[x]
    PROVE  SumOver(g, S) = SumOver(f, S)
<1>1. SumOver(f, S) <= SumOver(g, S) /\ SumOver(g, S) <= SumOver(f, S)
  BY SumMonotone
<1>2. SumOver(f, S) \in Nat /\ SumOver(g, S) \in Nat
  BY SumType
<1> QED
  BY <1>1, <1>2

(* A change at one place changes the sum by as much.                       *)
LEMMA SumUpdate ==
    ASSUME NEW S, IsFiniteSet(S), NEW f \in [S -> Nat], NEW g \in [S -> Nat], NEW e \in S,
           \A x \in S : x # e => g[x] = f[x]
    PROVE  /\ SumOver(g, S) + f[e] = SumOver(f, S) + g[e]
           /\ SumOver(f, S) \in Nat /\ SumOver(g, S) \in Nat
<1> DEFINE R == S \ {e}
<1>1. IsFiniteSet(R) /\ \A x \in R : f[x] \in Nat /\ g[x] = f[x]
  BY FS_Subset
<1>2. SumOver(g, R) = SumOver(f, R)
  <2> HIDE DEF R
  <2> QED
    BY <1>1, SumEqual
<1>3. SumOver(f, S) = f[e] + SumOver(f, R) /\ SumOver(g, S) = g[e] + SumOver(g, R)
  BY SumRemove
<1>4. SumOver(f, R) \in Nat
  <2> HIDE DEF R
  <2> QED
    BY <1>1, SumType
<1> HIDE DEF R
<1> QED
  BY <1>2, <1>3, <1>4

(* A finite set of natural numbers has an upper bound, so it has a maximum.*)
LEMMA MaxOfFinite ==
    ASSUME NEW S \in SUBSET Nat, IsFiniteSet(S), S # {}
    PROVE  Max(S) \in S /\ \A n \in S : n <= Max(S)
<1> DEFINE Bounded(s) == \E b \in Nat : \A n \in s : n <= b
           Bad == {s \in SUBSET S : ~Bounded(s)}
<1>1. Bounded(S)
  <2> SUFFICES ASSUME ~Bounded(S) PROVE FALSE
    OBVIOUS
  <2>1. Bad # {} /\ Bad \in SUBSET SUBSET S
    OBVIOUS
  <2>2. PICK s \in Bad : \A t \in SUBSET s : t # s => t \notin Bad
    <3> HIDE DEF Bad
    <3> QED
      BY <2>1, SmallestSubset
  <2>3. PICK x \in s : TRUE
    <3>1. s = {} => Bounded(s)
      OBVIOUS
    <3> QED
      BY <3>1
  <2>4. Bounded(s \ {x})
    BY <2>2
  <2>5. PICK b \in Nat : \A n \in s \ {x} : n <= b
    BY <2>4
  <2>6. x \in Nat
    OBVIOUS
  <2>7. Bounded(s)
    <3>1. CASE x <= b
      BY <2>5, <3>1
    <3>2. CASE ~(x <= b)
      <4>1. \A n \in s : n <= x
        BY <2>5, <2>6, <3>2
      <4> QED
        BY <2>6, <4>1
    <3> QED
      BY <3>1, <3>2
  <2> QED
    BY <2>7
<1>2. PICK b \in Nat : \A n \in S : n <= b
  BY <1>1
<1> QED
  BY <1>2, MaxIsMember

(* A sum over two sets is at most the sums over both, and exactly their    *)
(* sum if they have nothing in common.                                     *)
LEMMA SumUnion ==
    ASSUME NEW S, IsFiniteSet(S), NEW T \in SUBSET S, NEW f, \A x \in S : f[x] \in Nat
    PROVE  SumOver(f, S) = SumOver(f, T) + SumOver(f, S \ T)
<1> DEFINE Bad == {s \in SUBSET S : SumOver(f, s) # SumOver(f, s \cap T) + SumOver(f, s \ T)}
<1>1. SUFFICES ASSUME Bad # {} PROVE FALSE
  <2>1. S \cap T = T
    OBVIOUS
  <2> QED
    BY <2>1
<1>2. PICK s \in Bad : \A t \in SUBSET s : t # s => t \notin Bad
  <2>1. Bad \in SUBSET SUBSET S
    OBVIOUS
  <2> HIDE DEF Bad
  <2> QED
    BY <1>1, <2>1, SmallestSubset
<1>3. s # {}
  <2>1. SUFFICES ASSUME s = {} PROVE FALSE
    OBVIOUS
  <2>2. s \cap T = {} /\ s \ T = {}
    BY <2>1
  <2>3. SumOver(f, s) = 0 /\ SumOver(f, s \cap T) = 0 /\ SumOver(f, s \ T) = 0
    BY <2>1, <2>2, SumEmpty
  <2>4. SumOver(f, s) # SumOver(f, s \cap T) + SumOver(f, s \ T)
    OBVIOUS
  <2> QED
    BY <2>3, <2>4
<1>4. PICK x \in s : TRUE
  BY <1>3
<1>5. /\ IsFiniteSet(s) /\ \A y \in s : f[y] \in Nat
      /\ IsFiniteSet(s \cap T) /\ \A y \in s \cap T : f[y] \in Nat
      /\ IsFiniteSet(s \ T) /\ \A y \in s \ T : f[y] \in Nat
  BY FS_Subset
<1> DEFINE r == s \ {x}
<1>6. r \in SUBSET s /\ r # s /\ r \in SUBSET S
  OBVIOUS
<1>7. SumOver(f, r) = SumOver(f, r \cap T) + SumOver(f, r \ T)
  BY <1>2, <1>6
<1>8. /\ IsFiniteSet(r \cap T) /\ \A y \in r \cap T : f[y] \in Nat
      /\ IsFiniteSet(r \ T) /\ \A y \in r \ T : f[y] \in Nat
  BY <1>5, FS_Subset
<1>9. SumOver(f, r \cap T) \in Nat /\ SumOver(f, r \ T) \in Nat /\ f[x] \in Nat
  <2> HIDE DEF r
  <2> QED
    BY <1>5, <1>8, SumType
<1>10. SumOver(f, s) = f[x] + SumOver(f, r)
  BY <1>5, SumRemove
<1>11. CASE x \in T
  <2>1. r \cap T = (s \cap T) \ {x} /\ r \ T = s \ T /\ x \in s \cap T
    BY <1>11
  <2>2. SumOver(f, s \cap T) = f[x] + SumOver(f, (s \cap T) \ {x})
    BY <1>5, <2>1, SumRemove
  <2> DEFINE a == SumOver(f, s \cap T)
             b == SumOver(f, s \ T)
             c == SumOver(f, r \cap T)
             d == SumOver(f, r \ T)
  <2>3. SumOver(f, s) # a + b /\ SumOver(f, s) = f[x] + (c + d)
    BY <1>7, <1>10
  <2>4. a = f[x] + c /\ b = d
    BY <2>1, <2>2
  <2>5. c \in Nat /\ d \in Nat /\ f[x] \in Nat
    BY <1>9
  <2> HIDE DEF a, b, c, d
  <2> QED
    BY <2>3, <2>4, <2>5
<1>12. CASE x \notin T
  <2>1. r \cap T = s \cap T /\ r \ T = (s \ T) \ {x} /\ x \in s \ T
    BY <1>12
  <2>2. SumOver(f, s \ T) = f[x] + SumOver(f, (s \ T) \ {x})
    BY <1>5, <2>1, SumRemove
  <2> DEFINE a == SumOver(f, s \cap T)
             b == SumOver(f, s \ T)
             c == SumOver(f, r \cap T)
             d == SumOver(f, r \ T)
  <2>3. SumOver(f, s) # a + b /\ SumOver(f, s) = f[x] + (c + d)
    BY <1>7, <1>10
  <2>4. b = f[x] + d /\ a = c
    BY <2>1, <2>2
  <2>5. c \in Nat /\ d \in Nat /\ f[x] \in Nat
    BY <1>9
  <2> HIDE DEF a, b, c, d
  <2> QED
    BY <2>3, <2>4, <2>5
<1> QED
  BY <1>11, <1>12

LEMMA SumSubset ==
    ASSUME NEW S, IsFiniteSet(S), NEW T \in SUBSET S, NEW f, \A x \in S : f[x] \in Nat
    PROVE  SumOver(f, T) <= SumOver(f, S)
<1>1. IsFiniteSet(T) /\ IsFiniteSet(S \ T)
  BY FS_Subset
<1>2. SumOver(f, T) \in Nat /\ SumOver(f, S \ T) \in Nat
  BY <1>1, SumType
<1> QED
  BY <1>2, SumUnion

LEMMA SumZero ==
    ASSUME NEW S, IsFiniteSet(S), NEW f, \A x \in S : f[x] = 0
    PROVE  SumOver(f, S) = 0
<1> DEFINE Bad == {s \in SUBSET S : SumOver(f, s) # 0}
<1>1. SUFFICES ASSUME Bad # {} PROVE FALSE
  OBVIOUS
<1>2. PICK s \in Bad : \A t \in SUBSET s : t # s => t \notin Bad
  <2>1. Bad \in SUBSET SUBSET S
    OBVIOUS
  <2> HIDE DEF Bad
  <2> QED
    BY <1>1, <2>1, SmallestSubset
<1>3. s # {}
  BY SumEmpty
<1>4. IsFiniteSet(s) /\ \A x \in s : f[x] \in Nat
  BY FS_Subset
<1>5. Pick(s) \in s /\ SumOver(f, s) = f[Pick(s)] + SumOver(f, s \ {Pick(s)})
  <2>1. \A x \in s : f[x] \in Int
    BY <1>4
  <2> QED
    BY <1>3, <1>4, <2>1, SumStep
<1>6. SumOver(f, s \ {Pick(s)}) = 0
  BY <1>2, <1>5
<1> QED
  BY <1>5, <1>6

(* The members of S in the group d of c.                                   *)
Group(c, S, d) == {x \in S : c[x] = d}

(* A sum over a finite set, group by group.                                *)
LEMMA SumPartition ==
    ASSUME NEW S, IsFiniteSet(S), NEW D, IsFiniteSet(D), NEW c, \A x \in S : c[x] \in D,
           NEW f, \A x \in S : f[x] \in Nat,
           NEW g, \A d \in D : g[d] = SumOver(f, Group(c, S, d))
    PROVE  SumOver(g, D) = SumOver(f, S)
<1> DEFINE Of(s) == {x \in S : c[x] \in s}
           One(d) == Group(c, S, d)
           Bad == {s \in SUBSET D : SumOver(g, s) # SumOver(f, Of(s))}
<1>1. SUFFICES ASSUME Bad # {} PROVE FALSE
  <2>1. Of(D) = S
    OBVIOUS
  <2> QED
    BY <2>1
<1>2. PICK s \in Bad : \A t \in SUBSET s : t # s => t \notin Bad
  <2>1. Bad \in SUBSET SUBSET D
    OBVIOUS
  <2> HIDE DEF Bad
  <2> QED
    BY <1>1, <2>1, SmallestSubset
<1>3. \A t \in SUBSET D : IsFiniteSet(Of(t)) /\ (\A x \in Of(t) : f[x] \in Nat)
                          /\ SumOver(f, Of(t)) \in Nat
  <2> TAKE t \in SUBSET D
  <2>1. IsFiniteSet(Of(t)) /\ \A x \in Of(t) : f[x] \in Nat
    BY FS_Subset
  <2> HIDE DEF Of
  <2> QED
    BY <2>1, SumType
<1>4. \A d \in D : g[d] \in Nat
  <2> TAKE d \in D
  <2>1. IsFiniteSet(One(d)) /\ \A x \in One(d) : f[x] \in Nat
    BY FS_Subset DEF Group
  <2>2. g[d] = SumOver(f, One(d))
    OBVIOUS
  <2> HIDE DEF One
  <2> QED
    BY <2>1, <2>2, SumType
<1>5. s # {}
  <2> SUFFICES ASSUME s = {} PROVE FALSE
    OBVIOUS
  <2>1. Of(s) = {} /\ SumOver(g, s) # SumOver(f, Of(s))
    OBVIOUS
  <2> HIDE DEF Of
  <2> QED
    BY <2>1, SumEmpty
<1>6. PICK d \in s : TRUE
  BY <1>5
<1> DEFINE r == s \ {d}
<1>7. r \in SUBSET s /\ r # s /\ s \in SUBSET D /\ r \in SUBSET D /\ d \in D
  OBVIOUS
<1>8. SumOver(g, r) = SumOver(f, Of(r))
  BY <1>2, <1>7
<1>9. SumOver(g, s) = g[d] + SumOver(g, r)
  <2>1. IsFiniteSet(s) /\ \A x \in s : g[x] \in Nat
    BY <1>4, <1>7, FS_Subset
  <2> QED
    BY <2>1, SumRemove
<1>10. SumOver(f, Of(s)) = SumOver(f, One(d)) + SumOver(f, Of(r))
  <2>1. One(d) \in SUBSET Of(s) /\ Of(s) \ One(d) = Of(r)
    BY DEF Group
  <2>2. IsFiniteSet(Of(s)) /\ \A x \in Of(s) : f[x] \in Nat
    BY <1>3, <1>7
  <2> HIDE DEF Of, One, r
  <2> QED
    BY <2>1, <2>2, SumUnion
<1>11. g[d] = SumOver(f, One(d))
  BY <1>7
<1>12. SumOver(g, s) # SumOver(f, Of(s))
  OBVIOUS
<1> HIDE DEF Of, One, r
<1> QED
  BY <1>8, <1>9, <1>10, <1>11, <1>12

(* A set has as many elements as a sum of ones over it.                    *)
LEMMA SumOfOnes ==
    ASSUME NEW S, IsFiniteSet(S), NEW f, \A x \in S : f[x] = 1
    PROVE  SumOver(f, S) = Cardinality(S)
<1> DEFINE Bad == {s \in SUBSET S : SumOver(f, s) # Cardinality(s)}
<1>1. SUFFICES ASSUME Bad # {} PROVE FALSE
  OBVIOUS
<1>2. PICK s \in Bad : \A t \in SUBSET s : t # s => t \notin Bad
  <2>1. Bad \in SUBSET SUBSET S
    OBVIOUS
  <2> HIDE DEF Bad
  <2> QED
    BY <1>1, <2>1, SmallestSubset
<1>3. s # {}
  BY SumEmpty, FS_EmptySet
<1>4. PICK x \in s : TRUE
  BY <1>3
<1>5. IsFiniteSet(s) /\ \A y \in s : f[y] \in Nat
  BY FS_Subset
<1>6. SumOver(f, s) = f[x] + SumOver(f, s \ {x})
  BY <1>5, SumRemove
<1>7. SumOver(f, s \ {x}) = Cardinality(s \ {x}) /\ f[x] = 1
  BY <1>2
<1>8. Cardinality(s \ {x}) = Cardinality(s) - 1 /\ Cardinality(s) \in Nat
  BY <1>5, FS_RemoveElement, FS_CardinalityType
<1> QED
  BY <1>6, <1>7, <1>8

(* A finite set has as many elements as its groups together.               *)
LEMMA SizePartition ==
    ASSUME NEW S, IsFiniteSet(S), NEW D, IsFiniteSet(D), NEW c, \A x \in S : c[x] \in D,
           NEW g, \A d \in D : g[d] = Cardinality(Group(c, S, d))
    PROVE  SumOver(g, D) = Cardinality(S)
<1> DEFINE f == [x \in S |-> 1]
<1>1. \A x \in S : f[x] = 1 /\ f[x] \in Nat
  OBVIOUS
<1>2. \A d \in D : g[d] = SumOver(f, Group(c, S, d))
  <2> TAKE d \in D
  <2> DEFINE One == Group(c, S, d)
  <2>1. IsFiniteSet(One) /\ (\A x \in One : f[x] = 1) /\ g[d] = Cardinality(One)
    BY FS_Subset DEF Group
  <2>2. SumOver(f, One) = Cardinality(One)
    <3> HIDE DEF One, f
    <3> QED
      BY <2>1, SumOfOnes
  <2> QED
    BY <2>1, <2>2
<1> HIDE DEF f
<1>3. SumOver(g, D) = SumOver(f, S)
  BY <1>1, <1>2, SumPartition
<1>4. SumOver(f, S) = Cardinality(S)
  BY <1>1, SumOfOnes
<1> QED
  BY <1>3, <1>4

(* A finite set can be put in a row by weight, the heaviest first.         *)
LEMMA RankingExists ==
    ASSUME NEW G, IsFiniteSet(G), NEW w, \A g \in G : w[g] \in Nat
    PROVE  \E q \in [1..Cardinality(G) -> G] :
               /\ \A m, n \in 1..Cardinality(G) : m # n => q[m] # q[n]
               /\ \A m, n \in 1..Cardinality(G) : m < n => w[q[m]] >= w[q[n]]
<1> DEFINE Ranks(S, q) ==
             /\ q \in [1..Cardinality(S) -> S]
             /\ \A m, n \in 1..Cardinality(S) : m # n => q[m] # q[n]
             /\ \A m, n \in 1..Cardinality(S) : m < n => w[q[m]] >= w[q[n]]
           Bad == {S \in SUBSET G : ~\E q : Ranks(S, q)}
<1>1. SUFFICES ASSUME Bad # {} PROVE FALSE
  OBVIOUS
<1>2. PICK S \in Bad : \A t \in SUBSET S : t # S => t \notin Bad
  <2>1. Bad \in SUBSET SUBSET G
    OBVIOUS
  <2> HIDE DEF Bad
  <2> QED
    BY <1>1, <2>1, SmallestSubset
<1>3. S # {}
  <2> SUFFICES ASSUME S = {} PROVE FALSE
    OBVIOUS
  <2>1. Cardinality(S) = 0
    BY FS_EmptySet
  <2>2. Ranks(S, [n \in 1..0 |-> 0])
    BY <2>1
  <2> QED
    BY <2>2
<1>4. PICK e \in S : \A g \in S : w[e] <= w[g]
  <2> DEFINE V == {w[g] : g \in S}
  <2>1. V \in SUBSET Nat /\ V # {}
    BY <1>3
  <2>2. Min(V) \in V /\ \A v \in V : Min(V) <= v
    <3> HIDE DEF V
    <3> QED
      BY <2>1, MinIsMember
  <2>3. PICK e \in S : w[e] = Min(V)
    BY <2>2
  <2>4. \A g \in S : w[g] \in V
    OBVIOUS
  <2> HIDE DEF V
  <2> QED
    BY <2>2, <2>3, <2>4
<1> DEFINE T == S \ {e}
           N == Cardinality(T)
<1>5. N \in Nat /\ Cardinality(S) = N + 1
  <2>1. IsFiniteSet(S)
    BY FS_Subset
  <2>2. Cardinality(S) \in Nat /\ Cardinality(S \ {e}) = Cardinality(S) - 1
    BY <2>1, FS_RemoveElement, FS_CardinalityType
  <2>3. Cardinality(S \ {e}) \in Nat
    BY <2>1, FS_RemoveElement, FS_CardinalityType
  <2> QED
    BY <2>2, <2>3
<1>6. PICK q : Ranks(T, q)
  <2>1. T \in SUBSET S /\ T # S /\ T \in SUBSET G
    OBVIOUS
  <2> HIDE DEF Ranks, T
  <2> QED
    BY <1>2, <2>1
<1> DEFINE p == [n \in 1..(N + 1) |-> IF n = N + 1 THEN e ELSE q[n]]
<1>7. \A n \in 1..N : q[n] \in T
  BY <1>6
<1> HIDE DEF N
<1>8. p \in [1..(N + 1) -> S]
  BY <1>5, <1>7
<1>9. \A n \in 1..(N + 1) : n = N + 1 \/ (n \in 1..N /\ p[n] = q[n])
  BY <1>5
<1>10. p[N + 1] = e
  BY <1>5
<1>11. /\ \A m, n \in 1..N : m # n => q[m] # q[n]
       /\ \A m, n \in 1..N : m < n => w[q[m]] >= w[q[n]]
  BY <1>6 DEF N
<1> HIDE DEF p
<1>12. \A m, n \in 1..(N + 1) : m # n => p[m] # p[n]
  BY <1>7, <1>9, <1>10, <1>11
<1>13. ASSUME NEW m \in 1..(N + 1), NEW n \in 1..(N + 1), m < n PROVE w[p[m]] >= w[p[n]]
  <2>1. m \in 1..N /\ p[m] = q[m] /\ q[m] \in S
    BY <1>5, <1>7, <1>9, <1>13
  <2>2. CASE n \in 1..N
    BY <1>5, <1>9, <1>10, <1>11, <1>13, <2>1, <2>2
  <2>3. CASE n = N + 1
    <3>1. w[e] <= w[q[m]] /\ w[e] \in Nat /\ w[q[m]] \in Nat
      BY <1>4, <2>1
    <3> QED
      BY <1>10, <2>1, <2>3, <3>1
  <2> QED
    BY <1>5, <1>9, <2>2, <2>3
<1>14. Ranks(S, p)
  BY <1>5, <1>8, <1>12, <1>13
<1> QED
  BY <1>14
=============================================================================
