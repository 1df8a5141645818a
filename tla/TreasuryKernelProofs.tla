------------------------ MODULE TreasuryKernelProofs ------------------------
(***************************************************************************)
(* Proofs about TreasuryKernel, for every schedule, amount and set of      *)
(* holders: what a vesting lock releases and entitles to, the UBI pool of  *)
(* an epoch, and the supply and the locked balances as sums.               *)
(***************************************************************************)
EXTENDS TreasuryKernel, FiniteSetTheorems, TLAPS

(***************************************************************************)
(* Sums over finite sets.  The community modules define a sum by a         *)
(* recursive function over the subsets of its set; that such a function    *)
(* exists is proved first.  Induction is over a set of numbers or of       *)
(* subsets, which the provers can instantiate, not over a predicate.       *)
(***************************************************************************)

\* Induction over the natural numbers.
LEMMA SetNatInduction ==
    ASSUME NEW T, 0 \in T, \A n \in Nat : n \in T => n + 1 \in T
    PROVE  \A n \in Nat : n \in T
<1> DEFINE Bad == Nat \ T
           R == OpToRel(<, Nat)
<1>1. SUFFICES ASSUME Bad # {} PROVE FALSE
  OBVIOUS
<1>2. IsWellFoundedOn(R, Nat)
  BY NatLessThanWellFounded, Zenon
<1>3. PICK n \in Bad : \A m \in Bad : ~ (<<m, n>> \in R)
  BY <1>1, <1>2, WFMin, Zenon
<1>4. n # 0 /\ n \in Nat
  OBVIOUS
<1>5. n - 1 \in Nat /\ n = (n - 1) + 1
  BY <1>4
<1>6. <<n - 1, n>> \in R
  BY <1>4, <1>5 DEF OpToRel
<1>7. n - 1 \in T
  BY <1>3, <1>5, <1>6, Zenon
<1> QED
  BY <1>5, <1>7

\* Induction over the subsets of a finite set.
LEMMA SubsetInduction ==
    ASSUME NEW S, IsFiniteSet(S), NEW Good,
           \A T \in SUBSET S : (\A x \in T : T \ {x} \in Good) => T \in Good
    PROVE  \A T \in SUBSET S : T \in Good
<1> DEFINE Ns == {n \in Nat : \A T \in SUBSET S : Cardinality(T) = n => T \in Good}
<1>1. \A T \in SUBSET S : IsFiniteSet(T) /\ Cardinality(T) \in Nat
  BY FS_Subset, FS_CardinalityType
<1>2. 0 \in Ns
  <2>1. {} \in Good
    OBVIOUS
  <2> QED
    BY <1>1, <2>1, FS_EmptySet
<1>3. ASSUME NEW n \in Nat, n \in Ns PROVE n + 1 \in Ns
  <2>1. SUFFICES ASSUME NEW T \in SUBSET S, Cardinality(T) = n + 1, NEW x \in T
                 PROVE  T \ {x} \in Good
    OBVIOUS
  <2>2. Cardinality(T \ {x}) = n
    BY <1>1, <2>1, FS_RemoveElement
  <2> QED
    BY <1>3, <2>2
<1> HIDE DEF Ns
<1>4. \A n \in Nat : n \in Ns
  BY <1>2, <1>3, SetNatInduction
<1> QED
  BY <1>1, <1>4 DEF Ns

\* The element MapThenSumSet takes out of s first.
Pick(s) == CHOOSE x \in s : TRUE

\* g tabulates the sums of f over the sets in D.
TabulatesSums(g, f, D) ==
    g = [s \in D |-> IF s = {} THEN 0 ELSE f[Pick(s)] + g[s \ {Pick(s)}]]

\* SumOver looks its value up in a table of the sums over all subsets.
LEMMA SumIsTabulated ==
    ASSUME NEW f, NEW S
    PROVE  SumOver(f, S) = (CHOOSE g : TabulatesSums(g, f, SUBSET S))[S]
BY DEF SumOver, MapThenSumSet, MapThenFoldSet, TabulatesSums, Pick

\* The entries of a tabulation.
LEMMA TabulatedSum ==
    ASSUME NEW g, NEW f, NEW D, TabulatesSums(g, f, D), NEW s \in D
    PROVE  g[s] = IF s = {} THEN 0 ELSE f[Pick(s)] + g[s \ {Pick(s)}]
BY DEF TabulatesSums

\* A tabulation exists: by induction over the size of the sets it covers.
LEMMA TabulationExists ==
    ASSUME NEW f, NEW S, IsFiniteSet(S)
    PROVE  \E g : TabulatesSums(g, f, SUBSET S)
<1> DEFINE Up(n) == {s \in SUBSET S : Cardinality(s) <= n}
           Ns == {n \in Nat : \E g : TabulatesSums(g, f, Up(n))}
<1>1. \A s \in SUBSET S : IsFiniteSet(s) /\ Cardinality(s) \in Nat /\ Cardinality(s) <= Cardinality(S)
  BY FS_Subset, FS_CardinalityType
<1>2. ASSUME NEW s \in SUBSET S, s # {}
      PROVE  /\ Pick(s) \in s /\ s \ {Pick(s)} \in SUBSET S
             /\ Cardinality(s \ {Pick(s)}) = Cardinality(s) - 1
  BY <1>1, <1>2, FS_RemoveElement, Zenon DEF Pick
<1>3. 0 \in Ns
  <2>1. Up(0) = {{}}
    BY <1>1, FS_EmptySet
  <2>2. TabulatesSums([s \in {{}} |-> 0], f, {{}})
    BY DEF TabulatesSums
  <2> QED
    BY <2>1, <2>2, Zenon
<1>4. ASSUME NEW n \in Nat, n \in Ns PROVE n + 1 \in Ns
  <2>1. PICK g : TabulatesSums(g, f, Up(n))
    BY <1>4
  <2> DEFINE h == [s \in Up(n + 1) |-> IF s \in Up(n) THEN g[s]
                                        ELSE f[Pick(s)] + g[s \ {Pick(s)}]]
  <2>2. ASSUME NEW s \in Up(n + 1), s # {} PROVE s \ {Pick(s)} \in Up(n)
    BY <1>1, <1>2, <2>2
  <2>3. {} \in Up(n)
    BY FS_EmptySet
  <2>4. Up(n) \subseteq Up(n + 1)
    BY <1>1
  <2>5. ASSUME NEW s \in Up(n + 1)
        PROVE  h[s] = IF s = {} THEN 0 ELSE f[Pick(s)] + h[s \ {Pick(s)}]
    <3>1. \A t \in Up(n) : h[t] = g[t]
      BY <2>4
    <3>2. CASE s = {}
      BY <2>1, <2>3, <3>1, <3>2, TabulatedSum, Zenon
    <3>3. CASE s # {} /\ s \in Up(n)
      <4>1. g[s] = f[Pick(s)] + g[s \ {Pick(s)}]
        BY <2>1, <3>3, TabulatedSum
      <4>2. h[s \ {Pick(s)}] = g[s \ {Pick(s)}] /\ h[s] = g[s]
        BY <2>2, <3>1, <3>3, Zenon
      <4> QED
        BY <3>3, <4>1, <4>2
    <3>4. CASE s # {} /\ s \notin Up(n)
      BY <2>2, <3>1, <3>4, Zenon
    <3> QED
      BY <3>2, <3>3, <3>4
  <2>6. TabulatesSums(h, f, Up(n + 1))
    BY <2>5, Zenon DEF TabulatesSums
  <2> HIDE DEF h
  <2>7. \E k : TabulatesSums(k, f, Up(n + 1))
    BY <2>6, Zenon
  <2>8. n + 1 \in Nat
    OBVIOUS
  <2> HIDE DEF Up
  <2> QED
    BY <2>7, <2>8, Zenon
<1> HIDE DEF Ns
<1>5. \A n \in Nat : n \in Ns
  BY <1>3, <1>4, SetNatInduction
<1>6. Cardinality(S) \in Ns
  BY <1>1, <1>5
<1>7. Up(Cardinality(S)) = SUBSET S
  BY <1>1
<1> QED
  BY <1>6, <1>7, Zenon DEF Ns

\* g and h tabulate the sums of f over the subsets of S and of a part T of S.
BothTabulate(f, S, T, g, h) ==
    /\ IsFiniteSet(S) /\ T \in SUBSET S
    /\ TabulatesSums(g, f, SUBSET S) /\ TabulatesSums(h, f, SUBSET T)

\* Two tabulations, over the subsets of S and of a part T of S, agree on T.
LEMMA TabulationsAgree ==
    ASSUME NEW f, NEW S, NEW T, NEW g, NEW h, BothTabulate(f, S, T, g, h)
    PROVE  g[T] = h[T]
<1> USE DEF BothTabulate
<1> DEFINE Good == {s \in SUBSET T : g[s] = h[s]}
<1>1. ASSUME NEW s \in SUBSET T, \A x \in s : s \ {x} \in Good
      PROVE  g[s] = h[s]
  <2>1. s \in SUBSET S /\ IsFiniteSet(T)
    BY FS_Subset
  <2>2. g[s] = IF s = {} THEN 0 ELSE f[Pick(s)] + g[s \ {Pick(s)}]
    BY <2>1, TabulatedSum
  <2>3. h[s] = IF s = {} THEN 0 ELSE f[Pick(s)] + h[s \ {Pick(s)}]
    BY TabulatedSum
  <2>4. s # {} => Pick(s) \in s
    BY DEF Pick
  <2>5. s # {} => g[s \ {Pick(s)}] = h[s \ {Pick(s)}]
    BY <1>1, <2>4
  <2> QED
    BY <2>2, <2>3, <2>5
<1>2. IsFiniteSet(T)
  BY FS_Subset
<1>3. \A s \in SUBSET T : (\A x \in s : s \ {x} \in Good) => s \in Good
  BY <1>1, Zenon
<1> HIDE DEF Good
<1>4. \A s \in SUBSET T : s \in Good
  BY <1>2, <1>3, SubsetInduction, Zenon
<1> QED
  BY <1>4 DEF Good

---------------------------------------------------------------------------
(* The facts about sums *)

\* A tabulation over all subsets gives all their sums.
LEMMA SumTabulated ==
    ASSUME NEW f, NEW S, IsFiniteSet(S)
    PROVE  \E g : /\ TabulatesSums(g, f, SUBSET S)
                  /\ \A T \in SUBSET S : SumOver(f, T) = g[T]
<1>1. PICK g : TabulatesSums(g, f, SUBSET S)
  BY TabulationExists, Zenon
<1>2. ASSUME NEW T \in SUBSET S PROVE SumOver(f, T) = g[T]
  <2>1. PICK h : h = CHOOSE k : TabulatesSums(k, f, SUBSET T)
    OBVIOUS
  <2>2. \E k : TabulatesSums(k, f, SUBSET T)
    BY FS_Subset, TabulationExists, Zenon
  <2>3. TabulatesSums(h, f, SUBSET T)
    BY <2>1, <2>2, Zenon
  <2>4. SumOver(f, T) = h[T]
    BY <2>1, SumIsTabulated, Zenon
  <2>5. g[T] = h[T]
    <3>1. BothTabulate(f, S, T, g, h)
      BY <1>1, <2>3 DEF BothTabulate
    <3> QED
      BY <3>1, TabulationsAgree
  <2> QED
    BY <2>4, <2>5
<1> QED
  BY <1>1, <1>2

\* The empty sum.
LEMMA SumEmpty == ASSUME NEW f PROVE SumOver(f, {}) = 0
<1>1. PICK g : /\ TabulatesSums(g, f, SUBSET {})
               /\ \A T \in SUBSET {} : SumOver(f, T) = g[T]
  BY SumTabulated, FS_EmptySet, Zenon
<1> QED
  BY <1>1, TabulatedSum

\* A sum with the element taken out that the fold takes out first.
LEMMA SumPick ==
    ASSUME NEW f, NEW S, IsFiniteSet(S), S # {}
    PROVE  Pick(S) \in S /\ SumOver(f, S) = f[Pick(S)] + SumOver(f, S \ {Pick(S)})
<1>1. PICK g : /\ TabulatesSums(g, f, SUBSET S)
               /\ \A T \in SUBSET S : SumOver(f, T) = g[T]
  BY SumTabulated, Zenon
<1>2. Pick(S) \in S
  BY DEF Pick
<1>3. g[S] = f[Pick(S)] + g[S \ {Pick(S)}]
  BY <1>1, TabulatedSum
<1> QED
  BY <1>1, <1>2, <1>3

\* A sum of integers is an integer.
LEMMA SumInt ==
    ASSUME NEW f, NEW S, IsFiniteSet(S), \A x \in S : f[x] \in Int
    PROVE  \A T \in SUBSET S : SumOver(f, T) \in Int
<1> DEFINE Good == {T \in SUBSET S : SumOver(f, T) \in Int}
<1>1. ASSUME NEW T \in SUBSET S, \A x \in T : T \ {x} \in Good
      PROVE  SumOver(f, T) \in Int
  <2>1. IsFiniteSet(T)
    BY FS_Subset
  <2>2. CASE T = {}
    BY <2>2, SumEmpty
  <2>3. CASE T # {}
    <3>1. Pick(T) \in T /\ SumOver(f, T) = f[Pick(T)] + SumOver(f, T \ {Pick(T)})
      BY <2>1, <2>3, SumPick
    <3>2. f[Pick(T)] \in Int /\ SumOver(f, T \ {Pick(T)}) \in Int
      BY <1>1, <3>1
    <3> QED
      BY <3>1, <3>2
  <2> QED
    BY <2>2, <2>3
<1>2. \A T \in SUBSET S : (\A x \in T : T \ {x} \in Good) => T \in Good
  BY <1>1
<1> HIDE DEF Good
<1>3. \A T \in SUBSET S : T \in Good
  BY <1>2, SubsetInduction, Zenon
<1> QED
  BY <1>3 DEF Good

\* Any element may be taken out first.
LEMMA SumRemove ==
    ASSUME NEW f, NEW S, IsFiniteSet(S), \A x \in S : f[x] \in Int
    PROVE  \A x \in S : SumOver(f, S) = f[x] + SumOver(f, S \ {x})
<1> DEFINE Good == {T \in SUBSET S :
                      \A x \in T : SumOver(f, T) = f[x] + SumOver(f, T \ {x})}
<1>1. ASSUME NEW T \in SUBSET S, \A x \in T : T \ {x} \in Good, NEW x \in T
      PROVE  SumOver(f, T) = f[x] + SumOver(f, T \ {x})
  <2>1. IsFiniteSet(T)
    BY FS_Subset
  <2>2. PICK y \in T : SumOver(f, T) = f[y] + SumOver(f, T \ {y})
    BY <2>1, SumPick, Zenon
  <2>3. CASE x = y
    BY <2>2, <2>3
  <2>4. CASE x # y
    <3> DEFINE U == T \ {x, y}
    <3>1. /\ T \ {x} \in Good /\ y \in T \ {x} /\ (T \ {x}) \ {y} = U
          /\ T \ {y} \in Good /\ x \in T \ {y} /\ (T \ {y}) \ {x} = U
      BY <1>1, <2>4
    <3>2. SumOver(f, U) \in Int /\ f[x] \in Int /\ f[y] \in Int
      BY SumInt
    <3> HIDE DEF U
    <3>3. SumOver(f, T \ {x}) = f[y] + SumOver(f, U)
      BY <3>1
    <3>4. SumOver(f, T \ {y}) = f[x] + SumOver(f, U)
      BY <3>1
    <3> QED
      BY <2>2, <3>2, <3>3, <3>4
  <2> QED
    BY <2>3, <2>4
<1>2. \A T \in SUBSET S : (\A x \in T : T \ {x} \in Good) => T \in Good
  BY <1>1
<1> HIDE DEF Good
<1>3. \A T \in SUBSET S : T \in Good
  BY <1>2, SubsetInduction, Zenon
<1> QED
  BY <1>3 DEF Good

\* An element that joins.
LEMMA SumAdd ==
    ASSUME NEW f, NEW S, IsFiniteSet(S), NEW x, x \notin S,
           \A y \in S \cup {x} : f[y] \in Int
    PROVE  SumOver(f, S \cup {x}) = f[x] + SumOver(f, S)
<1>1. IsFiniteSet(S \cup {x}) /\ (S \cup {x}) \ {x} = S
  BY FS_AddElement
<1> QED
  BY <1>1, SumRemove

\* A sum depends on the terms only.
LEMMA SumEqual ==
    ASSUME NEW f, NEW g, NEW S, IsFiniteSet(S), \A x \in S : f[x] = g[x]
    PROVE  SumOver(f, S) = SumOver(g, S)
<1> DEFINE Good == {T \in SUBSET S : SumOver(f, T) = SumOver(g, T)}
<1>1. ASSUME NEW T \in SUBSET S, \A x \in T : T \ {x} \in Good
      PROVE  SumOver(f, T) = SumOver(g, T)
  <2>1. IsFiniteSet(T)
    BY FS_Subset
  <2>2. CASE T = {}
    BY <2>2, SumEmpty
  <2>3. CASE T # {}
    <3>1. /\ Pick(T) \in T
          /\ SumOver(f, T) = f[Pick(T)] + SumOver(f, T \ {Pick(T)})
          /\ SumOver(g, T) = g[Pick(T)] + SumOver(g, T \ {Pick(T)})
      BY <2>1, <2>3, SumPick
    <3>2. SumOver(f, T \ {Pick(T)}) = SumOver(g, T \ {Pick(T)}) /\ f[Pick(T)] = g[Pick(T)]
      BY <1>1, <3>1
    <3> QED
      BY <3>1, <3>2
  <2> QED
    BY <2>2, <2>3
<1>2. \A T \in SUBSET S : (\A x \in T : T \ {x} \in Good) => T \in Good
  BY <1>1
<1> HIDE DEF Good
<1>3. \A T \in SUBSET S : T \in Good
  BY <1>2, SubsetInduction, Zenon
<1> QED
  BY <1>3 DEF Good

\* One term changes.
LEMMA SumChange ==
    ASSUME NEW f, NEW g, NEW S, IsFiniteSet(S), NEW x \in S,
           \A y \in S : f[y] \in Int /\ g[y] \in Int,
           \A y \in S \ {x} : f[y] = g[y]
    PROVE  SumOver(g, S) = SumOver(f, S) + g[x] - f[x]
<1>1. IsFiniteSet(S \ {x})
  BY FS_Subset
<1>2. SumOver(f, S \ {x}) = SumOver(g, S \ {x})
  BY <1>1, SumEqual
<1>3. SumOver(f, S) = f[x] + SumOver(f, S \ {x}) /\ SumOver(g, S) = g[x] + SumOver(g, S \ {x})
  BY SumRemove
<1>4. SumOver(f, S \ {x}) \in Int /\ f[x] \in Int /\ g[x] \in Int
  BY SumInt
<1> QED
  BY <1>2, <1>3, <1>4

\* Equal terms.
LEMMA SumConstant ==
    ASSUME NEW f, NEW S, IsFiniteSet(S), NEW c \in Int, \A x \in S : f[x] = c
    PROVE  SumOver(f, S) = c * Cardinality(S)
<1> DEFINE Good == {T \in SUBSET S : SumOver(f, T) = c * Cardinality(T)}
<1>1. ASSUME NEW T \in SUBSET S, \A x \in T : T \ {x} \in Good
      PROVE  SumOver(f, T) = c * Cardinality(T)
  <2>1. IsFiniteSet(T) /\ Cardinality(T) \in Nat
    BY FS_Subset, FS_CardinalityType
  <2>2. CASE T = {}
    BY <2>2, SumEmpty, FS_EmptySet
  <2>3. CASE T # {}
    <3>1. PICK y \in T : SumOver(f, T) = f[y] + SumOver(f, T \ {y})
      BY <2>1, <2>3, SumPick, Zenon
    <3>2. PICK n \in Nat : Cardinality(T \ {y}) = n /\ Cardinality(T) = n + 1
      <4>1. IsFiniteSet(T \ {y}) /\ Cardinality(T \ {y}) = Cardinality(T) - 1
        BY <2>1, FS_RemoveElement
      <4>2. Cardinality(T \ {y}) \in Nat
        BY <4>1, FS_CardinalityType
      <4> QED
        BY <2>1, <4>1, <4>2
    <3>3. SumOver(f, T \ {y}) = c * n /\ f[y] = c
      BY <1>1, <3>2
    <3>4. c * (n + 1) = c + c * n
      OBVIOUS
    <3> QED
      BY <3>1, <3>2, <3>3, <3>4
  <2> QED
    BY <2>2, <2>3
<1>2. \A T \in SUBSET S : (\A x \in T : T \ {x} \in Good) => T \in Good
  BY <1>1
<1> HIDE DEF Good
<1>3. \A T \in SUBSET S : T \in Good
  BY <1>2, SubsetInduction, Zenon
<1> QED
  BY <1>3 DEF Good

\* Terms that are not negative have a sum that is not, and none exceeds it.
LEMMA SumNat ==
    ASSUME NEW f, NEW S, IsFiniteSet(S), \A x \in S : f[x] \in Nat
    PROVE  /\ SumOver(f, S) \in Nat
           /\ \A x \in S : f[x] <= SumOver(f, S)
<1> DEFINE Good == {T \in SUBSET S : SumOver(f, T) \in Nat}
<1>1. ASSUME NEW T \in SUBSET S, \A x \in T : T \ {x} \in Good
      PROVE  SumOver(f, T) \in Nat
  <2>1. IsFiniteSet(T)
    BY FS_Subset
  <2>2. CASE T = {}
    BY <2>2, SumEmpty
  <2>3. CASE T # {}
    <3>1. PICK y \in T : SumOver(f, T) = f[y] + SumOver(f, T \ {y})
      BY <2>1, <2>3, SumPick, Zenon
    <3>2. f[y] \in Nat /\ SumOver(f, T \ {y}) \in Nat
      BY <1>1, <3>1
    <3> QED
      BY <3>1, <3>2
  <2> QED
    BY <2>2, <2>3
<1>2. \A T \in SUBSET S : (\A x \in T : T \ {x} \in Good) => T \in Good
  BY <1>1
<1> HIDE DEF Good
<1>3. \A T \in SUBSET S : T \in Good
  BY <1>2, SubsetInduction, Zenon
<1>4. \A T \in SUBSET S : SumOver(f, T) \in Nat
  BY <1>3 DEF Good
<1>5. ASSUME NEW x \in S PROVE f[x] <= SumOver(f, S)
  <2>1. SumOver(f, S) = f[x] + SumOver(f, S \ {x})
    BY SumRemove
  <2>2. SumOver(f, S \ {x}) \in Nat /\ f[x] \in Nat
    BY <1>4
  <2> QED
    BY <2>1, <2>2
<1> QED
  BY <1>4, <1>5

(***************************************************************************)
(* Vesting locks                                                           *)
(***************************************************************************)

Schedule == [start : Nat, cliff : Nat, end : Nat, total : Nat]

Lock == [beneficiary : Holders, schedule : Schedule, released : Nat, revocable : BOOLEAN,
         revoked : Nat \cup {None}, stranded : Nat]

(***************************************************************************)
(* Vesting arithmetic                                                      *)
(***************************************************************************)

\* What vested_amount divides out stays within the total.
LEMMA QuotientBounded ==
    ASSUME NEW t \in Nat, NEW n \in Nat, NEW d \in Nat \ {0}, n <= t * d
    PROVE  n \div d \in Nat /\ n \div d <= t
BY SMT

\* A larger elapsed time gives no smaller quotient.
LEMMA QuotientMonotone ==
    ASSUME NEW m \in Nat, NEW n \in Nat, NEW d \in Nat \ {0}, m <= n
    PROVE  m \div d <= n \div d
BY SMT

\* Multiplying by the total keeps the order of elapsed times.
LEMMA ProductMonotone ==
    ASSUME NEW t \in Nat, NEW a \in Nat, NEW b \in Nat, a <= b
    PROVE  t * a \in Nat /\ t * b \in Nat /\ t * a <= t * b
BY SMT

\* VestingSchedule::vested_amount lies between nothing and the total.
LEMMA VestedBounded ==
    ASSUME NEW s \in Schedule, NEW e \in Nat
    PROVE  vested_amount(s, e) \in Nat /\ vested_amount(s, e) <= s.total
<1>1. s.start \in Nat /\ s.end \in Nat /\ s.total \in Nat
  BY DEF Schedule
<1>2. CASE e < s.start \/ e >= s.end
  BY <1>1, <1>2 DEF vested_amount
<1>3. CASE e >= s.start /\ e < s.end
  <2> DEFINE a == e - s.start
             d == s.end - s.start
  <2>1. a \in Nat /\ d \in Nat \ {0} /\ a <= d
    BY <1>1, <1>3
  <2>2. vested_amount(s, e) = (s.total * a) \div d
    BY <1>1, <1>3 DEF vested_amount
  <2> HIDE DEF a, d
  <2>3. s.total * a \in Nat /\ s.total * a <= s.total * d
    BY <1>1, <2>1, ProductMonotone
  <2>4. QED
    BY <1>1, <2>1, <2>2, <2>3, QuotientBounded
<1>4. QED
  BY <1>1, <1>2, <1>3

\* VestingSchedule::vested_amount never falls as epochs pass.
LEMMA VestedMonotone ==
    ASSUME NEW s \in Schedule, NEW e \in Nat, NEW f \in Nat, e <= f
    PROVE  vested_amount(s, e) <= vested_amount(s, f)
<1>1. s.start \in Nat /\ s.end \in Nat /\ s.total \in Nat
  BY DEF Schedule
<1>2. CASE e < s.start
  <2>1. vested_amount(s, e) = 0
    BY <1>2 DEF vested_amount
  <2>2. QED
    BY <2>1, VestedBounded
<1>3. CASE e >= s.start /\ f >= s.end
  <2>1. vested_amount(s, f) = s.total
    BY <1>1, <1>3 DEF vested_amount
  <2>2. QED
    BY <2>1, VestedBounded
<1>4. CASE e >= s.start /\ f < s.end
  <2> DEFINE a == e - s.start
             b == f - s.start
             d == s.end - s.start
  <2>1. a \in Nat /\ b \in Nat /\ d \in Nat \ {0} /\ a <= b
    BY <1>1, <1>4
  <2>2. /\ vested_amount(s, e) = (s.total * a) \div d
        /\ vested_amount(s, f) = (s.total * b) \div d
    BY <1>1, <1>4 DEF vested_amount
  <2> HIDE DEF a, b, d
  <2>3. s.total * a \in Nat /\ s.total * b \in Nat /\ s.total * a <= s.total * b
    BY <1>1, <2>1, ProductMonotone
  <2>4. QED
    BY <2>1, <2>2, <2>3, QuotientMonotone
<1>5. QED
  BY <1>1, <1>2, <1>3, <1>4

\* VestingSchedule::releasable_amount is a natural number within the total and
\* never falls.
LEMMA ReleasableMonotone ==
    ASSUME NEW s \in Schedule, NEW e \in Nat, NEW f \in Nat, e <= f
    PROVE  /\ releasable_amount(s, e) \in Nat
           /\ releasable_amount(s, f) \in Nat
           /\ releasable_amount(s, e) <= releasable_amount(s, f)
<1>1. s.cliff \in Nat
  BY DEF Schedule
<1>2. vested_amount(s, e) \in Nat /\ vested_amount(s, f) \in Nat
  BY VestedBounded
<1>3. vested_amount(s, e) <= vested_amount(s, f)
  BY VestedMonotone
<1>4. QED
  BY <1>1, <1>2, <1>3 DEF releasable_amount

(***************************************************************************)
(* One lock                                                                *)
(***************************************************************************)

\* A well-formed lock at epoch e that released no more than it may have.
LockOK(l, e) ==
    /\ l \in Lock
    /\ l.revoked # None => l.revoked <= e
    /\ l.released <= releasable_amount(l.schedule, effective_epoch(l, e))

\* The effective epoch of a lock never moves back and is an epoch.
LEMMA EffectiveMonotone ==
    ASSUME NEW l \in Lock, NEW e \in Nat, NEW f \in Nat, e <= f,
           l.revoked # None => l.revoked <= e
    PROVE  /\ effective_epoch(l, e) \in Nat
           /\ effective_epoch(l, f) \in Nat
           /\ effective_epoch(l, e) <= effective_epoch(l, f)
           /\ l.revoked # None => effective_epoch(l, e) = effective_epoch(l, f)
<1>1. l.revoked \in Nat \/ l.revoked = None
  BY DEF Lock
<1>2. CASE l.revoked = None
  BY <1>2 DEF effective_epoch
<1>3. CASE l.revoked # None
  BY <1>1, <1>3 DEF effective_epoch
<1>4. QED
  BY <1>2, <1>3

\* A lock that released no more than it may have entitles to exactly what is
\* releasable.
LEMMA EntitledIsReleasable ==
    ASSUME NEW l, NEW e \in Nat, LockOK(l, e)
    PROVE  /\ available_to_release(l, e) \in Nat
           /\ l.released + available_to_release(l, e)
                  = releasable_amount(l.schedule, effective_epoch(l, e))
           /\ Entitled(l, e) = releasable_amount(l.schedule, effective_epoch(l, e))
<1>1. l.released \in Nat /\ l.schedule \in Schedule /\ l \in Lock
  BY DEF LockOK, Lock
<1>2. effective_epoch(l, e) \in Nat
  BY <1>1, EffectiveMonotone DEF LockOK
<1>3. releasable_amount(l.schedule, effective_epoch(l, e)) \in Nat
  BY <1>1, <1>2, ReleasableMonotone
<1>4. QED
  BY <1>1, <1>3 DEF LockOK, Entitled, available_to_release, Monus

\* The passing of time keeps a lock well-formed; its entitlement grows, and only
\* when it is not revoked.
LEMMA LockTick ==
    ASSUME NEW l, NEW e \in Nat, NEW f \in Nat, e <= f, LockOK(l, e)
    PROVE  /\ LockOK(l, f)
           /\ Entitled(l, f) \in Int /\ Entitled(l, e) \in Int
           /\ Entitled(l, f) >= Entitled(l, e)
           /\ l.revoked # None => Entitled(l, f) = Entitled(l, e)
<1>1. l.released \in Nat /\ l.schedule \in Schedule /\ l \in Lock
  BY DEF LockOK, Lock
<1>2. /\ effective_epoch(l, e) \in Nat
      /\ effective_epoch(l, f) \in Nat
      /\ effective_epoch(l, e) <= effective_epoch(l, f)
      /\ l.revoked # None => effective_epoch(l, e) = effective_epoch(l, f)
  BY <1>1, EffectiveMonotone DEF LockOK
<1>3. /\ releasable_amount(l.schedule, effective_epoch(l, e)) \in Nat
      /\ releasable_amount(l.schedule, effective_epoch(l, f)) \in Nat
      /\ releasable_amount(l.schedule, effective_epoch(l, e))
            <= releasable_amount(l.schedule, effective_epoch(l, f))
  BY <1>1, <1>2, ReleasableMonotone
<1>4. l.revoked # None => l.revoked <= f
  BY <1>1 DEF LockOK, Lock
<1>5. LockOK(l, f)
  BY <1>1, <1>3, <1>4 DEF LockOK
<1>6. QED
  BY <1>2, <1>3, <1>5, EntitledIsReleasable

\* Releasing what is available keeps a lock well-formed and its entitlement as it
\* was.
LEMMA LockRelease ==
    ASSUME NEW l, NEW e \in Nat, LockOK(l, e)
    PROVE  LET m == record_release(l, available_to_release(l, e))
           IN  LockOK(m, e) /\ Entitled(m, e) = Entitled(l, e)
<1> DEFINE x == available_to_release(l, e)
           m == record_release(l, x)
<1>1. l.released \in Nat /\ l.schedule \in Schedule /\ l \in Lock
  BY DEF LockOK, Lock
<1>2. x \in Nat /\ l.released + x = releasable_amount(l.schedule, effective_epoch(l, e))
  BY EntitledIsReleasable
<1> HIDE DEF x
<1>3. /\ m \in Lock /\ m.schedule = l.schedule /\ m.revoked = l.revoked
      /\ m.released = l.released + x
  BY <1>1, <1>2 DEF record_release, Lock
<1> HIDE DEF m
<1>4. effective_epoch(m, e) = effective_epoch(l, e)
  BY <1>3 DEF effective_epoch
<1>5. releasable_amount(l.schedule, effective_epoch(l, e)) \in Nat
  BY <1>1, <1>2
<1>6. LockOK(m, e)
  BY <1>2, <1>3, <1>4, <1>5 DEF LockOK
<1>7. Entitled(m, e) = Entitled(l, e)
  BY <1>3, <1>4, <1>6, EntitledIsReleasable
<1>8. QED
  BY <1>6, <1>7 DEF m, x

\* Revoking a lock at the current epoch keeps it well-formed and its entitlement
\* as it was.
LEMMA LockRevoke ==
    ASSUME NEW l, NEW e \in Nat, NEW y \in Nat, LockOK(l, e), l.revoked = None
    PROVE  LockOK(Revoked(l, e, y), e) /\ Entitled(Revoked(l, e, y), e) = Entitled(l, e)
<1> DEFINE m == Revoked(l, e, y)
<1>1. l.released \in Nat /\ l.schedule \in Schedule /\ l \in Lock
  BY DEF LockOK, Lock
<1>2. /\ m \in Lock /\ m.schedule = l.schedule /\ m.revoked = e
      /\ m.released = l.released
  BY <1>1, Zenon DEF Revoked, Lock
<1> HIDE DEF m
<1>3. effective_epoch(m, e) = e /\ effective_epoch(l, e) = e
  BY <1>2 DEF effective_epoch
<1>4. LockOK(m, e)
  BY <1>2, <1>3 DEF LockOK
<1>5. Entitled(m, e) = Entitled(l, e)
  BY <1>2, <1>3, <1>4, EntitledIsReleasable
<1>6. QED
  BY <1>4, <1>5 DEF m

(***************************************************************************)
(* All locks                                                               *)
(***************************************************************************)

\* Every lock is well-formed at the current epoch.
VestInv ==
    /\ epoch \in Nat
    /\ locks \in Seq(Lock)
    /\ \A i \in DOMAIN locks : LockOK(locks[i], epoch)

\* What a step keeps of the entitlement of every lock.
Kept ==
    \A i \in DOMAIN locks :
        /\ Entitled(locks'[i], epoch') >= Entitled(locks[i], epoch)
        /\ locks[i].revoked # None => Entitled(locks'[i], epoch') = Entitled(locks[i], epoch)

\* A step that leaves the epoch and the locks alone.
LEMMA StepElsewhere ==
    ASSUME VestInv, UNCHANGED <<epoch, locks>>
    PROVE  VestInv' /\ Kept
<1>1. VestInv'
  BY DEF VestInv
<1>2. \A i \in DOMAIN locks : Entitled(locks[i], epoch) \in Int
  BY LockTick DEF VestInv
<1>3. \A i \in DOMAIN locks : Entitled(locks'[i], epoch') = Entitled(locks[i], epoch)
  OBVIOUS
<1>4. QED
  BY <1>1, <1>2, <1>3 DEF Kept

\* A new epoch.
LEMMA StepTick ==
    ASSUME VestInv, Tick
    PROVE  VestInv' /\ Kept
<1>1. epoch \in Nat /\ epoch' \in Nat /\ epoch <= epoch' /\ locks' = locks
  BY DEF VestInv, Tick
<1>2. ASSUME NEW i \in DOMAIN locks
      PROVE  /\ LockOK(locks[i], epoch')
             /\ Entitled(locks[i], epoch') >= Entitled(locks[i], epoch)
             /\ locks[i].revoked # None
                   => Entitled(locks[i], epoch') = Entitled(locks[i], epoch)
  BY <1>1, <1>2, LockTick DEF VestInv
<1>3. VestInv'
  BY <1>1, <1>2 DEF VestInv
<1>4. Kept
  BY <1>1, <1>2 DEF Kept
<1>5. QED
  BY <1>3, <1>4

\* A new lock has released nothing.
LEMMA StepCreate ==
    ASSUME VestInv, NEW k \in Keys, NEW s \in Schedules, NEW r \in BOOLEAN,
           CreateVesting(k, s, r)
    PROVE  VestInv' /\ Kept
<1> DEFINE n == [beneficiary |-> k[1], schedule |-> s, released |-> 0, revocable |-> r,
                 revoked |-> None, stranded |-> 0]
<1>1. k[1] \in Holders /\ s \in Schedule
  BY InputsAssumption DEF Schedule
<1>2. /\ n \in Lock /\ n.schedule = s /\ n.released = 0 /\ n.revoked = None
  BY <1>1 DEF Lock
<1>3. locks' = Append(locks, n) /\ epoch' = epoch /\ epoch \in Nat /\ locks \in Seq(Lock)
  BY DEF CreateVesting, VestInv
<1> HIDE DEF n
<1>4. LockOK(n, epoch)
  <2>1. effective_epoch(n, epoch) \in Nat
    BY <1>2, <1>3 DEF effective_epoch
  <2>2. releasable_amount(s, effective_epoch(n, epoch)) \in Nat
    BY <1>1, <2>1, ReleasableMonotone
  <2>3. QED
    BY <1>2, <2>2 DEF LockOK
<1>5. /\ locks' \in Seq(Lock)
      /\ DOMAIN locks \subseteq DOMAIN locks'
      /\ \A i \in DOMAIN locks' : (i \in DOMAIN locks /\ locks'[i] = locks[i]) \/ locks'[i] = n
      /\ \A i \in DOMAIN locks : locks'[i] = locks[i]
  BY <1>2, <1>3
<1>6. VestInv'
  BY <1>3, <1>4, <1>5 DEF VestInv
<1>7. \A i \in DOMAIN locks : Entitled(locks[i], epoch) \in Int
  BY LockTick DEF VestInv
<1>8. \A i \in DOMAIN locks : Entitled(locks'[i], epoch') = Entitled(locks[i], epoch)
  BY <1>3, <1>5
<1>9. QED
  BY <1>6, <1>7, <1>8 DEF Kept

\* Replacing one lock by a well-formed one with the same entitlement.
LEMMA StepReplace ==
    ASSUME VestInv, NEW i \in DOMAIN locks, NEW m, epoch' = epoch,
           locks' = [locks EXCEPT ![i] = m],
           LockOK(m, epoch), Entitled(m, epoch) = Entitled(locks[i], epoch)
    PROVE  VestInv' /\ Kept
<1>1. m \in Lock /\ epoch \in Nat /\ locks \in Seq(Lock)
  BY DEF LockOK, VestInv
<1>2. /\ locks' \in Seq(Lock)
      /\ DOMAIN locks' = DOMAIN locks
      /\ \A j \in DOMAIN locks : locks'[j] = IF j = i THEN m ELSE locks[j]
  BY <1>1
<1>3. VestInv'
  BY <1>1, <1>2 DEF VestInv
<1>4. \A j \in DOMAIN locks : Entitled(locks[j], epoch) \in Int
  BY LockTick DEF VestInv
<1>5. \A j \in DOMAIN locks : Entitled(locks'[j], epoch') = Entitled(locks[j], epoch)
  BY <1>2
<1>6. QED
  BY <1>3, <1>4, <1>5 DEF Kept

\* release_vested releases what is available of one lock.
LEMMA StepRelease ==
    ASSUME VestInv, NEW i \in DOMAIN locks, ReleaseVested(i)
    PROVE  VestInv' /\ Kept
<1> DEFINE m == record_release(locks[i], available_to_release(locks[i], epoch))
<1>1. LockOK(locks[i], epoch) /\ epoch \in Nat
  BY DEF VestInv
<1>2. LockOK(m, epoch) /\ Entitled(m, epoch) = Entitled(locks[i], epoch)
  BY <1>1, LockRelease
<1>3. locks' = [locks EXCEPT ![i] = m] /\ epoch' = epoch
  BY DEF ReleaseVested
<1> HIDE DEF m
<1>4. QED
  BY <1>2, <1>3, StepReplace, Zenon

\* revoke_vesting revokes one lock, whatever the token operations after it do.
LEMMA StepRevoke ==
    ASSUME VestInv, NEW i \in DOMAIN locks, NEW to \in Keys, RevokeVesting(i, to)
    PROVE  VestInv' /\ Kept
<1>1. LockOK(locks[i], epoch) /\ epoch \in Nat
  BY DEF VestInv
<1>2. PICK y : /\ y \in {0, Returnable(locks[i], epoch)}
               /\ locks' = [locks EXCEPT ![i] = Revoked(locks[i], epoch, y)]
  BY Zenon DEF RevokeVesting
<1>3. locks[i].revoked = None /\ epoch' = epoch
  BY DEF RevokeVesting
<1>4. y \in Nat
  <2>1. /\ locks[i].schedule.total \in Nat /\ locks[i].released \in Nat
        /\ locks[i].schedule \in Schedule
    BY <1>1 DEF LockOK, Lock, Schedule
  <2>2. vested_amount(locks[i].schedule, epoch) \in Nat
    BY <1>1, <2>1, VestedBounded
  <2>3. Returnable(locks[i], epoch) \in Nat
    BY <2>1, <2>2 DEF Returnable, Monus
  <2>4. QED
    BY <1>2, <2>3
<1>5. /\ LockOK(Revoked(locks[i], epoch, y), epoch)
      /\ Entitled(Revoked(locks[i], epoch, y), epoch) = Entitled(locks[i], epoch)
  BY <1>1, <1>3, <1>4, LockRevoke
<1>6. QED
  BY <1>2, <1>3, <1>5, StepReplace, Zenon

\* Every step keeps every lock well-formed and its entitlement.
LEMMA StepVestInv ==
    ASSUME VestInv, [Next]_vars
    PROVE  VestInv' /\ Kept
<1>1. CASE Tick
  BY <1>1, StepTick
<1>2. ASSUME NEW b \in BOOLEAN, SetPaused(b)
      PROVE  VestInv' /\ Kept
  BY <1>2, StepElsewhere DEF SetPaused
<1>3. ASSUME NEW k \in Keys, NEW x \in Amounts, Mint(k, x) \/ Burn(k, x)
      PROVE  VestInv' /\ Kept
  BY <1>3, StepElsewhere DEF Mint, Burn
<1>4. ASSUME NEW from \in Keys, NEW to \in Keys, NEW x \in Amounts,
             Transfer(from, to, x) \/ UserTransfer(from, to, x)
      PROVE  VestInv' /\ Kept
  BY <1>4, StepElsewhere DEF Transfer, UserTransfer
<1>5. ASSUME NEW k \in Keys, NEW s \in Schedules, NEW r \in BOOLEAN, CreateVesting(k, s, r)
      PROVE  VestInv' /\ Kept
  BY <1>5, StepCreate
<1>6. ASSUME NEW i \in DOMAIN locks, ReleaseVested(i)
      PROVE  VestInv' /\ Kept
  BY <1>6, StepRelease
<1>7. ASSUME NEW i \in DOMAIN locks, NEW to \in Keys, RevokeVesting(i, to)
      PROVE  VestInv' /\ Kept
  BY <1>7, StepRevoke
<1>8. ASSUME NEW kind \in Kinds, NEW p \in Proposals, NEW h \in Holders, NEW x \in Amounts,
             NEW after \in Epochs, NEW at \in 0..epoch, Register(kind, p, h, x, at, after)
      PROVE  VestInv' /\ Kept
  BY <1>8, StepElsewhere DEF Register
<1>9. ASSUME NEW kind \in Kinds, NEW p \in Proposals, ExecuteAuthorized(kind, p)
      PROVE  VestInv' /\ Kept
  BY <1>9, StepElsewhere DEF ExecuteAuthorized
<1>10. ASSUME NEW c \in Citizens, NEW x \in Amounts, ClaimUbi(c, x) \/ TrackUbi(c, x)
       PROVE  VestInv' /\ Kept
  BY <1>10, StepElsewhere DEF ClaimUbi, TrackUbi
<1>11. CASE UNCHANGED vars
  BY <1>11, StepElsewhere DEF vars
<1>12. QED
  BY <1>1, <1>2, <1>3, <1>4, <1>5, <1>6, <1>7, <1>8, <1>9, <1>10, <1>11 DEF Next

\* There are no locks at the start.
LEMMA InitVestInv == Init => VestInv
BY DEF Init, VestInv

\* No vesting lock releases more than its schedule makes releasable by now, or by
\* its revocation, for every schedule and every order of releases, revocations,
\* burns and pauses.
THEOREM VestingRespected == Spec => []ReleasedWithinVested
<1>1. VestInv => ReleasedWithinVested
  BY DEF VestInv, LockOK, ReleasedWithinVested
<1>2. VestInv /\ [Next]_vars => VestInv'
  BY StepVestInv
<1>3. QED
  BY <1>1, <1>2, InitVestInv, PTL DEF Spec

\* No step takes from a beneficiary what it has received or may receive, and a
\* revoked lock accrues nothing more.
THEOREM EntitlementRespected == Spec => EntitlementKept
<1>1. VestInv /\ [Next]_vars => VestInv' /\ Kept
  BY StepVestInv
<1>2. QED
  BY <1>1, InitVestInv, PTL DEF Spec, EntitlementKept, Kept

(***************************************************************************)
(* The UBI pool                                                            *)
(***************************************************************************)

Claimants(e) == {c \in Citizens : <<c, e>> \in claimed}

\* The pool holds, with what its sums need: typed amounts and finitely many
\* claimants.
UbiInv ==
    /\ epoch \in Epochs
    /\ distributed \in [Epochs -> Nat]
    /\ \A e \in Epochs :
           /\ IsFiniteSet(Claimants(e))
           /\ distributed[e] <= PoolCap
           /\ distributed[e] <= MaxAmount * Cardinality(Claimants(e))

\* A claim adds its citizen to the claimants of the current epoch, and at most one
\* amount to what the epoch distributed.
LEMMA StepClaim ==
    ASSUME UbiInv, NEW c \in Citizens, NEW x \in Amounts, ClaimUbi(c, x) \/ TrackUbi(c, x)
    PROVE  UbiInv'
<1>1. /\ epoch \in Epochs /\ epoch' = epoch
      /\ distributed \in [Epochs -> Nat]
      /\ MaxAmount \in Nat /\ PoolCap \in Nat /\ x \in Nat /\ x <= MaxAmount
  BY InputsAssumption DEF UbiInv, ClaimUbi, TrackUbi
<1>0. PICK E \in Epochs : E = epoch
  BY <1>1
<1>2. /\ Claimants(E)' = Claimants(E) \cup {c}
      /\ c \notin Claimants(E)
      /\ \A e \in Epochs : e # E => Claimants(e)' = Claimants(e)
  <2>1. claimed' = claimed \cup {<<c, E>>} /\ <<c, E>> \notin claimed
    BY <1>0 DEF ClaimUbi, TrackUbi, validate_claim
  <2>2. \A d \in Citizens, e \in Epochs :
            <<d, e>> \in claimed' <=> <<d, e>> \in claimed \/ (d = c /\ e = E)
    BY <2>1
  <2>3. \A e \in Epochs : Claimants(e)' = {d \in Citizens : <<d, e>> \in claimed'}
    BY DEF Claimants
  <2>4. Claimants(E)' = {d \in Citizens : <<d, E>> \in claimed'}
    BY <1>1 DEF Claimants
  <2>5. Claimants(E)' = Claimants(E) \cup {c}
    BY <1>1, <2>2, <2>4 DEF Claimants
  <2>6. \A e \in Epochs : e # E => Claimants(e)' = Claimants(e)
    BY <2>2, <2>3 DEF Claimants
  <2>7. QED
    BY <2>1, <2>5, <2>6 DEF Claimants
<1>3. /\ IsFiniteSet(Claimants(E)')
      /\ Cardinality(Claimants(E)') = Cardinality(Claimants(E)) + 1
      /\ Cardinality(Claimants(E)) \in Nat
  BY <1>2, FS_AddElement, FS_CardinalityType DEF UbiInv
<1>4. \/ distributed' = distributed
      \/ distributed' = [distributed EXCEPT ![E] = @ + x]
  BY <1>0 DEF ClaimUbi, TrackUbi
<1>5. distributed' \in [Epochs -> Nat]
  BY <1>1, <1>4
<1>6. distributed[E] + x <= PoolCap
  BY <1>0 DEF ClaimUbi, TrackUbi, validate_claim, check_pool_capacity
<1>7. /\ distributed'[E] <= PoolCap
      /\ distributed'[E] <= distributed[E] + x
  BY <1>1, <1>4, <1>6
<1>8. distributed'[E] <= MaxAmount * Cardinality(Claimants(E)')
  <2>1. distributed[E] <= MaxAmount * Cardinality(Claimants(E))
    BY <1>1 DEF UbiInv
  <2>2. ASSUME NEW a \in Nat, NEW n \in Nat
        PROVE  a * (n + 1) = a * n + a /\ a * n \in Nat
    BY SMT
  <2>3. /\ MaxAmount * Cardinality(Claimants(E)')
              = MaxAmount * Cardinality(Claimants(E)) + MaxAmount
        /\ MaxAmount * Cardinality(Claimants(E)) \in Nat
    BY <1>1, <1>3, <2>2
  <2>4. distributed[E] \in Nat /\ distributed'[E] \in Nat
    BY <1>1, <1>5
  <2>5. QED
    BY <1>1, <1>7, <2>1, <2>3, <2>4
<1>9. ASSUME NEW e \in Epochs, e # E
      PROVE  /\ IsFiniteSet(Claimants(e)')
             /\ distributed'[e] <= PoolCap
             /\ distributed'[e] <= MaxAmount * Cardinality(Claimants(e)')
  <2>1. distributed'[e] = distributed[e]
    BY <1>1, <1>4, <1>9
  <2>2. QED
    BY <1>2, <1>9, <2>1 DEF UbiInv
<1>10. ASSUME NEW e \in Epochs
       PROVE  /\ IsFiniteSet(Claimants(e)')
              /\ distributed'[e] <= PoolCap
              /\ distributed'[e] <= MaxAmount * Cardinality(Claimants(e)')
  BY <1>3, <1>7, <1>8, <1>9
<1>11. QED
  BY <1>1, <1>5, <1>10 DEF UbiInv

\* Every other step leaves claims and distributed amounts alone.
LEMMA StepUbiInv ==
    ASSUME UbiInv, [Next]_vars
    PROVE  UbiInv'
<1>1. ASSUME UNCHANGED <<claimed, distributed>>, epoch' \in Epochs
      PROVE  UbiInv'
  <2>1. \A e \in Epochs : Claimants(e)' = Claimants(e)
    BY <1>1 DEF Claimants
  <2>2. QED
    BY <1>1, <2>1 DEF UbiInv
<1>2. epoch \in Epochs /\ MaxEpoch \in Nat
  BY InputsAssumption DEF UbiInv
<1>3. CASE Tick
  <2>1. epoch' \in Epochs
    BY <1>2, <1>3 DEF Tick, Epochs
  <2>2. QED
    BY <1>1, <1>3, <2>1 DEF Tick
<1>4. ASSUME NEW b \in BOOLEAN, SetPaused(b)
      PROVE  UbiInv'
  BY <1>1, <1>2, <1>4 DEF SetPaused
<1>5. ASSUME NEW k \in Keys, NEW x \in Amounts, Mint(k, x) \/ Burn(k, x)
      PROVE  UbiInv'
  BY <1>1, <1>2, <1>5 DEF Mint, Burn
<1>6. ASSUME NEW from \in Keys, NEW to \in Keys, NEW x \in Amounts,
             Transfer(from, to, x) \/ UserTransfer(from, to, x)
      PROVE  UbiInv'
  BY <1>1, <1>2, <1>6 DEF Transfer, UserTransfer
<1>7. ASSUME NEW k \in Keys, NEW s \in Schedules, NEW r \in BOOLEAN, CreateVesting(k, s, r)
      PROVE  UbiInv'
  BY <1>1, <1>2, <1>7 DEF CreateVesting
<1>8. ASSUME NEW i \in DOMAIN locks, ReleaseVested(i)
      PROVE  UbiInv'
  BY <1>1, <1>2, <1>8 DEF ReleaseVested
<1>9. ASSUME NEW i \in DOMAIN locks, NEW to \in Keys, RevokeVesting(i, to)
      PROVE  UbiInv'
  BY <1>1, <1>2, <1>9 DEF RevokeVesting
<1>10. ASSUME NEW kind \in Kinds, NEW p \in Proposals, NEW h \in Holders, NEW x \in Amounts,
              NEW after \in Epochs, NEW at \in 0..epoch, Register(kind, p, h, x, at, after)
       PROVE  UbiInv'
  BY <1>1, <1>2, <1>10 DEF Register
<1>11. ASSUME NEW kind \in Kinds, NEW p \in Proposals, ExecuteAuthorized(kind, p)
       PROVE  UbiInv'
  BY <1>1, <1>2, <1>11 DEF ExecuteAuthorized
<1>12. ASSUME NEW c \in Citizens, NEW x \in Amounts, ClaimUbi(c, x) \/ TrackUbi(c, x)
       PROVE  UbiInv'
  BY <1>12, StepClaim
<1>13. CASE UNCHANGED vars
  BY <1>1, <1>2, <1>13 DEF vars
<1>14. QED
  BY <1>3, <1>4, <1>5, <1>6, <1>7, <1>8, <1>9, <1>10, <1>11, <1>12, <1>13 DEF Next

\* Nothing is claimed or distributed at the start.
LEMMA InitUbiInv == Init => UbiInv
<1> SUFFICES ASSUME Init PROVE UbiInv
  OBVIOUS
<1>1. /\ epoch = 0 /\ claimed = {} /\ distributed = [e \in Epochs |-> 0]
      /\ MaxEpoch \in Nat /\ PoolCap \in Nat /\ MaxAmount \in Nat
  BY InputsAssumption DEF Init
<1>2. epoch \in Epochs
  BY <1>1 DEF Epochs
<1>3. \A e \in Epochs : Claimants(e) = {}
  BY <1>1 DEF Claimants
<1>4. IsFiniteSet({}) /\ Cardinality({}) = 0
  BY FS_EmptySet
<1>5. QED
  BY <1>1, <1>2, <1>3, <1>4 DEF UbiInv

\* No epoch distributes more UBI than its pool, nor more than one claim for each
\* citizen that claimed in it, for every registry and every order of claims and
\* failed mints.
THEOREM UbiPoolRespected == Spec => []UbiWithinPool
<1>1. UbiInv => UbiWithinPool
  BY DEF UbiInv, UbiWithinPool, Claimants
<1>2. UbiInv /\ [Next]_vars => UbiInv'
  BY StepUbiInv
<1>3. QED
  BY <1>1, <1>2, InitUbiInv, PTL DEF Spec

(***************************************************************************)
(* Balances and the supply                                                 *)
(***************************************************************************)

\* A finite map from keys to amounts.
IsBalances(b) ==
    /\ IsFiniteSet(DOMAIN b) /\ DOMAIN b \subseteq Keys
    /\ b \in [DOMAIN b -> Nat]

Total(b) == SumOver(b, DOMAIN b)

Entry(b, k) == IF k \in DOMAIN b THEN b[k] ELSE 0

\* Writing one balance changes the total by the difference.
LEMMA InsertTotal ==
    ASSUME NEW b, IsBalances(b), NEW k \in Keys, NEW x \in Nat
    PROVE  /\ IsBalances(Insert(b, k, x))
           /\ Total(Insert(b, k, x)) = Total(b) + x - Entry(b, k)
           /\ \A j \in Keys : Entry(Insert(b, k, x), j) = IF j = k THEN x ELSE Entry(b, j)
           /\ Total(b) \in Nat /\ Entry(b, k) \in Nat /\ Entry(b, k) <= Total(b)
<1> DEFINE c == Insert(b, k, x)
           D == DOMAIN b
<1>1. /\ IsFiniteSet(D) /\ D \subseteq Keys /\ \A j \in D : b[j] \in Nat
  BY DEF IsBalances
<1>2. /\ DOMAIN c = D \cup {k}
      /\ c = [j \in D \cup {k} |-> c[j]]
      /\ c[k] = x /\ \A j \in D : j # k => c[j] = b[j]
  BY DEF Insert
<1> HIDE DEF c
<1>3. IsFiniteSet(D \cup {k})
  BY <1>1, FS_AddElement
<1>4. \A j \in D \cup {k} : c[j] \in Nat
  BY <1>1, <1>2
<1>5. IsBalances(c)
  BY <1>1, <1>2, <1>3, <1>4 DEF IsBalances
<1>6. Total(b) \in Nat /\ \A j \in D : b[j] <= Total(b)
  BY <1>1, SumNat DEF Total
<1>7. CASE k \in D
  <2>1. D \cup {k} = D
    BY <1>7
  <2>2. SumOver(c, D) = SumOver(b, D) + c[k] - b[k]
    BY <1>1, <1>2, <1>4, <1>7, SumChange
  <2> QED
    BY <1>1, <1>2, <1>5, <1>6, <1>7, <2>1, <2>2 DEF c, Total, Entry
<1>8. CASE k \notin D
  <2>1. SumOver(c, D \cup {k}) = c[k] + SumOver(c, D)
    BY <1>1, <1>4, <1>8, SumAdd
  <2>2. SumOver(c, D) = SumOver(b, D)
    BY <1>1, <1>2, <1>8, SumEqual
  <2> QED
    BY <1>1, <1>2, <1>5, <1>6, <1>8, <2>1, <2>2 DEF c, Total, Entry
<1> QED
  BY <1>7, <1>8

\* credit and debit.
LEMMA CreditDebit ==
    ASSUME IsBalances(balance), NEW k \in Keys, NEW x \in Nat
    PROVE  /\ Total(balance) \in Nat /\ balance_of(k) \in Nat
           /\ balance_of(k) <= Total(balance)
           /\ IsBalances(Credited(k, x)) /\ Total(Credited(k, x)) = Total(balance) + x
           /\ balance_of(k) >= x =>
                 IsBalances(Debited(k, x)) /\ Total(Debited(k, x)) = Total(balance) - x
<1>1. /\ Total(balance) \in Nat /\ Entry(balance, k) \in Nat
      /\ Entry(balance, k) <= Total(balance)
  BY InsertTotal
<1>2. balance_of(k) = Entry(balance, k)
  BY DEF balance_of, Entry
<1>3. PICK n \in Nat : n = balance_of(k)
  BY <1>1, <1>2
<1>4. /\ IsBalances(Insert(balance, k, n + x))
      /\ Total(Insert(balance, k, n + x)) = Total(balance) + (n + x) - n
  BY <1>2, <1>3, InsertTotal
<1>5. n >= x => /\ IsBalances(Insert(balance, k, n - x))
                /\ Total(Insert(balance, k, n - x)) = Total(balance) + (n - x) - n
  <2>1. n >= x => n - x \in Nat
    OBVIOUS
  <2> QED
    BY <1>2, <1>3, <2>1, InsertTotal
<1> QED
  BY <1>1, <1>2, <1>3, <1>4, <1>5 DEF Credited, Debited

\* A transfer leaves the total as it was.
LEMMA MoveTotal ==
    ASSUME IsBalances(balance), NEW from \in Keys, NEW to \in Keys, NEW x \in Nat,
           balance_of(from) >= x
    PROVE  /\ IsBalances(Moved(from, to, x))
           /\ Total(Moved(from, to, x)) = Total(balance)
<1>1. PICK n \in Nat, m \in Nat : n = balance_of(from) /\ m = balance_of(to)
  BY CreditDebit
<1>2. n = Entry(balance, from) /\ m = Entry(balance, to) /\ Total(balance) \in Nat
  BY <1>1, CreditDebit DEF balance_of, Entry
<1>3. CASE from = to
  <2>1. Moved(from, to, x) = Insert(balance, from, n)
    BY <1>1, <1>3 DEF Moved
  <2>2. /\ IsBalances(Insert(balance, from, n))
        /\ Total(Insert(balance, from, n)) = Total(balance) + n - n
    BY <1>2, InsertTotal
  <2> QED
    BY <1>2, <2>1, <2>2
<1>4. CASE from # to
  <2> DEFINE d == Debited(from, x)
  <2>1. /\ IsBalances(d) /\ Total(d) = Total(balance) - x
    BY CreditDebit
  <2>2. Entry(d, to) = m
    <3>1. n - x \in Nat
      BY <1>1
    <3> QED
      BY <1>1, <1>2, <1>4, <3>1, InsertTotal DEF Debited
  <2> HIDE DEF d
  <2>3. /\ IsBalances(Insert(d, to, m + x))
        /\ Total(Insert(d, to, m + x)) = Total(d) + (m + x) - m
    <3>1. m + x \in Nat
      OBVIOUS
    <3> QED
      BY <2>1, <2>2, <3>1, InsertTotal, Zenon
  <2>4. Moved(from, to, x) = Insert(d, to, m + x)
    BY <1>1, <1>4 DEF Moved, d
  <2> QED
    BY <1>2, <2>1, <2>3, <2>4
<1> QED
  BY <1>3, <1>4

\* The supply counter is the total of the balances, with the types it needs.
SupplyInv ==
    /\ IsBalances(balance)
    /\ supply = Total(balance)
    /\ auth \in [Kinds -> [Proposals -> Authorization \cup {None}]]

\* A step that changes neither balances nor supply.
LEMMA SupplyElsewhere ==
    ASSUME SupplyInv, UNCHANGED <<balance, supply, auth>>
    PROVE  SupplyInv'
BY DEF SupplyInv, IsBalances, Total

\* Every amount is a positive number, and a holder's id key is a key.
LEMMA AmountsArePositive ==
    /\ \A x \in Amounts : x \in Nat /\ x > 0
    /\ \A h \in Holders : IdKey(h) \in Keys
BY InputsAssumption DEF IdKey

\* A mint raises both sides, a burn lowers both: what is burnt was there.
LEMMA MintBurnSupply ==
    ASSUME SupplyInv, NEW k \in Keys, NEW x \in Amounts
    PROVE  /\ supply \in Nat
           /\ IsBalances(Credited(k, x)) /\ supply + x = Total(Credited(k, x))
           /\ balance_of(k) >= x => /\ IsBalances(Debited(k, x))
                                    /\ Burnt(x) = Total(Debited(k, x))
                                    /\ Burnt(x) = supply - x
<1>1. x \in Nat /\ IsBalances(balance) /\ supply = Total(balance)
  BY AmountsArePositive DEF SupplyInv
<1>2. /\ Total(balance) \in Nat /\ balance_of(k) \in Nat /\ balance_of(k) <= Total(balance)
      /\ IsBalances(Credited(k, x)) /\ Total(Credited(k, x)) = Total(balance) + x
      /\ balance_of(k) >= x =>
            IsBalances(Debited(k, x)) /\ Total(Debited(k, x)) = Total(balance) - x
  BY <1>1, CreditDebit
<1>3. balance_of(k) >= x => Burnt(x) = supply - x
  BY <1>1, <1>2 DEF Burnt, Monus
<1> QED
  BY <1>1, <1>2, <1>3

\* An executed authorization.
LEMMA StepExecuteSupply ==
    ASSUME SupplyInv, NEW kind \in Kinds, NEW p \in Proposals, ExecuteAuthorized(kind, p)
    PROVE  SupplyInv'
<1>1. PICK a \in Authorization : a = auth[kind][p]
  BY DEF ExecuteAuthorized, SupplyInv
<1>2. a.amount \in Amounts /\ IdKey(a.holder) \in Keys
  BY AmountsArePositive DEF Authorization
<1>3. \/ /\ balance' = Credited(IdKey(a.holder), a.amount)
         /\ supply' = supply + a.amount
      \/ /\ balance_of(IdKey(a.holder)) >= a.amount
         /\ balance' = Debited(IdKey(a.holder), a.amount)
         /\ supply' = Burnt(a.amount)
  BY <1>1 DEF ExecuteAuthorized
<1>4. IsBalances(balance') /\ supply' = Total(balance')
  BY <1>2, <1>3, MintBurnSupply
<1>5. auth' \in [Kinds -> [Proposals -> Authorization \cup {None}]]
  <2>1. auth' = [auth EXCEPT ![kind][p].consumed = TRUE]
    BY DEF ExecuteAuthorized
  <2>2. auth' = [auth EXCEPT ![kind][p] = [a EXCEPT !.consumed = TRUE]]
    BY <1>1, <2>1 DEF SupplyInv
  <2>3. [a EXCEPT !.consumed = TRUE] \in Authorization
    BY Zenon DEF Authorization
  <2> QED
    BY <2>2, <2>3 DEF SupplyInv
<1> QED
  BY <1>4, <1>5 DEF SupplyInv, IsBalances, Total

\* A UBI claim mints or does nothing.
LEMMA StepClaimSupply ==
    ASSUME SupplyInv, NEW c \in Citizens, NEW x \in Amounts, ClaimUbi(c, x)
    PROVE  SupplyInv'
<1>1. IdKey(c) \in Keys
  BY AmountsArePositive, InputsAssumption
<1>2. CASE CanMint(x)
  <2>1. balance' = Credited(IdKey(c), x) /\ supply' = supply + x /\ auth' = auth
    BY <1>2 DEF ClaimUbi
  <2>2. IsBalances(balance') /\ supply' = Total(balance')
    BY <1>1, <2>1, MintBurnSupply
  <2> QED
    BY <2>1, <2>2 DEF SupplyInv, IsBalances, Total
<1>3. CASE ~ CanMint(x)
  BY <1>3, SupplyElsewhere DEF ClaimUbi
<1> QED
  BY <1>2, <1>3

\* The key a release or a revocation works on is one of the holder's.
LEMMA FoundKey ==
    ASSUME NEW h \in Holders
    PROVE  find_beneficiary_key(h) \in KeysOf(h)
<1>1. IdKey(h) \in KeysOf(h)
  BY InputsAssumption DEF IdKey, KeysOf
<1> DEFINE entries == KeysOf(h) \cap DOMAIN balance
           holding == {k \in KeysOf(h) : locked[k] > 0}
           first(S) == IF S = {} \/ IdKey(h) \in S THEN IdKey(h) ELSE CHOOSE k \in S : TRUE
<1>2. first(entries) \in KeysOf(h)
  BY <1>1
<1>3. first(holding) \in KeysOf(h)
  BY <1>1
<1> QED
  BY <1>2, <1>3 DEF find_beneficiary_key

\* What a revocation returns and a release releases are numbers, and both work on a
\* key.
LEMMA ReturnableType ==
    ASSUME VestInv, NEW i \in DOMAIN locks
    PROVE  /\ Returnable(locks[i], epoch) \in Nat
           /\ available_to_release(locks[i], epoch) \in Nat
           /\ find_beneficiary_key(locks[i].beneficiary) \in Keys
<1>1. /\ locks[i].schedule.total \in Nat /\ locks[i].released \in Nat
      /\ locks[i].schedule \in Schedule /\ epoch \in Nat /\ LockOK(locks[i], epoch)
      /\ locks[i].beneficiary \in Holders
  BY Zenon DEF VestInv, LockOK, Lock, Schedule
<1>2. vested_amount(locks[i].schedule, epoch) \in Nat
  BY <1>1, VestedBounded
<1>3. Returnable(locks[i], epoch) \in Nat
  BY <1>1, <1>2 DEF Returnable, Monus
<1>4. available_to_release(locks[i], epoch) \in Nat
  BY <1>1, EntitledIsReleasable
<1> QED
  BY <1>1, <1>3, <1>4, FoundKey DEF KeysOf

\* A revocation may move tokens, and only what the balance covers.
LEMMA StepRevokeSupply ==
    ASSUME VestInv, SupplyInv, locked \in [Keys -> Nat],
           NEW i \in DOMAIN locks, NEW to \in Keys, RevokeVesting(i, to)
    PROVE  SupplyInv'
<1> DEFINE k == find_beneficiary_key(locks[i].beneficiary)
           x == Returnable(locks[i], epoch)
<1>1. k \in Keys
  BY ReturnableType
<1>2. x \in Nat
  BY ReturnableType
<1>3. /\ supply' = supply /\ auth' = auth
      /\ \/ balance' = balance
         \/ /\ locked[k] >= x /\ Monus(balance_of(k), locked[k] - x) >= x
            /\ balance' = Moved(k, to, x)
  BY DEF RevokeVesting
<1> HIDE DEF k, x
<1>4. CASE balance' = balance
  BY <1>3, <1>4, SupplyElsewhere
<1>5. CASE /\ locked[k] >= x /\ Monus(balance_of(k), locked[k] - x) >= x
           /\ balance' = Moved(k, to, x)
  <2>1. balance_of(k) \in Nat /\ locked[k] \in Nat
    BY <1>1, <1>2, CreditDebit DEF SupplyInv
  <2>2. balance_of(k) >= x
    BY <1>2, <1>5, <2>1 DEF Monus
  <2>3. IsBalances(balance') /\ Total(balance') = Total(balance)
    BY <1>1, <1>2, <1>5, <2>2, MoveTotal DEF SupplyInv
  <2> QED
    BY <1>3, <2>3 DEF SupplyInv, IsBalances, Total
<1> QED
  BY <1>3, <1>4, <1>5

\* Locked balances stay natural numbers: no subtraction goes below zero.
LEMMA StepLocked ==
    ASSUME VestInv, locked \in [Keys -> Nat], [Next]_vars
    PROVE  locked' \in [Keys -> Nat]
<1>1. ASSUME NEW k \in Keys, NEW s \in Schedules, NEW r \in BOOLEAN, CreateVesting(k, s, r)
      PROVE  locked' \in [Keys -> Nat]
  BY <1>1, InputsAssumption DEF CreateVesting
<1>2. ASSUME NEW i \in DOMAIN locks, ReleaseVested(i)
      PROVE  locked' \in [Keys -> Nat]
  BY <1>2, ReturnableType DEF ReleaseVested
<1>3. ASSUME NEW i \in DOMAIN locks, NEW to \in Keys, RevokeVesting(i, to)
      PROVE  locked' \in [Keys -> Nat]
  BY <1>3, ReturnableType DEF RevokeVesting
<1>4. CASE UNCHANGED locked
  BY <1>4
<1> QED
  BY <1>1, <1>2, <1>3, <1>4, Zenon
  DEF Next, vars, Tick, SetPaused, Mint, Burn, Transfer, UserTransfer, Register,
      ExecuteAuthorized, ClaimUbi, TrackUbi

\* Every step keeps the supply the total of the balances.
LEMMA StepSupply ==
    ASSUME VestInv, locked \in [Keys -> Nat], SupplyInv, [Next]_vars
    PROVE  SupplyInv'
<1>1. CASE Tick
  BY <1>1, SupplyElsewhere DEF Tick
<1>2. ASSUME NEW b \in BOOLEAN, SetPaused(b)
      PROVE  SupplyInv'
  BY <1>2, SupplyElsewhere DEF SetPaused
<1>3. ASSUME NEW k \in Keys, NEW x \in Amounts, Mint(k, x) \/ Burn(k, x)
      PROVE  SupplyInv'
  <2>1. IsBalances(balance') /\ supply' = Total(balance') /\ auth' = auth
    BY <1>3, MintBurnSupply DEF Mint, Burn
  <2> QED
    BY <2>1 DEF SupplyInv, IsBalances, Total
<1>4. ASSUME NEW from \in Keys, NEW to \in Keys, NEW x \in Amounts,
             Transfer(from, to, x) \/ UserTransfer(from, to, x)
      PROVE  SupplyInv'
  <2>1. /\ balance' = Moved(from, to, x) /\ supply' = supply /\ auth' = auth
        /\ balance_of(from) >= x \/ available_balance(from) >= x
    BY <1>4 DEF Transfer, UserTransfer
  <2>2. x \in Nat /\ x > 0 /\ balance_of(from) \in Nat /\ locked[from] \in Nat
    BY AmountsArePositive, CreditDebit DEF SupplyInv
  <2>3. balance_of(from) >= x
    BY <2>1, <2>2 DEF available_balance, Monus
  <2>4. IsBalances(balance') /\ Total(balance') = Total(balance)
    BY <2>1, <2>2, <2>3, MoveTotal DEF SupplyInv
  <2> QED
    BY <2>1, <2>4 DEF SupplyInv, IsBalances, Total
<1>5. ASSUME NEW k \in Keys, NEW s \in Schedules, NEW r \in BOOLEAN, CreateVesting(k, s, r)
      PROVE  SupplyInv'
  BY <1>5, SupplyElsewhere DEF CreateVesting
<1>6. ASSUME NEW i \in DOMAIN locks, ReleaseVested(i)
      PROVE  SupplyInv'
  BY <1>6, SupplyElsewhere DEF ReleaseVested
<1>7. ASSUME NEW i \in DOMAIN locks, NEW to \in Keys, RevokeVesting(i, to)
      PROVE  SupplyInv'
  BY <1>7, StepRevokeSupply
<1>8. ASSUME NEW kind \in Kinds, NEW p \in Proposals, NEW h \in Holders, NEW x \in Amounts,
             NEW after \in Epochs, NEW at \in 0..epoch, Register(kind, p, h, x, at, after)
      PROVE  SupplyInv'
  <2> DEFINE a == [holder |-> h, amount |-> x, after |-> after, consumed |-> FALSE]
  <2>1. a \in Authorization
    BY DEF Authorization
  <2>2. auth' = [auth EXCEPT ![kind][p] = a] /\ balance' = balance /\ supply' = supply
    BY <1>8 DEF Register
  <2> HIDE DEF a
  <2>3. auth' \in [Kinds -> [Proposals -> Authorization \cup {None}]]
    BY <2>1, <2>2 DEF SupplyInv
  <2> QED
    BY <2>2, <2>3 DEF SupplyInv, IsBalances, Total
<1>9. ASSUME NEW kind \in Kinds, NEW p \in Proposals, ExecuteAuthorized(kind, p)
      PROVE  SupplyInv'
  BY <1>9, StepExecuteSupply
<1>10. ASSUME NEW c \in Citizens, NEW x \in Amounts, ClaimUbi(c, x) \/ TrackUbi(c, x)
       PROVE  SupplyInv'
  BY <1>10, StepClaimSupply, SupplyElsewhere DEF TrackUbi
<1>11. CASE UNCHANGED vars
  BY <1>11, SupplyElsewhere DEF vars
<1> QED
  BY <1>1, <1>2, <1>3, <1>4, <1>5, <1>6, <1>7, <1>8, <1>9, <1>10, <1>11 DEF Next

\* The initial supply is what the initial keys hold.
LEMMA InitSupply == Init => SupplyInv /\ locked \in [Keys -> Nat]
<1> SUFFICES ASSUME Init PROVE SupplyInv /\ locked \in [Keys -> Nat]
  OBVIOUS
<1>1. /\ DOMAIN balance = InitialKeys /\ \A k \in InitialKeys : balance[k] = InitialBalance
      /\ IsFiniteSet(InitialKeys) /\ InitialKeys \subseteq Keys /\ InitialBalance \in Nat
      /\ supply = InitialBalance * Cardinality(InitialKeys)
      /\ balance \in [InitialKeys -> Nat] /\ locked \in [Keys -> Nat]
  BY InputsAssumption DEF Init
<1>2. SumOver(balance, InitialKeys) = InitialBalance * Cardinality(InitialKeys)
  BY <1>1, SumConstant
<1>3. auth \in [Kinds -> [Proposals -> Authorization \cup {None}]]
  BY DEF Init
<1> QED
  BY <1>1, <1>2, <1>3 DEF SupplyInv, IsBalances, Total

\* The supply counter is the sum of all balances, for every set of holders and
\* every order of mints, burns, transfers, revocations and claims.
THEOREM SupplyIsTheSum == Spec => []SupplyIsSum
<1> DEFINE I == VestInv /\ locked \in [Keys -> Nat] /\ SupplyInv
<1>1. Init => I
  BY InitSupply, InitVestInv
<1>2. I /\ [Next]_vars => I'
  BY StepVestInv, StepLocked, StepSupply
<1>3. I => SupplyIsSum
  BY DEF SupplyInv, SupplyIsSum, Total
<1> QED
  BY <1>1, <1>2, <1>3, PTL DEF Spec

(***************************************************************************)
(* Where the supply comes from                                             *)
(***************************************************************************)

\* What an authorization has added to the executed amounts of its kind.
ExecutedAmount(a) == IF a # None /\ a.consumed THEN a.amount ELSE 0

\* Every token is accounted for, and an executed authorization stays consumed, so
\* that its entry is not registered anew.
ExplainedInv ==
    /\ direct \in Int /\ tracked \in Int
    /\ SupplyExplained
    /\ \A kind \in Kinds, p \in Proposals :
           auth[kind][p] # None /\ auth[kind][p].consumed => p \in consumed

\* The executed amounts are a sum of numbers.
LEMMA ExecutedType ==
    ASSUME SupplyInv
    PROVE  /\ \A kind \in Kinds, p \in Proposals : ExecutedAmount(auth[kind][p]) \in Int
           /\ \A kind \in Kinds : Executed(kind) \in Int
<1>1. ASSUME NEW kind \in Kinds, NEW p \in Proposals
      PROVE  ExecutedAmount(auth[kind][p]) \in Int
  <2>1. auth[kind][p] \in Authorization \cup {None}
    BY DEF SupplyInv
  <2> QED
    BY <2>1, AmountsArePositive DEF ExecutedAmount, Authorization
<1>2. ASSUME NEW kind \in Kinds
      PROVE  Executed(kind) \in Int
  <2> DEFINE f == [p \in Proposals |-> ExecutedAmount(auth[kind][p])]
  <2>1. \A p \in Proposals : f[p] \in Int
    BY <1>1
  <2>2. Executed(kind) = SumOver(f, Proposals)
    BY DEF Executed, ExecutedAmount
  <2> HIDE DEF f
  <2> QED
    BY <2>1, <2>2, SumInt, InputsAssumption
<1> QED
  BY <1>1, <1>2

\* Changing one authorization changes the executed amounts by the difference.
LEMMA ExecutedChange ==
    ASSUME SupplyInv, SupplyInv', NEW kind \in Kinds, NEW p \in Proposals,
           \A q \in Proposals : q # p => auth'[kind][q] = auth[kind][q]
    PROVE  Executed(kind)' = Executed(kind) + ExecutedAmount(auth'[kind][p])
                                            - ExecutedAmount(auth[kind][p])
<1> DEFINE f == [q \in Proposals |-> ExecutedAmount(auth[kind][q])]
           g == [q \in Proposals |-> ExecutedAmount(auth'[kind][q])]
<1>1. \A q \in Proposals : f[q] \in Int /\ g[q] \in Int
  <2>1. \A q \in Proposals : f[q] \in Int
    BY ExecutedType
  <2>2. \A q \in Proposals : auth'[kind][q] \in Authorization \cup {None}
    BY DEF SupplyInv
  <2>3. \A q \in Proposals : g[q] \in Int
    BY <2>2, AmountsArePositive DEF ExecutedAmount, Authorization
  <2> QED
    BY <2>1, <2>3
<1>2. \A q \in Proposals : q # p => g[q] = f[q]
  OBVIOUS
<1>3. Executed(kind) = SumOver(f, Proposals) /\ Executed(kind)' = SumOver(g, Proposals)
  BY DEF Executed, ExecutedAmount
<1>4. f[p] = ExecutedAmount(auth[kind][p]) /\ g[p] = ExecutedAmount(auth'[kind][p])
  OBVIOUS
<1> HIDE DEF f, g
<1>5. SumOver(g, Proposals) = SumOver(f, Proposals) + g[p] - f[p]
  BY <1>1, <1>2, SumChange, InputsAssumption
<1> QED
  BY <1>3, <1>4, <1>5

\* The epochs are finitely many, and what they distributed is a number.
LEMMA DistributedType ==
    ASSUME UbiInv
    PROVE  IsFiniteSet(Epochs) /\ SumOver(distributed, Epochs) \in Int
<1>1. IsFiniteSet(Epochs)
  BY FS_Interval, InputsAssumption DEF Epochs
<1>2. \A e \in Epochs : distributed[e] \in Int
  BY DEF UbiInv
<1> QED
  BY <1>1, <1>2, SumInt

\* The initial supply is a number.
LEMMA InitialSupplyType == InitialBalance * Cardinality(InitialKeys) \in Int
<1>1. Cardinality(InitialKeys) \in Nat /\ InitialBalance \in Nat
  BY FS_CardinalityType, InputsAssumption
<1> QED
  BY <1>1

\* A step that changes neither the supply nor what explains it.
LEMMA ExplainedElsewhere ==
    ASSUME ExplainedInv, UNCHANGED <<supply, direct, auth, consumed, distributed, tracked>>
    PROVE  ExplainedInv'
BY DEF ExplainedInv, SupplyExplained, Executed

\* Signed mints and burns.
LEMMA StepDirectExplained ==
    ASSUME SupplyInv, UbiInv, ExplainedInv, NEW k \in Keys, NEW x \in Amounts,
           Mint(k, x) \/ Burn(k, x)
    PROVE  ExplainedInv'
<1>1. \/ supply' = supply + x /\ direct' = direct + x
      \/ supply' = supply - x /\ direct' = direct - x
  BY MintBurnSupply DEF Mint, Burn
<1>2. /\ auth' = auth /\ consumed' = consumed /\ distributed' = distributed
      /\ tracked' = tracked /\ tracked \in Int
  BY DEF Mint, Burn, ExplainedInv
<1>3. x \in Int /\ supply \in Int /\ direct \in Int /\ direct' \in Int
  BY <1>1, AmountsArePositive, MintBurnSupply DEF ExplainedInv
<1>4. Executed("mint") \in Int /\ Executed("burn") \in Int
  BY ExecutedType DEF Kinds
<1>5. Executed("mint")' = Executed("mint") /\ Executed("burn")' = Executed("burn")
  BY <1>2 DEF Executed
<1>6. SupplyExplained'
  BY <1>1, <1>2, <1>3, <1>4, <1>5, DistributedType, InitialSupplyType
  DEF ExplainedInv, SupplyExplained
<1> QED
  BY <1>2, <1>3, <1>6 DEF ExplainedInv

\* A proposal that is not consumed has not been executed, so registering it anew
\* takes nothing away.
LEMMA StepRegisterExplained ==
    ASSUME SupplyInv, SupplyInv', ExplainedInv, NEW kind \in Kinds, NEW p \in Proposals,
           NEW h \in Holders, NEW x \in Amounts, NEW after \in Epochs, NEW at \in 0..epoch,
           Register(kind, p, h, x, at, after)
    PROVE  ExplainedInv'
<1> DEFINE a == [holder |-> h, amount |-> x, after |-> after, consumed |-> FALSE]
<1>1. /\ supply' = supply /\ direct' = direct /\ consumed' = consumed
      /\ distributed' = distributed /\ tracked' = tracked /\ p \notin consumed
      /\ auth' = [auth EXCEPT ![kind][p] = a]
  BY DEF Register
<1>2. ~ a.consumed
  OBVIOUS
<1> HIDE DEF a
<1>3. /\ auth'[kind][p] = a
      /\ \A q \in Proposals : q # p => auth'[kind][q] = auth[kind][q]
      /\ \A other \in Kinds : other # kind => auth'[other] = auth[other]
  BY <1>1 DEF SupplyInv
<1>4. ExecutedAmount(auth[kind][p]) = 0 /\ ExecutedAmount(auth'[kind][p]) = 0
  BY <1>1, <1>2, <1>3 DEF ExplainedInv, ExecutedAmount
<1>5. Executed(kind)' = Executed(kind)
  BY <1>3, <1>4, ExecutedChange, ExecutedType
<1>6. \A other \in Kinds : other # kind => Executed(other)' = Executed(other)
  BY <1>3 DEF Executed
<1>7. Executed("mint")' = Executed("mint") /\ Executed("burn")' = Executed("burn")
  BY <1>5, <1>6 DEF Kinds
<1>8. SupplyExplained'
  BY <1>1, <1>7 DEF ExplainedInv, SupplyExplained
<1>9. \A other \in Kinds, q \in Proposals :
          auth'[other][q] # None /\ auth'[other][q].consumed => q \in consumed'
  BY <1>1, <1>2, <1>3 DEF ExplainedInv
<1> QED
  BY <1>1, <1>8, <1>9 DEF ExplainedInv

\* An executed authorization adds its amount to the supply and to the executed
\* amounts of its kind.
LEMMA StepExecuteExplained ==
    ASSUME SupplyInv, SupplyInv', UbiInv, ExplainedInv,
           NEW kind \in Kinds, NEW p \in Proposals, ExecuteAuthorized(kind, p)
    PROVE  ExplainedInv'
<1>1. PICK a \in Authorization : a = auth[kind][p]
  BY DEF ExecuteAuthorized, SupplyInv
<1> DEFINE b == [a EXCEPT !.consumed = TRUE]
<1>2. b \in Authorization /\ b.consumed /\ b.amount = a.amount /\ b # None
  BY InputsAssumption, Zenon DEF Authorization
<1>3. a.amount \in Amounts /\ a.amount \in Int /\ IdKey(a.holder) \in Keys
  BY AmountsArePositive DEF Authorization
<1>4. /\ direct' = direct /\ distributed' = distributed /\ tracked' = tracked
      /\ ~ a.consumed
      /\ consumed' = consumed \cup {p}
      /\ auth' = [auth EXCEPT ![kind][p].consumed = TRUE]
  BY <1>1 DEF ExecuteAuthorized, Consume
<1>5. auth' = [auth EXCEPT ![kind][p] = b]
  BY <1>1, <1>4 DEF SupplyInv
<1> HIDE DEF b
<1>6. /\ auth'[kind][p] = b
      /\ \A q \in Proposals : q # p => auth'[kind][q] = auth[kind][q]
      /\ \A other \in Kinds : other # kind => auth'[other] = auth[other]
  BY <1>5 DEF SupplyInv
<1>7. ExecutedAmount(auth[kind][p]) = 0 /\ ExecutedAmount(auth'[kind][p]) = a.amount
  BY <1>1, <1>2, <1>4, <1>6, Zenon DEF ExecutedAmount
<1>8. Executed(kind)' = Executed(kind) + a.amount
  BY <1>3, <1>6, <1>7, ExecutedChange, ExecutedType
<1>9. \A other \in Kinds : other # kind => Executed(other)' = Executed(other)
  BY <1>6 DEF Executed
<1>10. Executed("mint") \in Int /\ Executed("burn") \in Int
  BY ExecutedType DEF Kinds
<1>11. supply \in Int /\ direct \in Int /\ tracked \in Int
  BY <1>3, MintBurnSupply DEF ExplainedInv
<1>12. SupplyExplained'
  <2>1. CASE kind = "mint"
    <3>1. supply' = supply + a.amount
      BY <1>1, <2>1 DEF ExecuteAuthorized
    <3>2. Executed("mint")' = Executed("mint") + a.amount /\ Executed("burn")' = Executed("burn")
      BY <1>8, <1>9, <2>1 DEF Kinds
    <3> QED
      BY <1>3, <1>4, <1>10, <1>11, <3>1, <3>2, DistributedType, InitialSupplyType
      DEF ExplainedInv, SupplyExplained
  <2>2. CASE kind = "burn"
    <3>1. supply' = supply - a.amount
      BY <1>1, <1>3, <2>2, MintBurnSupply DEF ExecuteAuthorized
    <3>2. Executed("burn")' = Executed("burn") + a.amount /\ Executed("mint")' = Executed("mint")
      BY <1>8, <1>9, <2>2 DEF Kinds
    <3> QED
      BY <1>3, <1>4, <1>10, <1>11, <3>1, <3>2, DistributedType, InitialSupplyType
      DEF ExplainedInv, SupplyExplained
  <2> QED
    BY <2>1, <2>2 DEF Kinds
<1>13. \A other \in Kinds, q \in Proposals :
           auth'[other][q] # None /\ auth'[other][q].consumed => q \in consumed'
  BY <1>4, <1>6 DEF ExplainedInv
<1> QED
  BY <1>4, <1>11, <1>12, <1>13 DEF ExplainedInv

\* A claim adds to the supply what it adds to the epoch's distribution; a claim
\* without a token contract adds it to what is only tracked.
LEMMA StepClaimExplained ==
    ASSUME SupplyInv, UbiInv, ExplainedInv, NEW c \in Citizens, NEW x \in Amounts,
           ClaimUbi(c, x) \/ TrackUbi(c, x)
    PROVE  ExplainedInv'
<1>1. direct' = direct /\ auth' = auth /\ consumed' = consumed
  BY DEF ClaimUbi, TrackUbi
<1>2. CASE UNCHANGED <<supply, distributed, tracked>>
  BY <1>1, <1>2, ExplainedElsewhere
<1>3. CASE /\ distributed' = [distributed EXCEPT ![epoch] = @ + x]
           /\ \/ supply' = supply + x /\ tracked' = tracked
              \/ supply' = supply /\ tracked' = tracked + x
  <2>2. /\ x \in Nat /\ epoch \in Epochs /\ \A e \in Epochs : distributed[e] \in Nat
        /\ direct \in Int /\ tracked \in Int
    BY AmountsArePositive DEF UbiInv, ExplainedInv
  <2>3. /\ \A e \in Epochs : distributed[e] \in Int /\ distributed'[e] \in Int
        /\ \A e \in Epochs \ {epoch} : distributed[e] = distributed'[e]
        /\ distributed'[epoch] = distributed[epoch] + x
    BY <1>3, <2>2 DEF UbiInv
  <2>4. SumOver(distributed', Epochs)
            = SumOver(distributed, Epochs) + distributed'[epoch] - distributed[epoch]
    BY <2>2, <2>3, DistributedType, SumChange
  <2>5. SumOver(distributed', Epochs) = SumOver(distributed, Epochs) + x
    BY <2>2, <2>3, <2>4, DistributedType
  <2>6. /\ Executed("mint") \in Int /\ Executed("burn") \in Int
        /\ Executed("mint")' = Executed("mint") /\ Executed("burn")' = Executed("burn")
    <3>1. Executed("mint") \in Int /\ Executed("burn") \in Int
      BY ExecutedType DEF Kinds
    <3> QED
      BY <1>1, <3>1 DEF Executed
  <2>7. supply \in Int
    BY MintBurnSupply, AmountsArePositive, InputsAssumption
  <2>8. SupplyExplained'
    BY <1>1, <1>3, <2>2, <2>5, <2>6, <2>7, DistributedType, InitialSupplyType
    DEF ExplainedInv, SupplyExplained
  <2> QED
    BY <1>1, <1>3, <2>2, <2>8 DEF ExplainedInv
<1>4. \/ UNCHANGED <<supply, distributed, tracked>>
      \/ /\ distributed' = [distributed EXCEPT ![epoch] = @ + x]
         /\ \/ supply' = supply + x /\ tracked' = tracked
            \/ supply' = supply /\ tracked' = tracked + x
  BY Zenon DEF ClaimUbi, TrackUbi
<1> QED
  BY <1>2, <1>3, <1>4

\* Every step keeps the account of the supply.
LEMMA StepExplained ==
    ASSUME SupplyInv, SupplyInv', UbiInv, ExplainedInv, [Next]_vars
    PROVE  ExplainedInv'
<1>1. CASE Tick
  BY <1>1, ExplainedElsewhere DEF Tick
<1>2. ASSUME NEW b \in BOOLEAN, SetPaused(b)
      PROVE  ExplainedInv'
  BY <1>2, ExplainedElsewhere DEF SetPaused
<1>3. ASSUME NEW k \in Keys, NEW x \in Amounts, Mint(k, x) \/ Burn(k, x)
      PROVE  ExplainedInv'
  BY <1>3, StepDirectExplained
<1>4. ASSUME NEW from \in Keys, NEW to \in Keys, NEW x \in Amounts,
             Transfer(from, to, x) \/ UserTransfer(from, to, x)
      PROVE  ExplainedInv'
  BY <1>4, ExplainedElsewhere DEF Transfer, UserTransfer
<1>5. ASSUME NEW k \in Keys, NEW s \in Schedules, NEW r \in BOOLEAN, CreateVesting(k, s, r)
      PROVE  ExplainedInv'
  BY <1>5, ExplainedElsewhere DEF CreateVesting
<1>6. ASSUME NEW i \in DOMAIN locks, ReleaseVested(i)
      PROVE  ExplainedInv'
  BY <1>6, ExplainedElsewhere DEF ReleaseVested
<1>7. ASSUME NEW i \in DOMAIN locks, NEW to \in Keys, RevokeVesting(i, to)
      PROVE  ExplainedInv'
  BY <1>7, ExplainedElsewhere DEF RevokeVesting
<1>8. ASSUME NEW kind \in Kinds, NEW p \in Proposals, NEW h \in Holders, NEW x \in Amounts,
             NEW after \in Epochs, NEW at \in 0..epoch, Register(kind, p, h, x, at, after)
      PROVE  ExplainedInv'
  BY <1>8, StepRegisterExplained
<1>9. ASSUME NEW kind \in Kinds, NEW p \in Proposals, ExecuteAuthorized(kind, p)
      PROVE  ExplainedInv'
  BY <1>9, StepExecuteExplained
<1>10. ASSUME NEW c \in Citizens, NEW x \in Amounts, ClaimUbi(c, x) \/ TrackUbi(c, x)
       PROVE  ExplainedInv'
  BY <1>10, StepClaimExplained
<1>11. CASE UNCHANGED vars
  BY <1>11, ExplainedElsewhere DEF vars
<1> QED
  BY <1>1, <1>2, <1>3, <1>4, <1>5, <1>6, <1>7, <1>8, <1>9, <1>10, <1>11 DEF Next

\* Nothing is executed or distributed at the start.
LEMMA InitExplained == Init => ExplainedInv
<1> SUFFICES ASSUME Init PROVE ExplainedInv
  OBVIOUS
<1>1. /\ direct = 0 /\ tracked = 0 /\ supply = InitialBalance * Cardinality(InitialKeys)
      /\ \A kind \in Kinds, p \in Proposals : auth[kind][p] = None
      /\ \A e \in Epochs : distributed[e] = 0
  BY DEF Init
<1>2. ASSUME NEW kind \in Kinds
      PROVE  Executed(kind) = 0
  <2> DEFINE f == [p \in Proposals |-> ExecutedAmount(auth[kind][p])]
  <2>1. \A p \in Proposals : f[p] = 0
    BY <1>1 DEF ExecutedAmount
  <2>2. Executed(kind) = SumOver(f, Proposals)
    BY DEF Executed, ExecutedAmount
  <2> HIDE DEF f
  <2>3. SumOver(f, Proposals) = 0 * Cardinality(Proposals) /\ Cardinality(Proposals) \in Nat
    BY <2>1, SumConstant, FS_CardinalityType, InputsAssumption
  <2> QED
    BY <2>2, <2>3
<1>3. SumOver(distributed, Epochs) = 0
  <2>1. IsFiniteSet(Epochs)
    BY FS_Interval, InputsAssumption DEF Epochs
  <2>2. SumOver(distributed, Epochs) = 0 * Cardinality(Epochs) /\ Cardinality(Epochs) \in Nat
    BY <1>1, <2>1, SumConstant, FS_CardinalityType
  <2> QED
    BY <2>2
<1>4. Executed("mint") = 0 /\ Executed("burn") = 0
  BY <1>2 DEF Kinds
<1> QED
  BY <1>1, <1>3, <1>4, InitialSupplyType DEF ExplainedInv, SupplyExplained

\* Every token in existence is explained by the initial supply, the signed mints
\* and burns, the executed authorizations at their registered amounts and the UBI
\* distributed with a token contract at hand: nothing is minted twice for one proposal, whatever is registered
\* anew and however calls interleave.
THEOREM SupplyIsExplained == Spec => []SupplyExplained
<1> DEFINE I == /\ VestInv /\ locked \in [Keys -> Nat] /\ SupplyInv
                /\ UbiInv /\ ExplainedInv
<1>1. Init => I
  BY InitSupply, InitVestInv, InitUbiInv, InitExplained
<1>2. I /\ [Next]_vars => I'
  BY StepVestInv, StepLocked, StepSupply, StepUbiInv, StepExplained
<1>3. I => SupplyExplained
  BY DEF ExplainedInv
<1> QED
  BY <1>1, <1>2, <1>3, PTL DEF Spec

(***************************************************************************)
(* What is locked and what is owed                                         *)
(***************************************************************************)

LocksOf(ls, h) == {i \in DOMAIN ls : ls[i].beneficiary = h}

\* What the locks in ls hold for h.
OwedTo(ls, h) == SumOver([i \in DOMAIN ls |-> Owed(ls[i])], LocksOf(ls, h))

LockedFor(h) == SumOver(locked, KeysOf(h))

\* The locked balances are what the locks hold, and only a revocation strands.
OwedInv ==
    /\ locked \in [Keys -> Nat]
    /\ \A h \in Holders : LockedFor(h) = OwedTo(locks, h)
    /\ \A i \in DOMAIN locks : locks[i].revoked = None => locks[i].stranded = 0

\* A holder has at most two keys.
LEMMA KeysOfFinite ==
    ASSUME NEW h \in Holders
    PROVE  IsFiniteSet(KeysOf(h))
<1>1. KeysOf(h) \subseteq {<<h, "full">>, <<h, "id">>}
  BY InputsAssumption DEF KeysOf
<1>2. IsFiniteSet({<<h, "full">>, <<h, "id">>})
  <2>1. IsFiniteSet({<<h, "full">>})
    BY FS_Singleton, Zenon
  <2>2. IsFiniteSet({<<h, "full">>} \cup {<<h, "id">>})
    BY <2>1, FS_AddElement, Zenon
  <2> QED
    BY <2>2
<1> QED
  BY <1>1, <1>2, FS_Subset

\* Changing one locked balance changes what is locked for its holder only.
LEMMA LockedChange ==
    ASSUME locked \in [Keys -> Nat], locked' \in [Keys -> Nat],
           NEW g \in Holders, NEW k \in KeysOf(g), NEW h \in Holders,
           \A j \in Keys : j # k => locked'[j] = locked[j]
    PROVE  /\ LockedFor(h) \in Int
           /\ LockedFor(h)' = IF h = g THEN LockedFor(h) + locked'[k] - locked[k]
                                       ELSE LockedFor(h)
<1>1. IsFiniteSet(KeysOf(h)) /\ KeysOf(h) \subseteq Keys
  BY KeysOfFinite DEF KeysOf
<1>2. \A j \in KeysOf(h) : locked[j] \in Int /\ locked'[j] \in Int
  BY <1>1
<1>3. LockedFor(h)' = SumOver(locked', KeysOf(h))
  BY DEF LockedFor, KeysOf
<1>4. LockedFor(h) \in Int
  BY <1>1, <1>2, SumInt DEF LockedFor
<1>5. CASE h = g
  <2>1. SumOver(locked', KeysOf(h)) = SumOver(locked, KeysOf(h)) + locked'[k] - locked[k]
    BY <1>1, <1>2, <1>5, SumChange
  <2> QED
    BY <1>3, <1>4, <1>5, <2>1 DEF LockedFor
<1>6. CASE h # g
  <2>1. \A j \in KeysOf(h) : locked'[j] = locked[j]
    BY <1>6 DEF KeysOf
  <2>2. SumOver(locked', KeysOf(h)) = SumOver(locked, KeysOf(h))
    BY <1>1, <1>2, <2>1, SumEqual
  <2> QED
    BY <1>3, <1>4, <1>6, <2>2 DEF LockedFor
<1> QED
  BY <1>5, <1>6

\* What a lock owes is a number, at least what may be released of it now.
LEMMA OwedCoversRelease ==
    ASSUME NEW l, NEW e \in Nat, LockOK(l, e)
    PROVE  Owed(l) \in Nat /\ Owed(l) >= available_to_release(l, e)
<1>1. /\ l \in Lock /\ l.schedule \in Schedule /\ l.released \in Nat /\ l.stranded \in Nat
      /\ l.schedule.total \in Nat /\ l.revoked \in Nat \cup {None}
      /\ l.revoked # None => l.revoked <= e
  BY DEF LockOK, Lock, Schedule
<1> DEFINE f == effective_epoch(l, e)
<1>2. f \in Nat
  BY <1>1, EffectiveMonotone
<1>3. /\ available_to_release(l, e) \in Nat
      /\ l.released + available_to_release(l, e) = releasable_amount(l.schedule, f)
  BY EntitledIsReleasable
<1>4. l.revoked # None => f = l.revoked
  BY <1>1 DEF effective_epoch
<1> HIDE DEF f
<1>5. /\ vested_amount(l.schedule, f) \in Nat
      /\ vested_amount(l.schedule, f) <= l.schedule.total
  BY <1>1, <1>2, VestedBounded
<1>6. releasable_amount(l.schedule, f) <= vested_amount(l.schedule, f)
  BY <1>5 DEF releasable_amount
<1>7. releasable_amount(l.schedule, f) \in Nat
  BY <1>1, <1>3
<1>8. CASE l.revoked = None
  BY <1>1, <1>3, <1>5, <1>6, <1>7, <1>8 DEF Owed
<1>9. CASE l.revoked # None
  BY <1>1, <1>3, <1>4, <1>5, <1>6, <1>7, <1>9 DEF Owed
<1> QED
  BY <1>8, <1>9

\* The locks of a sequence are finitely many.
LEMMA LocksFinite ==
    ASSUME NEW ls \in Seq(Lock), NEW h
    PROVE  IsFiniteSet(LocksOf(ls, h))
<1>1. DOMAIN ls = 1..Len(ls) /\ Len(ls) \in Nat
  OBVIOUS
<1>2. IsFiniteSet(1..Len(ls))
  BY <1>1, FS_Interval
<1> QED
  BY <1>1, <1>2, FS_Subset DEF LocksOf

\* Replacing one lock changes what is owed to its beneficiary only.
LEMMA OwedReplace ==
    ASSUME NEW ls \in Seq(Lock), NEW ms \in Seq(Lock), NEW i \in DOMAIN ls,
           DOMAIN ms = DOMAIN ls, \A j \in DOMAIN ls : j # i => ms[j] = ls[j],
           ms[i].beneficiary = ls[i].beneficiary,
           \A j \in DOMAIN ls : Owed(ls[j]) \in Nat, Owed(ms[i]) \in Nat, NEW h
    PROVE  /\ OwedTo(ls, h) \in Int
           /\ OwedTo(ms, h) = IF h = ls[i].beneficiary
                              THEN OwedTo(ls, h) + Owed(ms[i]) - Owed(ls[i])
                              ELSE OwedTo(ls, h)
<1> DEFINE S == LocksOf(ls, h)
           f == [j \in DOMAIN ls |-> Owed(ls[j])]
           g == [j \in DOMAIN ms |-> Owed(ms[j])]
<1>1. IsFiniteSet(S)
  BY LocksFinite
<1>2. LocksOf(ms, h) = S
  BY DEF LocksOf
<1>3. \A j \in S : f[j] \in Int /\ g[j] \in Int
  BY DEF LocksOf
<1>4. \A j \in S : j # i => f[j] = g[j]
  BY DEF LocksOf
<1>5. f[i] = Owed(ls[i]) /\ g[i] = Owed(ms[i]) /\ (h = ls[i].beneficiary <=> i \in S)
  BY DEF LocksOf
<1>6. OwedTo(ls, h) = SumOver(f, S) /\ OwedTo(ms, h) = SumOver(g, S)
  BY <1>2 DEF OwedTo
<1> HIDE DEF S, f, g
<1>7. SumOver(f, S) \in Int
  BY <1>1, <1>3, SumInt
<1>8. i \in S => SumOver(g, S) = SumOver(f, S) + g[i] - f[i]
  BY <1>1, <1>3, <1>4, SumChange
<1>9. i \notin S => SumOver(g, S) = SumOver(f, S)
  <2>1. i \notin S => \A j \in S : f[j] = g[j]
    BY <1>4
  <2> QED
    BY <1>1, <2>1, SumEqual
<1> QED
  BY <1>5, <1>6, <1>7, <1>8, <1>9

\* A new lock adds what it owes to its beneficiary.
LEMMA OwedAppend ==
    ASSUME NEW ls \in Seq(Lock), NEW m \in Lock,
           \A j \in DOMAIN ls : Owed(ls[j]) \in Nat, Owed(m) \in Nat, NEW h
    PROVE  /\ OwedTo(ls, h) \in Int
           /\ OwedTo(Append(ls, m), h) = IF h = m.beneficiary
                                         THEN OwedTo(ls, h) + Owed(m) ELSE OwedTo(ls, h)
<1> DEFINE S == LocksOf(ls, h)
           ms == Append(ls, m)
           i == Len(ls) + 1
           f == [j \in DOMAIN ls |-> Owed(ls[j])]
           g == [j \in DOMAIN ms |-> Owed(ms[j])]
<1>1. IsFiniteSet(S)
  BY LocksFinite
<1>2. /\ DOMAIN ms = DOMAIN ls \cup {i} /\ i \notin DOMAIN ls /\ ms[i] = m
      /\ \A j \in DOMAIN ls : ms[j] = ls[j]
  OBVIOUS
<1> HIDE DEF ms, i
<1>3. LocksOf(ms, h) = IF h = m.beneficiary THEN S \cup {i} ELSE S
  BY <1>2 DEF LocksOf
<1>4. /\ S \subseteq DOMAIN ls /\ i \notin S
      /\ \A j \in S \cup {i} : g[j] \in Int
      /\ \A j \in S : f[j] = g[j] /\ f[j] \in Int
      /\ g[i] = Owed(m)
  BY <1>2 DEF LocksOf
<1>5. OwedTo(ls, h) = SumOver(f, S) /\ OwedTo(ms, h) = SumOver(g, LocksOf(ms, h))
  BY DEF OwedTo
<1> HIDE DEF S, f, g
<1>6. SumOver(f, S) \in Int /\ SumOver(f, S) = SumOver(g, S)
  BY <1>1, <1>4, SumInt, SumEqual
<1>7. SumOver(g, S \cup {i}) = g[i] + SumOver(g, S)
  BY <1>1, <1>4, SumAdd
<1> QED
  BY <1>3, <1>4, <1>5, <1>6, <1>7 DEF ms

\* Every lock owes a number.
LEMMA LocksOwe ==
    ASSUME VestInv
    PROVE  /\ locks \in Seq(Lock) /\ epoch \in Nat
           /\ \A i \in DOMAIN locks : /\ Owed(locks[i]) \in Nat
                                      /\ Owed(locks[i]) >= available_to_release(locks[i], epoch)
BY OwedCoversRelease DEF VestInv

\* A step that changes neither the locked balances nor the locks.
LEMMA OwedElsewhere ==
    ASSUME OwedInv, UNCHANGED <<locked, locks>>
    PROVE  OwedInv'
BY DEF OwedInv, LockedFor, KeysOf

\* A new lock: its total is locked under the key that holds it.
LEMMA StepCreateOwed ==
    ASSUME VestInv, OwedInv, NEW k \in Keys, NEW s \in Schedules, NEW r \in BOOLEAN,
           CreateVesting(k, s, r)
    PROVE  OwedInv'
<1> DEFINE m == [beneficiary |-> k[1], schedule |-> s, released |-> 0, revocable |-> r,
                 revoked |-> None, stranded |-> 0]
<1>1. k[1] \in Holders /\ k \in KeysOf(k[1]) /\ s \in Schedule /\ s.total \in Nat
  BY InputsAssumption DEF Schedule, KeysOf
<1>2. /\ m \in Lock /\ m.beneficiary = k[1] /\ m.stranded = 0 /\ Owed(m) = s.total
  BY <1>1 DEF Lock, Owed
<1>3. /\ locks' = Append(locks, m)
      /\ locked' = [locked EXCEPT ![k] = @ + s.total]
  BY DEF CreateVesting
<1> HIDE DEF m
<1>4. /\ locked \in [Keys -> Nat] /\ locked' \in [Keys -> Nat]
      /\ locked'[k] = locked[k] + s.total
      /\ \A j \in Keys : j # k => locked'[j] = locked[j]
  BY <1>1, <1>3 DEF OwedInv
<1>5. ASSUME NEW h \in Holders
      PROVE  LockedFor(h)' = OwedTo(locks', h)
  <2>1. /\ LockedFor(h) \in Int
        /\ LockedFor(h)' = IF h = k[1] THEN LockedFor(h) + locked'[k] - locked[k]
                                       ELSE LockedFor(h)
    BY <1>1, <1>4, LockedChange
  <2>2. OwedTo(locks', h) = IF h = k[1] THEN OwedTo(locks, h) + s.total ELSE OwedTo(locks, h)
    BY <1>1, <1>2, <1>3, LocksOwe, OwedAppend
  <2>3. LockedFor(h) = OwedTo(locks, h) /\ locked[k] \in Nat
    BY <1>4 DEF OwedInv
  <2> QED
    BY <1>1, <1>4, <2>1, <2>2, <2>3
<1>6. \A i \in DOMAIN locks' : locks'[i].revoked = None => locks'[i].stranded = 0
  <2>1. \A i \in DOMAIN locks' : (i \in DOMAIN locks /\ locks'[i] = locks[i]) \/ locks'[i] = m
    BY <1>2, <1>3, LocksOwe
  <2> QED
    BY <1>2, <2>1 DEF OwedInv
<1> QED
  BY <1>4, <1>5, <1>6 DEF OwedInv

\* A step that lowers one locked balance and what one of the holder's locks owes
\* by the same amount.
LEMMA StepLowerOwed ==
    ASSUME VestInv, OwedInv, NEW i \in DOMAIN locks, NEW m \in Lock, NEW x \in Nat,
           NEW k \in KeysOf(locks[i].beneficiary),
           locked[k] >= x, locked' = [locked EXCEPT ![k] = @ - x],
           locks' = [locks EXCEPT ![i] = m],
           m.beneficiary = locks[i].beneficiary, Owed(m) = Owed(locks[i]) - x,
           Owed(m) \in Nat, m.revoked = None => m.stranded = 0
    PROVE  OwedInv'
<1> DEFINE g == locks[i].beneficiary
<1>1. g \in Holders /\ k \in Keys
  BY DEF VestInv, LockOK, Lock, KeysOf
<1>2. /\ locked \in [Keys -> Nat] /\ locked' \in [Keys -> Nat]
      /\ locked[k] \in Nat /\ locked'[k] = locked[k] - x
      /\ \A j \in Keys : j # k => locked'[j] = locked[j]
  BY <1>1 DEF OwedInv
<1>3. /\ locks \in Seq(Lock) /\ locks' \in Seq(Lock) /\ DOMAIN locks' = DOMAIN locks
      /\ locks'[i] = m /\ \A j \in DOMAIN locks : j # i => locks'[j] = locks[j]
  BY LocksOwe
<1>4. ASSUME NEW h \in Holders
      PROVE  LockedFor(h)' = OwedTo(locks', h)
  <2>1. /\ LockedFor(h) \in Int
        /\ LockedFor(h)' = IF h = g THEN LockedFor(h) + locked'[k] - locked[k]
                                     ELSE LockedFor(h)
    BY <1>1, <1>2, LockedChange
  <2>2. OwedTo(locks', h) = IF h = g THEN OwedTo(locks, h) + Owed(m) - Owed(locks[i])
                                     ELSE OwedTo(locks, h)
    <3>1. PICK ms \in Seq(Lock) : ms = locks'
      BY <1>3
    <3>2. /\ DOMAIN ms = DOMAIN locks /\ \A j \in DOMAIN locks : j # i => ms[j] = locks[j]
          /\ ms[i] = m /\ ms[i].beneficiary = locks[i].beneficiary /\ Owed(ms[i]) \in Nat
      BY <1>3, <3>1
    <3>3. locks \in Seq(Lock) /\ \A j \in DOMAIN locks : Owed(locks[j]) \in Nat
      BY LocksOwe
    <3>4. OwedTo(ms, h) = IF h = locks[i].beneficiary
                          THEN OwedTo(locks, h) + Owed(ms[i]) - Owed(locks[i])
                          ELSE OwedTo(locks, h)
      BY <3>2, <3>3, OwedReplace, Zenon
    <3> QED
      BY <3>1, <3>2, <3>4
  <2>3. LockedFor(h) = OwedTo(locks, h) /\ Owed(locks[i]) \in Nat
    BY LocksOwe DEF OwedInv
  <2> QED
    BY <1>2, <2>1, <2>2, <2>3
<1>5. \A j \in DOMAIN locks' : locks'[j].revoked = None => locks'[j].stranded = 0
  BY <1>3 DEF OwedInv
<1> QED
  BY <1>2, <1>4, <1>5, Zenon DEF OwedInv

\* A release lowers both by what is released.
LEMMA StepReleaseOwed ==
    ASSUME VestInv, OwedInv, NEW i \in DOMAIN locks, ReleaseVested(i)
    PROVE  OwedInv'
<1> DEFINE l == locks[i]
           k == find_beneficiary_key(l.beneficiary)
           x == available_to_release(l, epoch)
           m == record_release(l, x)
<1>1. /\ locked[k] >= x /\ locked' = [locked EXCEPT ![k] = @ - x]
      /\ locks' = [locks EXCEPT ![i] = m]
  BY DEF ReleaseVested
<1>2. /\ l \in Lock /\ l.beneficiary \in Holders /\ l.released \in Nat /\ l.stranded \in Nat
      /\ l.schedule \in Schedule /\ l.schedule.total \in Nat
      /\ l.revoked \in Nat \cup {None}
      /\ l.revoked = None => l.stranded = 0
      /\ LockOK(l, epoch) /\ epoch \in Nat
  BY Zenon DEF VestInv, LockOK, Lock, Schedule, OwedInv
<1>3. k \in KeysOf(l.beneficiary)
  BY <1>2, FoundKey
<1>4. x \in Nat /\ Owed(l) \in Nat /\ Owed(l) >= x
  BY <1>2, LocksOwe, EntitledIsReleasable, Zenon
<1> HIDE DEF l, k, x
<1>5. /\ m \in Lock /\ m.beneficiary = l.beneficiary /\ m.revoked = l.revoked
      /\ m.stranded = l.stranded /\ m.released = l.released + x /\ m.schedule = l.schedule
  BY <1>2, <1>4 DEF record_release, Lock
<1> HIDE DEF m
<1>6. Owed(m) = Owed(l) - x /\ Owed(m) \in Nat
  <2>1. \A e \in Nat : vested_amount(l.schedule, e) \in Nat
    BY <1>2, VestedBounded
  <2>2. CASE l.revoked = None
    BY <1>2, <1>4, <1>5, <2>2 DEF Owed
  <2>3. CASE l.revoked # None
    BY <1>2, <1>4, <1>5, <2>1, <2>3 DEF Owed
  <2> QED
    BY <2>2, <2>3
<1>7. m.revoked = None => m.stranded = 0
  BY <1>2, <1>5
<1> QED
  BY <1>1, <1>3, <1>4, <1>5, <1>6, <1>7, StepLowerOwed, Zenon DEF l

\* While a lock is not revoked, what a revocation returns is what has not vested.
LEMMA ReturnableIsUnvested ==
    ASSUME NEW l, NEW e \in Nat, LockOK(l, e), l.revoked = None
    PROVE  /\ vested_amount(l.schedule, e) \in Nat
           /\ Returnable(l, e) = l.schedule.total - vested_amount(l.schedule, e)
           /\ Returnable(l, e) \in Nat
           /\ l.released <= vested_amount(l.schedule, e)
<1>1. /\ l.schedule \in Schedule /\ l.released \in Nat /\ l.schedule.total \in Nat
      /\ l.released <= releasable_amount(l.schedule, e)
  BY DEF LockOK, Lock, Schedule, effective_epoch
<1> DEFINE v == vested_amount(l.schedule, e)
<1>2. v \in Nat /\ v <= l.schedule.total
  BY <1>1, VestedBounded
<1>3. l.released <= v
  BY <1>1, <1>2 DEF releasable_amount
<1> HIDE DEF v
<1>4. Returnable(l, e) = LET rest     == Monus(Monus(l.schedule.total, l.released), Monus(v, l.released))
                             unvested == Monus(l.schedule.total, v)
                         IN  IF rest < unvested THEN rest ELSE unvested
  BY DEF Returnable, v
<1>5. Returnable(l, e) = l.schedule.total - v
  BY <1>1, <1>2, <1>3, <1>4 DEF Monus
<1> QED
  BY <1>1, <1>2, <1>3, <1>5 DEF v

\* A revocation lowers both by what has not vested; when the release after it
\* fails, that part stays locked and is recorded as stranded.
LEMMA StepRevokeOwed ==
    ASSUME VestInv, OwedInv, NEW i \in DOMAIN locks, NEW to \in Keys, RevokeVesting(i, to)
    PROVE  OwedInv'
<1> DEFINE l == locks[i]
           k == find_beneficiary_key(l.beneficiary)
           x == Returnable(l, epoch)
           v == vested_amount(l.schedule, epoch)
           releases == ~ paused /\ locked[k] >= x
           m(y) == Revoked(l, epoch, y)
<1>1. /\ l.revoked = None
      /\ locks' = [locks EXCEPT ![i] = m(IF releases THEN 0 ELSE x)]
      /\ locked' = IF releases THEN [locked EXCEPT ![k] = @ - x] ELSE locked
  BY DEF RevokeVesting
<1>2. /\ l \in Lock /\ l.beneficiary \in Holders /\ l.released \in Nat
      /\ l.stranded = 0 /\ l.schedule.total \in Nat
      /\ LockOK(l, epoch) /\ epoch \in Nat
  BY <1>1 DEF VestInv, LockOK, Lock, Schedule, OwedInv
<1>3. k \in KeysOf(l.beneficiary) /\ k \in Keys
  BY <1>2, FoundKey DEF KeysOf
<1>4. v \in Nat /\ x = l.schedule.total - v /\ x \in Nat /\ l.released <= v
  BY <1>1, <1>2, ReturnableIsUnvested
<1>5. epoch # None /\ locked[k] \in Nat
  BY <1>2, <1>3, InputsAssumption DEF OwedInv
<1>6. ASSUME NEW y \in Nat
      PROVE  /\ m(y) \in Lock /\ m(y).beneficiary = l.beneficiary /\ m(y).revoked # None
             /\ Owed(m(y)) = y - l.released + v /\ Owed(m(y)) \in Nat
  <2>1. /\ m(y) \in Lock /\ m(y).beneficiary = l.beneficiary /\ m(y).revoked = epoch
        /\ m(y).stranded = y /\ m(y).released = l.released /\ m(y).schedule = l.schedule
    BY <1>2, Zenon DEF Revoked, Lock
  <2> HIDE DEF m, v, l
  <2>2. Owed(m(y)) = y - l.released + v
    BY <1>5, <2>1 DEF Owed, v
  <2> QED
    BY <1>2, <1>4, <1>5, <2>1, <2>2
<1>7. Owed(l) = l.schedule.total - l.released
  BY <1>1, <1>2 DEF Owed
<1> HIDE DEF l, k, x, v, m
<1>8. CASE releases
  <2>1. /\ locks' = [locks EXCEPT ![i] = m(0)] /\ locked[k] >= x
        /\ locked' = [locked EXCEPT ![k] = @ - x]
    BY <1>1, <1>8, Zenon
  <2>2. PICK n \in Lock : n = m(0)
    BY <1>6
  <2>3. /\ n.beneficiary = l.beneficiary /\ n.revoked # None
        /\ Owed(n) = Owed(l) - x /\ Owed(n) \in Nat
    <3>1. Owed(n) = 0 - l.released + v /\ Owed(n) \in Nat
      BY <1>6, <2>2
    <3> QED
      BY <1>2, <1>4, <1>6, <1>7, <2>2, <3>1
  <2> QED
    BY <1>3, <1>4, <2>1, <2>2, <2>3, StepLowerOwed, Zenon DEF l
<1>9. CASE ~ releases
  <2>1. /\ locks' = [locks EXCEPT ![i] = m(x)]
        /\ locked' = [locked EXCEPT ![k] = @ - 0]
    <3>1. locks' = [locks EXCEPT ![i] = m(x)] /\ locked' = locked
      BY <1>1, <1>9, Zenon
    <3>2. locked \in [Keys -> Nat] /\ locked[k] - 0 = locked[k]
      BY <1>5 DEF OwedInv
    <3>3. [locked EXCEPT ![k] = @ - 0] = locked
      BY <1>3, <3>2
    <3> QED
      BY <3>1, <3>3
  <2>2. PICK n \in Lock : n = m(x)
    BY <1>4, <1>6
  <2>3. /\ n.beneficiary = l.beneficiary /\ n.revoked # None
        /\ Owed(n) = Owed(l) - 0 /\ Owed(n) \in Nat
    <3>1. Owed(n) = x - l.released + v /\ Owed(n) \in Nat
      BY <1>4, <1>6, <2>2
    <3> QED
      BY <1>2, <1>4, <1>6, <1>7, <2>2, <3>1
  <2>4. locked[k] >= 0
    BY <1>5
  <2> QED
    BY <1>3, <2>1, <2>2, <2>3, <2>4, StepLowerOwed, Zenon DEF l
<1> QED
  BY <1>8, <1>9

\* Every step keeps what is locked equal to what is owed.
LEMMA StepOwed ==
    ASSUME VestInv, OwedInv, [Next]_vars
    PROVE  OwedInv'
<1>1. ASSUME NEW k \in Keys, NEW s \in Schedules, NEW r \in BOOLEAN, CreateVesting(k, s, r)
      PROVE  OwedInv'
  BY <1>1, StepCreateOwed
<1>2. ASSUME NEW i \in DOMAIN locks, ReleaseVested(i)
      PROVE  OwedInv'
  BY <1>2, StepReleaseOwed
<1>3. ASSUME NEW i \in DOMAIN locks, NEW to \in Keys, RevokeVesting(i, to)
      PROVE  OwedInv'
  BY <1>3, StepRevokeOwed
<1>4. CASE UNCHANGED <<locked, locks>>
  BY <1>4, OwedElsewhere
<1> QED
  BY <1>1, <1>2, <1>3, <1>4, Zenon
  DEF Next, vars, Tick, SetPaused, Mint, Burn, Transfer, UserTransfer, Register,
      ExecuteAuthorized, ClaimUbi, TrackUbi

\* Nothing is locked or owed at the start.
LEMMA InitOwed == Init => OwedInv
<1> SUFFICES ASSUME Init PROVE OwedInv
  OBVIOUS
<1>1. locked \in [Keys -> Nat] /\ locks = <<>> /\ \A k \in Keys : locked[k] = 0
  BY DEF Init
<1>2. ASSUME NEW h \in Holders
      PROVE  LockedFor(h) = OwedTo(locks, h)
  <2>1. LocksOf(locks, h) = {}
    BY <1>1 DEF LocksOf
  <2>2. OwedTo(locks, h) = 0
    BY <2>1, SumEmpty DEF OwedTo
  <2>3. \A k \in KeysOf(h) : locked[k] = 0
    BY <1>1 DEF KeysOf
  <2>4. /\ SumOver(locked, KeysOf(h)) = 0 * Cardinality(KeysOf(h))
        /\ Cardinality(KeysOf(h)) \in Nat
    BY <2>3, KeysOfFinite, SumConstant, FS_CardinalityType
  <2> QED
    BY <2>2, <2>4 DEF LockedFor
<1> QED
  BY <1>1, <1>2 DEF OwedInv

\* What a holder's keys have locked is what the holder's vesting locks still hold,
\* whatever is created, released and revoked under either form of the key, failed
\* revocations included.
THEOREM LockedIsWhatIsOwed == Spec => []LockedIsOwed
<1> DEFINE I == VestInv /\ OwedInv
<1>1. Init => I
  BY InitVestInv, InitOwed
<1>2. I /\ [Next]_vars => I'
  BY StepVestInv, StepOwed
<1>3. I => LockedIsOwed
  BY DEF OwedInv, LockedIsOwed, LockedFor, OwedTo, LocksOf
<1> QED
  BY <1>1, <1>2, <1>3, PTL DEF Spec

\* A key with locked tokens has an entry among the balances.
EntriesInv == \A k \in Keys : locked[k] > 0 => k \in DOMAIN balance

\* Entries are never removed, and only a key with a balance can lock.
LEMMA StepEntries ==
    ASSUME VestInv, OwedInv, EntriesInv, [Next]_vars
    PROVE  EntriesInv'
<1>1. DOMAIN balance \subseteq DOMAIN balance'
  <2>1. \/ balance' = balance
        \/ \E k, x : balance' = Credited(k, x) \/ balance' = Debited(k, x)
        \/ \E from, to, x : balance' = Moved(from, to, x)
    <3>1. ASSUME NEW i \in DOMAIN locks, NEW to \in Keys, RevokeVesting(i, to)
          PROVE  \/ balance' = balance
                 \/ \E from, y, x : balance' = Moved(from, y, x)
      BY <3>1 DEF RevokeVesting
    <3>2. ASSUME NEW kind \in Kinds, NEW p \in Proposals, ExecuteAuthorized(kind, p)
          PROVE  \E k, x : balance' = Credited(k, x) \/ balance' = Debited(k, x)
      BY <3>2 DEF ExecuteAuthorized
    <3>3. ASSUME NEW c \in Citizens, NEW x \in Amounts, ClaimUbi(c, x) \/ TrackUbi(c, x)
          PROVE  balance' = balance \/ \E k, y : balance' = Credited(k, y)
      BY <3>3 DEF ClaimUbi, TrackUbi
    <3>4. ASSUME NEW k \in Keys, NEW x \in Amounts, Mint(k, x) \/ Burn(k, x)
          PROVE  balance' = Credited(k, x) \/ balance' = Debited(k, x)
      BY <3>4 DEF Mint, Burn
    <3>5. ASSUME NEW from \in Keys, NEW to \in Keys, NEW x \in Amounts,
                 Transfer(from, to, x) \/ UserTransfer(from, to, x)
          PROVE  balance' = Moved(from, to, x)
      BY <3>5 DEF Transfer, UserTransfer
    <3> QED
      BY <3>1, <3>2, <3>3, <3>4, <3>5, Zenon
      DEF Next, vars, Tick, SetPaused, CreateVesting, ReleaseVested, Register
  <2>2. \A k, x : /\ DOMAIN balance \subseteq DOMAIN Credited(k, x)
                  /\ DOMAIN balance \subseteq DOMAIN Debited(k, x)
    BY DEF Credited, Debited, Insert
  <2>3. \A from, to, x : DOMAIN balance \subseteq DOMAIN Moved(from, to, x)
    BY DEF Moved, Debited, Insert
  <2> QED
    BY <2>1, <2>2, <2>3
<1>2. locked \in [Keys -> Nat]
  BY DEF OwedInv
<1>3. ASSUME NEW k \in Keys, NEW s \in Schedules, NEW r \in BOOLEAN, CreateVesting(k, s, r)
      PROVE  EntriesInv'
  <2>1. s.total \in Nat /\ s.total > 0 /\ available_balance(k) >= s.total
    BY <1>3, InputsAssumption DEF CreateVesting, is_valid
  <2>2. k \in DOMAIN balance
    BY <1>2, <2>1 DEF available_balance, balance_of, Monus
  <2>3. \A j \in Keys : j # k => locked'[j] = locked[j]
    BY <1>2, <1>3 DEF CreateVesting
  <2> QED
    BY <1>1, <2>2, <2>3 DEF EntriesInv
<1>4. ASSUME NEW k \in Keys, NEW x \in Nat, locked[k] >= x, locked' = [locked EXCEPT ![k] = @ - x]
      PROVE  EntriesInv'
  BY <1>1, <1>2, <1>4 DEF EntriesInv
<1>5. ASSUME NEW i \in DOMAIN locks, ReleaseVested(i)
      PROVE  EntriesInv'
  BY <1>4, <1>5, ReturnableType, Zenon DEF ReleaseVested
<1>6. CASE UNCHANGED locked
  BY <1>1, <1>6 DEF EntriesInv
<1>7. ASSUME NEW i \in DOMAIN locks, NEW to \in Keys, RevokeVesting(i, to)
      PROVE  EntriesInv'
  BY <1>4, <1>6, <1>7, ReturnableType DEF RevokeVesting
<1> QED
  BY <1>3, <1>5, <1>6, <1>7, Zenon
  DEF Next, vars, Tick, SetPaused, Mint, Burn, Transfer, UserTransfer, Register,
      ExecuteAuthorized, ClaimUbi, TrackUbi

\* A holder with one entry has everything locked under it, and it is the key a
\* release looks up.
LEMMA OneEntryHoldsAll ==
    ASSUME OwedInv, EntriesInv, NEW h \in Holders,
           Cardinality(KeysOf(h) \cap DOMAIN balance) = 1
    PROVE  locked[find_beneficiary_key(h)] = LockedFor(h)
<1> DEFINE E == KeysOf(h) \cap DOMAIN balance
<1>1. IsFiniteSet(KeysOf(h)) /\ IsFiniteSet(E)
  BY KeysOfFinite, FS_Subset
<1>2. PICK k : E = {k}
  BY <1>1, FS_Singleton, Zenon
<1>3. find_beneficiary_key(h) = k
  BY <1>2 DEF find_beneficiary_key
<1>4. k \in KeysOf(h) /\ KeysOf(h) \subseteq Keys
  BY <1>2 DEF KeysOf
<1>5. \A j \in KeysOf(h) \ {k} : locked[j] = 0
  BY <1>2, <1>4 DEF EntriesInv, OwedInv
<1>6. \A j \in KeysOf(h) : locked[j] \in Int
  BY <1>4 DEF OwedInv
<1>7. SumOver(locked, KeysOf(h)) = locked[k] + SumOver(locked, KeysOf(h) \ {k})
  BY <1>1, <1>4, <1>6, SumRemove
<1>8. IsFiniteSet(KeysOf(h) \ {k})
  BY <1>1, FS_Subset
<1>9. /\ SumOver(locked, KeysOf(h) \ {k}) = 0 * Cardinality(KeysOf(h) \ {k})
      /\ Cardinality(KeysOf(h) \ {k}) \in Nat
  BY <1>5, <1>8, SumConstant, FS_CardinalityType
<1> QED
  BY <1>3, <1>4, <1>6, <1>7, <1>9 DEF LockedFor

\* As long as a holder's tokens are under one key, a release that is due finds
\* enough locked under it: no other lock, revocation, burn or transfer uses it up.
THEOREM DueCanBeReleased == Spec => []DueIsReleasable
<1> DEFINE I == VestInv /\ OwedInv /\ EntriesInv
<1>1. Init => I
  BY InitVestInv, InitOwed DEF Init, EntriesInv
<1>2. I /\ [Next]_vars => I'
  BY StepVestInv, StepOwed, StepEntries
<1>3. I => DueIsReleasable
  <2> SUFFICES ASSUME I, NEW i \in DOMAIN locks,
                      Cardinality(KeysOf(locks[i].beneficiary) \cap DOMAIN balance) = 1
               PROVE  locked[find_beneficiary_key(locks[i].beneficiary)]
                          >= available_to_release(locks[i], epoch)
    BY DEF DueIsReleasable
  <2> DEFINE h == locks[i].beneficiary
             S == LocksOf(locks, h)
             f == [j \in DOMAIN locks |-> Owed(locks[j])]
  <2>1. h \in Holders /\ available_to_release(locks[i], epoch) \in Nat
    BY ReturnableType DEF VestInv, LockOK, Lock
  <2>2. locked[find_beneficiary_key(h)] = OwedTo(locks, h)
    BY <2>1, OneEntryHoldsAll DEF OwedInv
  <2>3. IsFiniteSet(S) /\ i \in S /\ S \subseteq DOMAIN locks
    BY LocksOwe, LocksFinite, Zenon DEF LocksOf
  <2>4. /\ \A j \in S : f[j] \in Nat
        /\ f[i] \in Nat /\ f[i] >= available_to_release(locks[i], epoch)
    BY <2>3, LocksOwe
  <2>5. OwedTo(locks, h) = SumOver(f, S)
    BY DEF OwedTo
  <2> HIDE DEF f, S
  <2>6. SumOver(f, S) \in Nat /\ f[i] <= SumOver(f, S)
    BY <2>3, <2>4, SumNat
  <2> QED
    BY <2>1, <2>2, <2>4, <2>5, <2>6
<1> QED
  BY <1>1, <1>2, <1>3, PTL DEF Spec
=============================================================================
