------------------------ MODULE BlockExecutionProofs ------------------------
(***************************************************************************)
(* What executing a block does to the state trees, for every block and     *)
(* every state whose entries are numbers: that a batch only holds entries  *)
(* of its trees, and that transactions which touch different entries may   *)
(* be staged together or executed one by one.  The lemmas about sums that  *)
(* AccountingProofs rests on come first.                                   *)
(***************************************************************************)
EXTENDS BlockExecution, FiniteSetTheorems, TLAPS

(***************************************************************************)
(* Sums over finite sets.  The community modules define a sum by a         *)
(* recursive function over the subsets of its set; that such a function    *)
(* exists is proved first.  Induction is over a set of numbers or of       *)
(* subsets, which the provers can instantiate, not over a predicate.       *)
(***************************************************************************)

\* Induction over the natural numbers.
LEMMA SetNatInduction ==
    ASSUME NEW T, 0 \in T, \A n \in Nat : n \in T => n + 1 \in T
    PROVE  \A n \in Nat : n \in T
<1> DEFINE Bad == Nat \ T
           R == OpToRel(<, Nat)
<1>1. SUFFICES ASSUME Bad # {} PROVE FALSE
  OBVIOUS
<1>2. IsWellFoundedOn(R, Nat)
  BY NatLessThanWellFounded, Zenon
<1>3. PICK n \in Bad : \A m \in Bad : ~ (<<m, n>> \in R)
  BY <1>1, <1>2, WFMin, Zenon
<1>4. n # 0 /\ n \in Nat
  OBVIOUS
<1>5. n - 1 \in Nat /\ n = (n - 1) + 1
  BY <1>4
<1>6. <<n - 1, n>> \in R
  BY <1>4, <1>5 DEF OpToRel
<1>7. n - 1 \in T
  BY <1>3, <1>5, <1>6, Zenon
<1> QED
  BY <1>5, <1>7

\* Induction over the subsets of a finite set.
LEMMA SubsetInduction ==
    ASSUME NEW S, IsFiniteSet(S), NEW Good,
           \A T \in SUBSET S : (\A x \in T : T \ {x} \in Good) => T \in Good
    PROVE  \A T \in SUBSET S : T \in Good
<1> DEFINE Ns == {n \in Nat : \A T \in SUBSET S : Cardinality(T) = n => T \in Good}
<1>1. \A T \in SUBSET S : IsFiniteSet(T) /\ Cardinality(T) \in Nat
  BY FS_Subset, FS_CardinalityType
<1>2. 0 \in Ns
  <2>1. {} \in Good
    OBVIOUS
  <2> QED
    BY <1>1, <2>1, FS_EmptySet
<1>3. ASSUME NEW n \in Nat, n \in Ns PROVE n + 1 \in Ns
  <2>1. SUFFICES ASSUME NEW T \in SUBSET S, Cardinality(T) = n + 1, NEW x \in T
                 PROVE  T \ {x} \in Good
    OBVIOUS
  <2>2. Cardinality(T \ {x}) = n
    BY <1>1, <2>1, FS_RemoveElement
  <2> QED
    BY <1>3, <2>2
<1> HIDE DEF Ns
<1>4. \A n \in Nat : n \in Ns
  BY <1>2, <1>3, SetNatInduction
<1> QED
  BY <1>1, <1>4 DEF Ns

\* The element MapThenSumSet takes out of s first.
Pick(s) == CHOOSE x \in s : TRUE

\* g tabulates the sums of f over the sets in D.
TabulatesSums(g, f, D) ==
    g = [s \in D |-> IF s = {} THEN 0 ELSE f[Pick(s)] + g[s \ {Pick(s)}]]

\* SumOver looks its value up in a table of the sums over all subsets.
LEMMA SumIsTabulated ==
    ASSUME NEW f, NEW S
    PROVE  SumOver(f, S) = (CHOOSE g : TabulatesSums(g, f, SUBSET S))[S]
BY DEF SumOver, MapThenSumSet, MapThenFoldSet, TabulatesSums, Pick

\* The entries of a tabulation.
LEMMA TabulatedSum ==
    ASSUME NEW g, NEW f, NEW D, TabulatesSums(g, f, D), NEW s \in D
    PROVE  g[s] = IF s = {} THEN 0 ELSE f[Pick(s)] + g[s \ {Pick(s)}]
BY DEF TabulatesSums

\* A tabulation exists: by induction over the size of the sets it covers.
LEMMA TabulationExists ==
    ASSUME NEW f, NEW S, IsFiniteSet(S)
    PROVE  \E g : TabulatesSums(g, f, SUBSET S)
<1> DEFINE Up(n) == {s \in SUBSET S : Cardinality(s) <= n}
           Ns == {n \in Nat : \E g : TabulatesSums(g, f, Up(n))}
<1>1. \A s \in SUBSET S : IsFiniteSet(s) /\ Cardinality(s) \in Nat /\ Cardinality(s) <= Cardinality(S)
  BY FS_Subset, FS_CardinalityType
<1>2. ASSUME NEW s \in SUBSET S, s # {}
      PROVE  /\ Pick(s) \in s /\ s \ {Pick(s)} \in SUBSET S
             /\ Cardinality(s \ {Pick(s)}) = Cardinality(s) - 1
  BY <1>1, <1>2, FS_RemoveElement, Zenon DEF Pick
<1>3. 0 \in Ns
  <2>1. Up(0) = {{}}
    BY <1>1, FS_EmptySet
  <2>2. TabulatesSums([s \in {{}} |-> 0], f, {{}})
    BY DEF TabulatesSums
  <2> QED
    BY <2>1, <2>2, Zenon
<1>4. ASSUME NEW n \in Nat, n \in Ns PROVE n + 1 \in Ns
  <2>1. PICK g : TabulatesSums(g, f, Up(n))
    BY <1>4
  <2> DEFINE h == [s \in Up(n + 1) |-> IF s \in Up(n) THEN g[s]
                                        ELSE f[Pick(s)] + g[s \ {Pick(s)}]]
  <2>2. ASSUME NEW s \in Up(n + 1), s # {} PROVE s \ {Pick(s)} \in Up(n)
    BY <1>1, <1>2, <2>2
  <2>3. {} \in Up(n)
    BY FS_EmptySet
  <2>4. Up(n) \subseteq Up(n + 1)
    BY <1>1
  <2>5. ASSUME NEW s \in Up(n + 1)
        PROVE  h[s] = IF s = {} THEN 0 ELSE f[Pick(s)] + h[s \ {Pick(s)}]
    <3>1. \A t \in Up(n) : h[t] = g[t]
      BY <2>4
    <3>2. CASE s = {}
      BY <2>1, <2>3, <3>1, <3>2, TabulatedSum, Zenon
    <3>3. CASE s # {} /\ s \in Up(n)
      <4>1. g[s] = f[Pick(s)] + g[s \ {Pick(s)}]
        BY <2>1, <3>3, TabulatedSum
      <4>2. h[s \ {Pick(s)}] = g[s \ {Pick(s)}] /\ h[s] = g[s]
        BY <2>2, <3>1, <3>3, Zenon
      <4> QED
        BY <3>3, <4>1, <4>2
    <3>4. CASE s # {} /\ s \notin Up(n)
      BY <2>2, <3>1, <3>4, Zenon
    <3> QED
      BY <3>2, <3>3, <3>4
  <2>6. TabulatesSums(h, f, Up(n + 1))
    BY <2>5, Zenon DEF TabulatesSums
  <2> HIDE DEF h
  <2>7. \E k : TabulatesSums(k, f, Up(n + 1))
    BY <2>6, Zenon
  <2>8. n + 1 \in Nat
    OBVIOUS
  <2> HIDE DEF Up
  <2> QED
    BY <2>7, <2>8, Zenon
<1> HIDE DEF Ns
<1>5. \A n \in Nat : n \in Ns
  BY <1>3, <1>4, SetNatInduction
<1>6. Cardinality(S) \in Ns
  BY <1>1, <1>5
<1>7. Up(Cardinality(S)) = SUBSET S
  BY <1>1
<1> QED
  BY <1>6, <1>7, Zenon DEF Ns

\* g and h tabulate the sums of f over the subsets of S and of a part T of S.
BothTabulate(f, S, T, g, h) ==
    /\ IsFiniteSet(S) /\ T \in SUBSET S
    /\ TabulatesSums(g, f, SUBSET S) /\ TabulatesSums(h, f, SUBSET T)

\* Two tabulations, over the subsets of S and of a part T of S, agree on T.
LEMMA TabulationsAgree ==
    ASSUME NEW f, NEW S, NEW T, NEW g, NEW h, BothTabulate(f, S, T, g, h)
    PROVE  g[T] = h[T]
<1> USE DEF BothTabulate
<1> DEFINE Good == {s \in SUBSET T : g[s] = h[s]}
<1>1. ASSUME NEW s \in SUBSET T, \A x \in s : s \ {x} \in Good
      PROVE  g[s] = h[s]
  <2>1. s \in SUBSET S /\ IsFiniteSet(T)
    BY FS_Subset
  <2>2. g[s] = IF s = {} THEN 0 ELSE f[Pick(s)] + g[s \ {Pick(s)}]
    BY <2>1, TabulatedSum
  <2>3. h[s] = IF s = {} THEN 0 ELSE f[Pick(s)] + h[s \ {Pick(s)}]
    BY TabulatedSum
  <2>4. s # {} => Pick(s) \in s
    BY DEF Pick
  <2>5. s # {} => g[s \ {Pick(s)}] = h[s \ {Pick(s)}]
    BY <1>1, <2>4
  <2> QED
    BY <2>2, <2>3, <2>5
<1>2. IsFiniteSet(T)
  BY FS_Subset
<1>3. \A s \in SUBSET T : (\A x \in s : s \ {x} \in Good) => s \in Good
  BY <1>1, Zenon
<1> HIDE DEF Good
<1>4. \A s \in SUBSET T : s \in Good
  BY <1>2, <1>3, SubsetInduction, Zenon
<1> QED
  BY <1>4 DEF Good

---------------------------------------------------------------------------
(* The facts about sums *)

\* A tabulation over all subsets gives all their sums.
LEMMA SumTabulated ==
    ASSUME NEW f, NEW S, IsFiniteSet(S)
    PROVE  \E g : /\ TabulatesSums(g, f, SUBSET S)
                  /\ \A T \in SUBSET S : SumOver(f, T) = g[T]
<1>1. PICK g : TabulatesSums(g, f, SUBSET S)
  BY TabulationExists, Zenon
<1>2. ASSUME NEW T \in SUBSET S PROVE SumOver(f, T) = g[T]
  <2>1. PICK h : h = CHOOSE k : TabulatesSums(k, f, SUBSET T)
    OBVIOUS
  <2>2. \E k : TabulatesSums(k, f, SUBSET T)
    BY FS_Subset, TabulationExists, Zenon
  <2>3. TabulatesSums(h, f, SUBSET T)
    BY <2>1, <2>2, Zenon
  <2>4. SumOver(f, T) = h[T]
    BY <2>1, SumIsTabulated, Zenon
  <2>5. g[T] = h[T]
    <3>1. BothTabulate(f, S, T, g, h)
      BY <1>1, <2>3 DEF BothTabulate
    <3> QED
      BY <3>1, TabulationsAgree
  <2> QED
    BY <2>4, <2>5
<1> QED
  BY <1>1, <1>2

\* The empty sum.
LEMMA SumEmpty == ASSUME NEW f PROVE SumOver(f, {}) = 0
<1>1. PICK g : /\ TabulatesSums(g, f, SUBSET {})
               /\ \A T \in SUBSET {} : SumOver(f, T) = g[T]
  BY SumTabulated, FS_EmptySet, Zenon
<1> QED
  BY <1>1, TabulatedSum

\* A sum with the element taken out that the fold takes out first.
LEMMA SumPick ==
    ASSUME NEW f, NEW S, IsFiniteSet(S), S # {}
    PROVE  Pick(S) \in S /\ SumOver(f, S) = f[Pick(S)] + SumOver(f, S \ {Pick(S)})
<1>1. PICK g : /\ TabulatesSums(g, f, SUBSET S)
               /\ \A T \in SUBSET S : SumOver(f, T) = g[T]
  BY SumTabulated, Zenon
<1>2. Pick(S) \in S
  BY DEF Pick
<1>3. g[S] = f[Pick(S)] + g[S \ {Pick(S)}]
  BY <1>1, TabulatedSum
<1> QED
  BY <1>1, <1>2, <1>3

\* A sum of integers is an integer.
LEMMA SumInt ==
    ASSUME NEW f, NEW S, IsFiniteSet(S), \A x \in S : f[x] \in Int
    PROVE  \A T \in SUBSET S : SumOver(f, T) \in Int
<1> DEFINE Good == {T \in SUBSET S : SumOver(f, T) \in Int}
<1>1. ASSUME NEW T \in SUBSET S, \A x \in T : T \ {x} \in Good
      PROVE  SumOver(f, T) \in Int
  <2>1. IsFiniteSet(T)
    BY FS_Subset
  <2>2. CASE T = {}
    BY <2>2, SumEmpty
  <2>3. CASE T # {}
    <3>1. Pick(T) \in T /\ SumOver(f, T) = f[Pick(T)] + SumOver(f, T \ {Pick(T)})
      BY <2>1, <2>3, SumPick
    <3>2. f[Pick(T)] \in Int /\ SumOver(f, T \ {Pick(T)}) \in Int
      BY <1>1, <3>1
    <3> QED
      BY <3>1, <3>2
  <2> QED
    BY <2>2, <2>3
<1>2. \A T \in SUBSET S : (\A x \in T : T \ {x} \in Good) => T \in Good
  BY <1>1
<1> HIDE DEF Good
<1>3. \A T \in SUBSET S : T \in Good
  BY <1>2, SubsetInduction, Zenon
<1> QED
  BY <1>3 DEF Good

\* Any element may be taken out first.
LEMMA SumRemove ==
    ASSUME NEW f, NEW S, IsFiniteSet(S), \A x \in S : f[x] \in Int
    PROVE  \A x \in S : SumOver(f, S) = f[x] + SumOver(f, S \ {x})
<1> DEFINE Good == {T \in SUBSET S :
                      \A x \in T : SumOver(f, T) = f[x] + SumOver(f, T \ {x})}
<1>1. ASSUME NEW T \in SUBSET S, \A x \in T : T \ {x} \in Good, NEW x \in T
      PROVE  SumOver(f, T) = f[x] + SumOver(f, T \ {x})
  <2>1. IsFiniteSet(T)
    BY FS_Subset
  <2>2. PICK y \in T : SumOver(f, T) = f[y] + SumOver(f, T \ {y})
    BY <2>1, SumPick, Zenon
  <2>3. CASE x = y
    BY <2>2, <2>3
  <2>4. CASE x # y
    <3> DEFINE U == T \ {x, y}
    <3>1. /\ T \ {x} \in Good /\ y \in T \ {x} /\ (T \ {x}) \ {y} = U
          /\ T \ {y} \in Good /\ x \in T \ {y} /\ (T \ {y}) \ {x} = U
      BY <1>1, <2>4
    <3>2. SumOver(f, U) \in Int /\ f[x] \in Int /\ f[y] \in Int
      BY SumInt
    <3> HIDE DEF U
    <3>3. SumOver(f, T \ {x}) = f[y] + SumOver(f, U)
      BY <3>1
    <3>4. SumOver(f, T \ {y}) = f[x] + SumOver(f, U)
      BY <3>1
    <3> QED
      BY <2>2, <3>2, <3>3, <3>4
  <2> QED
    BY <2>3, <2>4
<1>2. \A T \in SUBSET S : (\A x \in T : T \ {x} \in Good) => T \in Good
  BY <1>1
<1> HIDE DEF Good
<1>3. \A T \in SUBSET S : T \in Good
  BY <1>2, SubsetInduction, Zenon
<1> QED
  BY <1>3 DEF Good

\* An element that joins.
LEMMA SumAdd ==
    ASSUME NEW f, NEW S, IsFiniteSet(S), NEW x, x \notin S,
           \A y \in S \cup {x} : f[y] \in Int
    PROVE  SumOver(f, S \cup {x}) = f[x] + SumOver(f, S)
<1>1. IsFiniteSet(S \cup {x}) /\ (S \cup {x}) \ {x} = S
  BY FS_AddElement
<1> QED
  BY <1>1, SumRemove

\* A sum depends on the terms only.
LEMMA SumEqual ==
    ASSUME NEW f, NEW g, NEW S, IsFiniteSet(S), \A x \in S : f[x] = g[x]
    PROVE  SumOver(f, S) = SumOver(g, S)
<1> DEFINE Good == {T \in SUBSET S : SumOver(f, T) = SumOver(g, T)}
<1>1. ASSUME NEW T \in SUBSET S, \A x \in T : T \ {x} \in Good
      PROVE  SumOver(f, T) = SumOver(g, T)
  <2>1. IsFiniteSet(T)
    BY FS_Subset
  <2>2. CASE T = {}
    BY <2>2, SumEmpty
  <2>3. CASE T # {}
    <3>1. /\ Pick(T) \in T
          /\ SumOver(f, T) = f[Pick(T)] + SumOver(f, T \ {Pick(T)})
          /\ SumOver(g, T) = g[Pick(T)] + SumOver(g, T \ {Pick(T)})
      BY <2>1, <2>3, SumPick
    <3>2. SumOver(f, T \ {Pick(T)}) = SumOver(g, T \ {Pick(T)}) /\ f[Pick(T)] = g[Pick(T)]
      BY <1>1, <3>1
    <3> QED
      BY <3>1, <3>2
  <2> QED
    BY <2>2, <2>3
<1>2. \A T \in SUBSET S : (\A x \in T : T \ {x} \in Good) => T \in Good
  BY <1>1
<1> HIDE DEF Good
<1>3. \A T \in SUBSET S : T \in Good
  BY <1>2, SubsetInduction, Zenon
<1> QED
  BY <1>3 DEF Good

\* One term changes.
LEMMA SumChange ==
    ASSUME NEW f, NEW g, NEW S, IsFiniteSet(S), NEW x \in S,
           \A y \in S : f[y] \in Int /\ g[y] \in Int,
           \A y \in S \ {x} : f[y] = g[y]
    PROVE  SumOver(g, S) = SumOver(f, S) + g[x] - f[x]
<1>1. IsFiniteSet(S \ {x})
  BY FS_Subset
<1>2. SumOver(f, S \ {x}) = SumOver(g, S \ {x})
  BY <1>1, SumEqual
<1>3. SumOver(f, S) = f[x] + SumOver(f, S \ {x}) /\ SumOver(g, S) = g[x] + SumOver(g, S \ {x})
  BY SumRemove
<1>4. SumOver(f, S \ {x}) \in Int /\ f[x] \in Int /\ g[x] \in Int
  BY SumInt
<1> QED
  BY <1>2, <1>3, <1>4

\* Equal terms.
LEMMA SumConstant ==
    ASSUME NEW f, NEW S, IsFiniteSet(S), NEW c \in Int, \A x \in S : f[x] = c
    PROVE  SumOver(f, S) = c * Cardinality(S)
<1> DEFINE Good == {T \in SUBSET S : SumOver(f, T) = c * Cardinality(T)}
<1>1. ASSUME NEW T \in SUBSET S, \A x \in T : T \ {x} \in Good
      PROVE  SumOver(f, T) = c * Cardinality(T)
  <2>1. IsFiniteSet(T) /\ Cardinality(T) \in Nat
    BY FS_Subset, FS_CardinalityType
  <2>2. CASE T = {}
    BY <2>2, SumEmpty, FS_EmptySet
  <2>3. CASE T # {}
    <3>1. PICK y \in T : SumOver(f, T) = f[y] + SumOver(f, T \ {y})
      BY <2>1, <2>3, SumPick, Zenon
    <3>2. PICK n \in Nat : Cardinality(T \ {y}) = n /\ Cardinality(T) = n + 1
      <4>1. IsFiniteSet(T \ {y}) /\ Cardinality(T \ {y}) = Cardinality(T) - 1
        BY <2>1, FS_RemoveElement
      <4>2. Cardinality(T \ {y}) \in Nat
        BY <4>1, FS_CardinalityType
      <4> QED
        BY <2>1, <4>1, <4>2
    <3>3. SumOver(f, T \ {y}) = c * n /\ f[y] = c
      BY <1>1, <3>2
    <3>4. c * (n + 1) = c + c * n
      OBVIOUS
    <3> QED
      BY <3>1, <3>2, <3>3, <3>4
  <2> QED
    BY <2>2, <2>3
<1>2. \A T \in SUBSET S : (\A x \in T : T \ {x} \in Good) => T \in Good
  BY <1>1
<1> HIDE DEF Good
<1>3. \A T \in SUBSET S : T \in Good
  BY <1>2, SubsetInduction, Zenon
<1> QED
  BY <1>3 DEF Good

\* Terms that are not negative have a sum that is not, and none exceeds it.
LEMMA SumNat ==
    ASSUME NEW f, NEW S, IsFiniteSet(S), \A x \in S : f[x] \in Nat
    PROVE  /\ SumOver(f, S) \in Nat
           /\ \A x \in S : f[x] <= SumOver(f, S)
<1> DEFINE Good == {T \in SUBSET S : SumOver(f, T) \in Nat}
<1>1. ASSUME NEW T \in SUBSET S, \A x \in T : T \ {x} \in Good
      PROVE  SumOver(f, T) \in Nat
  <2>1. IsFiniteSet(T)
    BY FS_Subset
  <2>2. CASE T = {}
    BY <2>2, SumEmpty
  <2>3. CASE T # {}
    <3>1. PICK y \in T : SumOver(f, T) = f[y] + SumOver(f, T \ {y})
      BY <2>1, <2>3, SumPick, Zenon
    <3>2. f[y] \in Nat /\ SumOver(f, T \ {y}) \in Nat
      BY <1>1, <3>1
    <3> QED
      BY <3>1, <3>2
  <2> QED
    BY <2>2, <2>3
<1>2. \A T \in SUBSET S : (\A x \in T : T \ {x} \in Good) => T \in Good
  BY <1>1
<1> HIDE DEF Good
<1>3. \A T \in SUBSET S : T \in Good
  BY <1>2, SubsetInduction, Zenon
<1>4. \A T \in SUBSET S : SumOver(f, T) \in Nat
  BY <1>3 DEF Good
<1>5. ASSUME NEW x \in S PROVE f[x] <= SumOver(f, S)
  <2>1. SumOver(f, S) = f[x] + SumOver(f, S \ {x})
    BY SumRemove
  <2>2. SumOver(f, S \ {x}) \in Nat /\ f[x] \in Nat
    BY <1>4
  <2> QED
    BY <2>1, <2>2
<1> QED
  BY <1>4, <1>5

\* The terms of a part and of the rest.
LEMMA SumSplit ==
    ASSUME NEW f, NEW S, IsFiniteSet(S), \A x \in S : f[x] \in Int, NEW K \in SUBSET S
    PROVE  SumOver(f, S) = SumOver(f, K) + SumOver(f, S \ K)
<1> DEFINE Good == {T \in SUBSET S : SumOver(f, S) = SumOver(f, T) + SumOver(f, S \ T)}
<1>1. \A T \in SUBSET S : SumOver(f, T) \in Int
  BY SumInt
<1>2. ASSUME NEW T \in SUBSET S, \A x \in T : T \ {x} \in Good
      PROVE  SumOver(f, S) = SumOver(f, T) + SumOver(f, S \ T)
  <2>1. IsFiniteSet(T) /\ \A x \in T : f[x] \in Int
    BY FS_Subset
  <2>2. CASE T = {}
    <3>1. SumOver(f, T) = 0 /\ SumOver(f, S) \in Int
      BY <1>1, <2>2, SumEmpty
    <3>2. SumOver(f, S \ T) = SumOver(f, S)
      <4>1. PICK R : R = S \ T
        BY Zenon
      <4>2. R = S
        BY <2>2, <4>1
      <4> QED
        BY <4>1, <4>2
    <3> QED
      BY <3>1, <3>2
  <2>3. CASE T # {}
    <3>1. PICK y \in T : TRUE
      BY <2>3
    <3>2. PICK R : R = S \ T
      BY Zenon
    <3>3. IsFiniteSet(R) /\ y \notin R /\ R \in SUBSET S
      BY <3>1, <3>2, FS_Subset
    <3>8. SumOver(f, S \ (T \ {y})) = SumOver(f, R \cup {y})
      <4>1. PICK Q : Q = S \ (T \ {y})
        BY Zenon
      <4>2. Q = R \cup {y}
        BY <3>2, <4>1
      <4> QED
        BY <4>1, <4>2
    <3>9. SumOver(f, S \ T) = SumOver(f, R)
      BY <3>2
    <3>4. SumOver(f, R \cup {y}) = f[y] + SumOver(f, R)
      <4>1. \A x \in R \cup {y} : f[x] \in Int
        BY <3>3
      <4> QED
        BY <3>3, <4>1, SumAdd
    <3>5. SumOver(f, T) = f[y] + SumOver(f, T \ {y})
      BY <2>1, SumRemove
    <3>6. SumOver(f, S) = SumOver(f, T \ {y}) + SumOver(f, S \ (T \ {y}))
      BY <1>2
    <3>7. SumOver(f, T \ {y}) \in Int /\ SumOver(f, R) \in Int /\ f[y] \in Int
      BY <1>1, <3>3
    <3> QED
      BY <3>4, <3>5, <3>6, <3>7, <3>8, <3>9
  <2> QED
    BY <2>2, <2>3
<1>3. \A T \in SUBSET S : (\A x \in T : T \ {x} \in Good) => T \in Good
  BY <1>2
<1> HIDE DEF Good
<1>4. \A T \in SUBSET S : T \in Good
  BY <1>3, SubsetInduction, Zenon
<1> QED
  BY <1>4 DEF Good

\* The terms of a part change.
LEMMA SumChangePart ==
    ASSUME NEW f, NEW g, NEW S, IsFiniteSet(S), NEW K \in SUBSET S,
           \A x \in S : f[x] \in Int /\ g[x] \in Int,
           \A x \in S \ K : f[x] = g[x]
    PROVE  SumOver(g, S) = SumOver(f, S) + SumOver(g, K) - SumOver(f, K)
<1>1. IsFiniteSet(S \ K)
  BY FS_Subset
<1>2. SumOver(f, S \ K) = SumOver(g, S \ K)
  BY <1>1, SumEqual
<1>3. SumOver(f, S) = SumOver(f, K) + SumOver(f, S \ K) /\ SumOver(g, S) = SumOver(g, K) + SumOver(g, S \ K)
  BY SumSplit
<1>4. SumOver(f, S \ K) \in Int /\ SumOver(f, K) \in Int /\ SumOver(g, K) \in Int
  BY SumInt
<1> QED
  BY <1>2, <1>3, <1>4

\* Two sums whose terms differ by as much as those of two others.
LEMMA SumDifference ==
    ASSUME NEW f, NEW g, NEW h, NEW k, NEW S, IsFiniteSet(S),
           \A x \in S : f[x] \in Int /\ g[x] \in Int /\ h[x] \in Int /\ k[x] \in Int,
           \A x \in S : f[x] - g[x] = h[x] - k[x]
    PROVE  SumOver(f, S) - SumOver(g, S) = SumOver(h, S) - SumOver(k, S)
<1> DEFINE Same(T) == SumOver(f, T) - SumOver(g, T) = SumOver(h, T) - SumOver(k, T)
           Good == {T \in SUBSET S : Same(T)}
<1>1. ASSUME NEW T \in SUBSET S, \A x \in T : T \ {x} \in Good
      PROVE  Same(T)
  <2>1. IsFiniteSet(T)
    BY FS_Subset
  <2>2. CASE T = {}
    BY <2>2, SumEmpty
  <2>3. CASE T # {}
    <3>1. PICK y \in T : y = Pick(T)
      BY <2>1, <2>3, SumPick, Zenon
    <3>2. PICK R : R = T \ {y}
      BY Zenon
    <3>3. /\ SumOver(f, T) = f[y] + SumOver(f, R) /\ SumOver(g, T) = g[y] + SumOver(g, R)
          /\ SumOver(h, T) = h[y] + SumOver(h, R) /\ SumOver(k, T) = k[y] + SumOver(k, R)
      BY <2>1, <2>3, <3>1, <3>2, SumPick
    <3>4. R \in SUBSET S /\ R \in Good
      BY <1>1, <3>2
    <3>5. /\ SumOver(f, R) \in Int /\ SumOver(g, R) \in Int
          /\ SumOver(h, R) \in Int /\ SumOver(k, R) \in Int
      BY <3>4, SumInt
    <3>6. Same(R)
      BY <3>4
    <3>7. f[y] \in Int /\ g[y] \in Int /\ h[y] \in Int /\ k[y] \in Int /\ f[y] - g[y] = h[y] - k[y]
      OBVIOUS
    <3> QED
      BY <3>3, <3>5, <3>6, <3>7
  <2> QED
    BY <2>2, <2>3
<1>2. \A T \in SUBSET S : (\A x \in T : T \ {x} \in Good) => T \in Good
  BY <1>1
<1> HIDE DEF Good
<1>3. \A T \in SUBSET S : T \in Good
  BY <1>2, SubsetInduction, Zenon
<1> QED
  BY <1>3 DEF Good

\* The sum of a sequence of numbers, one more at a time.
LEMMA SumNext ==
    ASSUME NEW f, NEW n \in Nat, \A i \in 1 .. n + 1 : f[i] \in Int
    PROVE  SumOver(f, 1 .. n + 1) = f[n + 1] + SumOver(f, 1 .. n)
<1>1. 1 .. n + 1 = (1 .. n) \cup {n + 1} /\ n + 1 \notin 1 .. n
  OBVIOUS
<1>2. IsFiniteSet(1 .. n)
  BY FS_Interval
<1>3. \A y \in (1 .. n) \cup {n + 1} : f[y] \in Int
  BY <1>1
<1> QED
  BY <1>1, <1>2, <1>3, SumAdd, Zenon

\* g gives the outputs O of the transaction id the n amounts h.
Carries(g, O, id, h, n) ==
    /\ n \in Nat
    /\ \A i \in 1 .. n : h[i] \in Int
    /\ \A i \in 0 .. n - 1 : g[<<id, i>>] = h[i + 1]
    /\ O = {<<id, i>> : i \in 0 .. n - 1}

\* The outputs of a transaction add up to the amounts they carry.
LEMMA SumOutputs ==
    ASSUME NEW g, NEW O, NEW id, NEW h, NEW n, Carries(g, O, id, h, n)
    PROVE  IsFiniteSet(O) /\ SumOver(g, O) = SumOver(h, 1 .. n)
<1> USE DEF Carries
<1> DEFINE Outs(m) == {<<id, i>> : i \in 0 .. m - 1}
           Same(m) == IsFiniteSet(Outs(m)) /\ SumOver(g, Outs(m)) = SumOver(h, 1 .. m)
           Good == {m \in Nat : m <= n => Same(m)}
<1>1. 0 \in Good
  <2>1. Outs(0) = {} /\ 1 .. 0 = {}
    OBVIOUS
  <2>2. Same(0)
    BY <2>1, SumEmpty, FS_EmptySet
  <2> QED
    BY <2>2
<1>2. ASSUME NEW m \in Nat, m \in Good PROVE m + 1 \in Good
  <2> SUFFICES ASSUME m + 1 <= n PROVE Same(m + 1)
    OBVIOUS
  <2>1. PICK x : x = <<id, m>>
    BY Zenon
  <2>2. Outs(m + 1) = Outs(m) \cup {x} /\ x \notin Outs(m)
    BY <2>1
  <2>3. g[x] = h[m + 1] /\ h[m + 1] \in Int
    BY <2>1
  <2>4. \A y \in Outs(m) \cup {x} : g[y] \in Int
    BY <2>3
  <2>5. \A i \in 1 .. m + 1 : h[i] \in Int
    OBVIOUS
  <2>6. Same(m)
    BY <1>2
  <2> HIDE DEF Outs
  <2>7. SumOver(g, Outs(m) \cup {x}) = g[x] + SumOver(g, Outs(m))
    BY <2>2, <2>4, <2>6, SumAdd
  <2>8. SumOver(h, 1 .. m + 1) = h[m + 1] + SumOver(h, 1 .. m)
    BY <2>5, SumNext
  <2>9. IsFiniteSet(Outs(m) \cup {x})
    BY <2>6, FS_AddElement
  <2> QED
    BY <2>2, <2>3, <2>6, <2>7, <2>8, <2>9, Zenon
<1> HIDE DEF Good
<1>3. n \in Good
  BY <1>1, <1>2, SetNatInduction
<1>4. n <= n /\ O = Outs(n)
  OBVIOUS
<1>5. Same(n)
  BY <1>3, <1>4 DEF Good
<1> QED
  BY <1>4, <1>5, Zenon

(***************************************************************************)
(* Folds over sequences                                                    *)
(***************************************************************************)

\* A set of numbers that is not empty has a least one.
LEMMA LeastNumber ==
  ASSUME NEW T \in SUBSET Nat, T # {}
  PROVE  \E i \in T : \A j \in T : i <= j
<1>. DEFINE R == OpToRel(<, Nat)
<1>1. IsWellFoundedOn(R, Nat)
  BY NatLessThanWellFounded, Zenon
<1>2. PICK i \in T : \A j \in T : ~(<<j, i>> \in R)
  BY <1>1, WFMin, Zenon
<1>3. ASSUME NEW j \in T PROVE i <= j
  <2>1. j < i => <<j, i>> \in R
    BY DEF OpToRel
  <2>. HIDE DEF R
  <2>2. ~(j < i)
    BY <1>2, <2>1
  <2>3. i \in Nat /\ j \in Nat
    OBVIOUS
  <2>. QED
    BY <2>2, <2>3
<1>. QED
  BY <1>3

\* The greatest of some numbers up to n.
LEMMA GreatestNumber ==
  ASSUME NEW n \in Nat, NEW s \in SUBSET (1..n), s # {}
  PROVE  /\ Max(s) \in s /\ s \ {Max(s)} \in SUBSET (1..(Max(s) - 1))
         /\ Max(s) \in Nat /\ Max(s) <= n /\ Max(s) - 1 \in Nat
<1>. DEFINE T == {n - i : i \in s}
<1>1. T \in SUBSET Nat /\ T # {}
  OBVIOUS
<1>. HIDE DEF T
<1>2. PICK j \in T : \A k \in T : j <= k
  BY <1>1, LeastNumber
<1>3. PICK m \in s : j = n - m
  BY DEF T
<1>4. \A i \in s : m >= i
  <2>. SUFFICES ASSUME NEW i \in s PROVE m >= i
    OBVIOUS
  <2>1. n - m <= n - i
    BY <1>2, <1>3, Zenon DEF T
  <2>. QED
    BY <2>1
<1>5. Max(s) \in s /\ \A i \in s : Max(s) >= i
  BY <1>4, Zenon DEF Max
<1>6. PICK g \in s : g = Max(s)
  BY <1>5, Zenon
<1>7. g \in Nat /\ g <= n /\ g - 1 \in Nat
  OBVIOUS
<1>8. s \ {g} \in SUBSET (1..(g - 1))
  <2>. SUFFICES ASSUME NEW i \in s \ {g} PROVE i \in 1..(g - 1)
    OBVIOUS
  <2>1. i \in Nat /\ 1 <= i /\ i <= g /\ i # g
    BY <1>5, <1>6
  <2>. QED
    BY <1>7, <2>1
<1>. QED
  BY <1>6, <1>7, <1>8

\* One step of OneByOne.
OneStep(p, tx) ==
    LET r == StageTx(p.s, Staging, tx) IN [ok |-> p.ok /\ r.ok, s |-> After(p.s, r)]

\* One step of a fold: Replay executes the next block, StageTxs stages the next transaction
\* over the committed trees k.state, OneByOne executes the next transaction.
FoldStep(k, y, a) ==
    IF k.fold = "replay" THEN After(y, StageBlock(y, a))
    ELSE IF k.fold = "stage" THEN StageTx(k.state, y, a)
    ELSE OneStep(y, a)

\* The three folds.
Replaying == [fold |-> "replay"]

Over(s) == [fold |-> "stage", state |-> s]

Stepping == [fold |-> "one"]

\* The entry for the positions s of a table g of a fold from x over q.
Entry(g, k, x, q, s) == IF s = {} THEN x ELSE FoldStep(k, g[s \ {Max(s)}], q[Max(s)])

\* g tabulates the fold over each set of the first n positions.
Tabulates(g, k, x, q, n) == g = [s \in SUBSET (1..n) |-> Entry(g, k, x, q, s)]

\* The entries of a table.
LEMMA TabulatedValue ==
  ASSUME NEW g, NEW k, NEW x, NEW q, NEW n, Tabulates(g, k, x, q, n),
         NEW s, s \in SUBSET (1..n)
  PROVE  g[s] = Entry(g, k, x, q, s)
BY DEF Tabulates

\* Such a table exists.
LEMMA TableExists ==
  ASSUME NEW k, NEW x, NEW q, NEW n \in Nat
  PROVE  \E g : Tabulates(g, k, x, q, n)
<1>. DEFINE Good == {m \in Nat : \E g : Tabulates(g, k, x, q, m)}
<1>1. 0 \in Good
  <2>1. SUBSET (1..0) = {{}}
    OBVIOUS
  <2>2. Tabulates([s \in {{}} |-> x], k, x, q, 0)
    BY <2>1 DEF Tabulates, Entry
  <2>. QED
    BY <2>2
<1>2. ASSUME NEW m \in Nat, m \in Good PROVE m + 1 \in Good
  <2>1. PICK g : Tabulates(g, k, x, q, m)
    BY <1>2, Zenon
  <2>. DEFINE h == [s \in SUBSET (1..(m + 1)) |-> Entry(g, k, x, q, s)]
  <2>2. ASSUME NEW s \in SUBSET (1..(m + 1)), s # {} PROVE s \ {Max(s)} \in SUBSET (1..m)
    <3>1. m + 1 \in Nat
      OBVIOUS
    <3>2. /\ s \ {Max(s)} \in SUBSET (1..(Max(s) - 1))
          /\ Max(s) \in Nat /\ Max(s) <= m + 1
      BY <2>2, <3>1, GreatestNumber
    <3>3. 1..(Max(s) - 1) \subseteq 1..m
      BY <3>2
    <3>. QED
      BY <3>2, <3>3
  <2>3. \A s \in SUBSET (1..m) : s \in SUBSET (1..(m + 1))
    OBVIOUS
  <2>4. ASSUME NEW s \in SUBSET (1..m) PROVE h[s] = g[s]
    <3>1. h[s] = Entry(g, k, x, q, s)
      BY <2>3
    <3>2. g[s] = Entry(g, k, x, q, s)
      BY <2>1, TabulatedValue, Zenon
    <3>. QED
      BY <3>1, <3>2
  <2>5. ASSUME NEW s \in SUBSET (1..(m + 1)) PROVE h[s] = Entry(h, k, x, q, s)
    <3>1. h[s] = Entry(g, k, x, q, s)
      OBVIOUS
    <3>. HIDE DEF h
    <3>. QED
      BY <2>2, <2>4, <3>1 DEF Entry
  <2>6. h = [s \in SUBSET (1..(m + 1)) |-> Entry(h, k, x, q, s)]
    <3>1. h = [s \in SUBSET (1..(m + 1)) |-> h[s]]
      OBVIOUS
    <3>. HIDE DEF h
    <3>. QED
      BY <2>5, <3>1
  <2>7. Tabulates(h, k, x, q, m + 1)
    BY <2>6, Zenon DEF Tabulates
  <2>8. m + 1 \in Nat
    OBVIOUS
  <2>. HIDE DEF h
  <2>. QED
    BY <2>7, <2>8
<1>. HIDE DEF Good
<1>3. \A m \in Nat : m \in Good
  BY <1>1, <1>2, SetNatInduction
<1>. QED
  BY <1>3, Zenon DEF Good

\* A fold takes the course T from x over the first n entries of q.
Course(T, k, x, q, n) ==
    /\ T[0] = x
    /\ \A i \in 1..n : T[i] = FoldStep(k, T[i - 1], q[i])

\* A table contains the course.
LEMMA TableCourse ==
  ASSUME NEW k, NEW x, NEW q, NEW n \in Nat, NEW g, Tabulates(g, k, x, q, n)
  PROVE  \E T : Course(T, k, x, q, n) /\ T[n] = g[1..n]
<1>. DEFINE T == [i \in 0..n |-> g[1..i]]
<1>1. \A i \in 0..n : 1..i \in SUBSET (1..n) /\ T[i] = g[1..i]
  OBVIOUS
<1>2. ASSUME NEW i \in 0..n PROVE T[i] = Entry(g, k, x, q, 1..i)
  <2>1. PICK s \in SUBSET (1..n) : s = 1..i
    BY <1>1
  <2>2. g[s] = Entry(g, k, x, q, s)
    BY TabulatedValue
  <2>. QED
    BY <1>1, <2>1, <2>2
<1>. HIDE DEF T
<1>3. T[0] = x
  <2>1. 1..0 = {} /\ 0 \in 0..n
    OBVIOUS
  <2>. QED
    BY <1>2, <2>1, Zenon DEF Entry
<1>4. ASSUME NEW i \in 1..n PROVE T[i] = FoldStep(k, T[i - 1], q[i])
  <2>1. i \in 0..n /\ i - 1 \in 0..n /\ 1..i # {} /\ i \in Nat /\ 1..i \in SUBSET (1..i)
    OBVIOUS
  <2>2. Max(1..i) = i
    <3>1. i \in 1..i /\ \A j \in 1..i : i >= j
      OBVIOUS
    <3>2. Max(1..i) \in 1..i /\ \A j \in 1..i : Max(1..i) >= j
      BY <3>1, Zenon DEF Max
    <3>. QED
      BY <3>1, <3>2
  <2>3. (1..i) \ {i} = 1..(i - 1)
    OBVIOUS
  <2>4. T[i] = FoldStep(k, g[(1..i) \ {i}], q[i])
    BY <1>2, <2>1, <2>2, Zenon DEF Entry
  <2>. QED
    BY <1>1, <2>1, <2>3, <2>4, Zenon
<1>5. T[n] = g[1..n]
  BY <1>1
<1>. QED
  BY <1>3, <1>4, <1>5 DEF Course

\* Two courses of one fold end alike; their entries need agree on q alone.
LEMMA CoursesAgree ==
  ASSUME NEW k, NEW x, NEW q, NEW p, NEW n \in Nat, \A i \in 1..n : q[i] = p[i],
         NEW T, Course(T, k, x, q, n), NEW U, Course(U, k, x, p, n)
  PROVE  T[n] = U[n]
<1>. DEFINE Good == {m \in Nat : m <= n => T[m] = U[m]}
<1>1. 0 \in Good
  BY DEF Course
<1>2. ASSUME NEW m \in Nat, m \in Good PROVE m + 1 \in Good
  <2>. SUFFICES ASSUME m + 1 <= n PROVE T[m + 1] = U[m + 1]
    OBVIOUS
  <2>1. m + 1 \in 1..n /\ (m + 1) - 1 = m /\ m <= n
    OBVIOUS
  <2>2. T[m] = U[m]
    BY <1>2, <2>1
  <2>3. /\ T[m + 1] = FoldStep(k, T[m], q[m + 1])
        /\ U[m + 1] = FoldStep(k, U[m], p[m + 1])
    BY <2>1 DEF Course
  <2>. QED
    BY <2>1, <2>2, <2>3
<1>. HIDE DEF Good
<1>3. n \in Good
  BY <1>1, <1>2, SetNatInduction
<1>. QED
  BY <1>3 DEF Good

\* A table of Replay, of StageTxs and of OneByOne.
ReplayTable(g, x, q, D) ==
    g = [s \in D |-> IF s = {} THEN x
                     ELSE After(g[s \ {Max(s)}], StageBlock(g[s \ {Max(s)}], q[Max(s)]))]

StageTable(g, st, q, D) ==
    g = [s \in D |-> IF s = {} THEN Staging ELSE StageTx(st, g[s \ {Max(s)}], q[Max(s)])]

OneTable(g, x, q, D) ==
    g = [s \in D |-> IF s = {} THEN x ELSE OneStep(g[s \ {Max(s)}], q[Max(s)])]

\* Replay takes its course.
LEMMA ReplayCourse ==
  ASSUME NEW x, NEW q, NEW n \in Nat, DOMAIN q = 1..n
  PROVE  \E T : Course(T, Replaying, x, q, n) /\ T[n] = Replay(x, q)
<1>1. Replay(x, q) = (CHOOSE g : ReplayTable(g, x, q, SUBSET DOMAIN q))[DOMAIN q]
  BY DEF Replay, FoldLeft, MapThenFoldSet, ReplayTable
<1>2. ASSUME NEW g PROVE ReplayTable(g, x, q, SUBSET (1..n))
                           <=> Tabulates(g, Replaying, x, q, n)
  BY DEF ReplayTable, Tabulates, Entry, FoldStep, Replaying
<1>3. \E g : ReplayTable(g, x, q, SUBSET (1..n))
  BY <1>2, TableExists, Zenon
<1>4. PICK g : g = CHOOSE h : ReplayTable(h, x, q, SUBSET (1..n))
  OBVIOUS
<1>5. ReplayTable(g, x, q, SUBSET (1..n))
  BY <1>3, <1>4, Zenon
<1>6. Tabulates(g, Replaying, x, q, n)
  BY <1>2, <1>5
<1>7. Replay(x, q) = g[1..n]
  BY <1>1, <1>4
<1>. QED
  BY <1>6, <1>7, TableCourse

\* StageTxs takes its course.
LEMMA StageCourse ==
  ASSUME NEW st, NEW q, NEW n \in Nat, DOMAIN q = 1..n
  PROVE  \E T : Course(T, Over(st), Staging, q, n) /\ T[n] = StageTxs(st, q)
<1>1. StageTxs(st, q) = (CHOOSE g : StageTable(g, st, q, SUBSET DOMAIN q))[DOMAIN q]
  BY DEF StageTxs, FoldLeft, MapThenFoldSet, StageTable
<1>2. ASSUME NEW g PROVE StageTable(g, st, q, SUBSET (1..n))
                           <=> Tabulates(g, Over(st), Staging, q, n)
  BY DEF StageTable, Tabulates, Entry, FoldStep, Over
<1>3. \E g : StageTable(g, st, q, SUBSET (1..n))
  BY <1>2, TableExists, Zenon
<1>4. PICK g : g = CHOOSE h : StageTable(h, st, q, SUBSET (1..n))
  OBVIOUS
<1>5. StageTable(g, st, q, SUBSET (1..n))
  BY <1>3, <1>4, Zenon
<1>6. Tabulates(g, Over(st), Staging, q, n)
  BY <1>2, <1>5, Zenon
<1>7. StageTxs(st, q) = g[1..n]
  BY <1>1, <1>4
<1>. QED
  BY <1>6, <1>7, TableCourse

\* OneByOne takes its course.
LEMMA OneCourse ==
  ASSUME NEW st, NEW q, NEW n \in Nat, DOMAIN q = 1..n
  PROVE  \E T : /\ Course(T, Stepping, [ok |-> TRUE, s |-> [t \in StateTrees |-> st[t]]], q, n)
               /\ T[n] = OneByOne(st, q)
<1>1. PICK x : x = [ok |-> TRUE, s |-> [t \in StateTrees |-> st[t]]]
  BY Zenon
<1>2. OneByOne(st, q) = (CHOOSE g : OneTable(g, x, q, SUBSET DOMAIN q))[DOMAIN q]
  BY <1>1 DEF OneByOne, FoldLeft, MapThenFoldSet, OneTable, OneStep
<1>3. ASSUME NEW g PROVE OneTable(g, x, q, SUBSET (1..n))
                           <=> Tabulates(g, Stepping, x, q, n)
  BY DEF OneTable, Tabulates, Entry, FoldStep, Stepping
<1>4. \E g : OneTable(g, x, q, SUBSET (1..n))
  BY <1>3, TableExists, Zenon
<1>5. PICK g : g = CHOOSE h : OneTable(h, x, q, SUBSET (1..n))
  OBVIOUS
<1>6. OneTable(g, x, q, SUBSET (1..n))
  BY <1>4, <1>5, Zenon
<1>7. Tabulates(g, Stepping, x, q, n)
  BY <1>3, <1>6, Zenon
<1>8. OneByOne(st, q) = g[1..n]
  BY <1>2, <1>5
<1>9. \E T : Course(T, Stepping, x, q, n) /\ T[n] = OneByOne(st, q)
  BY <1>7, <1>8, TableCourse
<1>. QED
  BY <1>1, <1>9, Zenon

\* Replaying no block changes nothing.
LEMMA ReplayNone ==
  ASSUME NEW x, NEW q, DOMAIN q = 1..0
  PROVE  Replay(x, q) = x
<1>1. PICK T : Course(T, Replaying, x, q, 0) /\ T[0] = Replay(x, q)
  BY ReplayCourse
<1>. QED
  BY <1>1 DEF Course

\* Replaying one block more executes it in the state the others lead to.
LEMMA ReplayOneMore ==
  ASSUME NEW x, NEW n \in Nat, NEW q, DOMAIN q = 1..n, NEW p, DOMAIN p = 1..(n + 1),
         \A i \in 1..n : q[i] = p[i]
  PROVE  Replay(x, p) = After(Replay(x, q), StageBlock(Replay(x, q), p[n + 1]))
<1>1. PICK T : Course(T, Replaying, x, q, n) /\ T[n] = Replay(x, q)
  BY ReplayCourse
<1>2. n + 1 \in Nat
  OBVIOUS
<1>3. PICK U : Course(U, Replaying, x, p, n + 1) /\ U[n + 1] = Replay(x, p)
  BY <1>2, ReplayCourse
<1>4. Course(U, Replaying, x, p, n)
  BY <1>3 DEF Course
<1>5. T[n] = U[n]
  BY <1>1, <1>4, CoursesAgree
<1>6. U[n + 1] = FoldStep(Replaying, U[n], p[n + 1])
  <2>1. n + 1 \in 1..(n + 1) /\ (n + 1) - 1 = n
    OBVIOUS
  <2>. QED
    BY <1>3, <2>1 DEF Course
<1>. QED
  BY <1>1, <1>3, <1>5, <1>6 DEF FoldStep, Replaying

(***************************************************************************)
(* What a block stages                                                     *)
(***************************************************************************)

\* The shape of a batch.
Batch(r) ==
    /\ r = [ok |-> r.ok, fees |-> r.fees, w |-> r.w]
    /\ r.w = [t \in StateTrees |-> r.w[t]]
    /\ r.ok \in BOOLEAN

\* A batch of numbers.
BatchOK(r) ==
    /\ Batch(r)
    /\ r.fees \in Int
    /\ \A t \in StateTrees : \A k \in DOMAIN r.w[t] : r.w[t][k] \in Int

\* State trees of numbers.
Typed(s) ==
    /\ s.utxos \in [Outpoints -> Int]
    /\ s.token_balances \in [Addresses -> Int]
    /\ s.token_nonces \in [Addresses -> Int]
    /\ s.token_supply \in [{SOV} -> Int]

\* The empty batch.
LEMMA StagingOK == BatchOK(Staging) /\ Staging.ok /\ Staging.fees = 0
BY DEF BatchOK, Batch, Staging, StateTrees

\* A failed transaction keeps the writes.
LEMMA FailShape ==
  ASSUME NEW r, Batch(r)
  PROVE  /\ Batch(Fail(r)) /\ Fail(r).w = r.w /\ Fail(r).fees = r.fees
         /\ ~ Fail(r).ok
<1>1. ASSUME NEW v \in BOOLEAN
      PROVE  /\ Batch([r EXCEPT !.ok = v])
             /\ [r EXCEPT !.ok = v].w = r.w /\ [r EXCEPT !.ok = v].fees = r.fees
             /\ [r EXCEPT !.ok = v].ok = v
  <2>1. [r EXCEPT !.ok = v] = [ok |-> v, fees |-> r.fees, w |-> r.w]
    BY DEF Batch
  <2>. QED
    BY <2>1 DEF Batch
<1>2. PICK v \in BOOLEAN : v = FALSE
  BY Zenon
<1>3. Fail(r) = [r EXCEPT !.ok = v]
  BY <1>2, Zenon DEF Fail
<1>. QED
  BY <1>1, <1>2, <1>3, Zenon

\* A write into a batch.
LEMMA PutShape ==
  ASSUME NEW r, Batch(r), NEW tree \in StateTrees, NEW k, NEW v
  PROVE  /\ Batch(Put(r, tree, k, v))
         /\ Put(r, tree, k, v).ok = r.ok /\ Put(r, tree, k, v).fees = r.fees
         /\ \A t \in StateTrees :
              Put(r, tree, k, v).w[t] = IF t = tree THEN Insert(r.w[tree], k, v) ELSE r.w[t]
<1>. DEFINE W == [r.w EXCEPT ![tree] = Insert(@, k, v)]
<1>1. Put(r, tree, k, v) = [ok |-> r.ok, fees |-> r.fees, w |-> W]
  BY DEF Batch, Put
<1>2. W = [t \in StateTrees |-> IF t = tree THEN Insert(r.w[tree], k, v) ELSE r.w[t]]
  BY DEF Batch
<1>. HIDE DEF W
<1>3. W = [t \in StateTrees |-> W[t]]
  BY <1>2
<1>. QED
  BY <1>1, <1>2, <1>3 DEF Batch

\* f on top of g.
Join(g, f) == [k \in DOMAIN g \cup DOMAIN f |-> IF k \in DOMAIN f THEN f[k] ELSE g[k]]

\* The writes of a native transfer or a coinbase.
LEMMA PutAllShape ==
  ASSUME NEW r, Batch(r), NEW f
  PROVE  /\ Batch(PutAll(r, "utxos", f))
         /\ PutAll(r, "utxos", f).ok = r.ok /\ PutAll(r, "utxos", f).fees = r.fees
         /\ \A t \in StateTrees :
              PutAll(r, "utxos", f).w[t] = IF t = "utxos" THEN Join(r.w["utxos"], f) ELSE r.w[t]
<1>. DEFINE W == [r.w EXCEPT !["utxos"] = Join(@, f)]
<1>1. PutAll(r, "utxos", f) = [ok |-> r.ok, fees |-> r.fees, w |-> W]
  BY DEF Batch, PutAll, Join
<1>2. W = [t \in StateTrees |-> IF t = "utxos" THEN Join(r.w["utxos"], f) ELSE r.w[t]]
  BY DEF Batch
<1>. HIDE DEF W
<1>3. W = [t \in StateTrees |-> W[t]]
  BY <1>2
<1>. QED
  BY <1>1, <1>2, <1>3 DEF Batch

\* The fee of a native transfer.
LEMMA CollectShape ==
  ASSUME NEW r, Batch(r), NEW fee
  PROVE  /\ Batch(CollectFee(r, fee)) /\ CollectFee(r, fee).ok = r.ok
         /\ CollectFee(r, fee).w = r.w /\ CollectFee(r, fee).fees = r.fees + fee
<1>1. CollectFee(r, fee) = [ok |-> r.ok, fees |-> r.fees + fee, w |-> r.w]
  BY DEF Batch, CollectFee
<1>. QED
  BY <1>1 DEF Batch

\* The same for batches of numbers.
LEMMA FailOK ==
  ASSUME NEW r, BatchOK(r)
  PROVE  BatchOK(Fail(r))
BY FailShape DEF BatchOK

\* A write of a number.
LEMMA PutOK ==
  ASSUME NEW r, BatchOK(r), NEW tree \in StateTrees, NEW k, NEW v \in Int
  PROVE  BatchOK(Put(r, tree, k, v))
<1>1. PICK q : q = Put(r, tree, k, v)
  OBVIOUS
<1>2. /\ Batch(q) /\ q.fees = r.fees
      /\ \A t \in StateTrees : q.w[t] = IF t = tree THEN Insert(r.w[tree], k, v) ELSE r.w[t]
  BY <1>1, PutShape DEF BatchOK
<1>3. \A j \in DOMAIN Insert(r.w[tree], k, v) : Insert(r.w[tree], k, v)[j] \in Int
  BY DEF BatchOK, Insert
<1>4. BatchOK(q)
  BY <1>2, <1>3 DEF BatchOK
<1>. QED
  BY <1>1, <1>4

\* Writes of numbers.
LEMMA PutAllOK ==
  ASSUME NEW r, BatchOK(r), NEW f, \A k \in DOMAIN f : f[k] \in Int
  PROVE  BatchOK(PutAll(r, "utxos", f))
<1>1. PICK q : q = PutAll(r, "utxos", f)
  OBVIOUS
<1>2. /\ Batch(q) /\ q.fees = r.fees
      /\ \A t \in StateTrees : q.w[t] = IF t = "utxos" THEN Join(r.w["utxos"], f) ELSE r.w[t]
  BY <1>1, PutAllShape DEF BatchOK
<1>3. "utxos" \in StateTrees
  BY DEF StateTrees
<1>4. \A j \in DOMAIN Join(r.w["utxos"], f) : Join(r.w["utxos"], f)[j] \in Int
  BY <1>3 DEF BatchOK, Join
<1>5. BatchOK(q)
  BY <1>2, <1>4 DEF BatchOK
<1>. QED
  BY <1>1, <1>5

\* A fee that is a number.
LEMMA CollectOK ==
  ASSUME NEW r, BatchOK(r), NEW fee \in Int
  PROVE  BatchOK(CollectFee(r, fee))
<1>1. PICK q : q = CollectFee(r, fee)
  OBVIOUS
<1>2. Batch(q) /\ q.w = r.w /\ q.fees = r.fees + fee
  BY <1>1, CollectShape DEF BatchOK
<1>3. BatchOK(q)
  BY <1>2 DEF BatchOK
<1>. QED
  BY <1>1, <1>3

\* Debits, credits and mints of numbers write numbers.
LEMMA CreditOK ==
  ASSUME NEW s, Typed(s), NEW r, BatchOK(r), NEW a \in Addresses, NEW amount \in Int
  PROVE  /\ BatchOK(DebitToken(s, r, a, amount))
         /\ BatchOK(CreditToken(s, r, a, amount))
         /\ BatchOK(MintSov(s, r, a, amount))
<1>1. /\ s.token_balances[a] - amount \in Int /\ s.token_balances[a] + amount \in Int
      /\ s.token_supply[SOV] + amount \in Int
      /\ "token_balances" \in StateTrees /\ "token_supply" \in StateTrees
  BY DEF StateTrees, Typed
<1>2. BatchOK(CreditToken(s, r, a, amount))
  BY <1>1, PutOK DEF CreditToken
<1>3. BatchOK(DebitToken(s, r, a, amount))
  BY <1>1, PutOK, FailOK DEF DebitToken
<1>4. BatchOK(MintSov(s, r, a, amount))
  BY <1>1, <1>2, PutOK DEF MintSov
<1>. QED
  BY <1>2, <1>3, <1>4

\* What a native transfer hands to its outputs, the inputs it empties, and when
\* validation rejects it.
Available(s, tx) == SumOver(s.utxos, tx.inputs) - tx.fee

Paid(s, tx) ==
    [o \in {<<tx.id, i>> : i \in 0 .. tx.outputs - 1} |->
        Shares(Available(s, tx), tx.outputs)[o[2] + 1]]

Spent(tx) == [o \in tx.inputs |-> 0]

Rejected(s, tx) ==
    \/ tx.inputs = {} \/ tx.outputs = 0
    \/ \E o \in tx.inputs : s.utxos[o] = 0
    \/ Available(s, tx) < tx.outputs

\* The two outcomes of a native transfer.
LEMMA NativeOutcome ==
  ASSUME NEW s, NEW r, NEW tx
  PROVE  NativeTransfer(s, r, tx) =
           IF Rejected(s, tx) THEN Fail(r)
           ELSE CollectFee(PutAll(PutAll(r, "utxos", Spent(tx)), "utxos", Paid(s, tx)), tx.fee)
BY Zenon DEF NativeTransfer, Rejected, Paid, Spent, Available

\* The amounts a native transfer handles are numbers.
LEMMA NativeAmounts ==
  ASSUME NEW s, Typed(s), NEW tx, tx.type = "Transfer", WellFormedTx(tx)
  PROVE  /\ Available(s, tx) \in Int /\ tx.fee \in Int /\ IsFiniteSet(tx.inputs)
         /\ \A o \in DOMAIN Spent(tx) : Spent(tx)[o] \in Int
         /\ tx.outputs # 0 => \A o \in DOMAIN Paid(s, tx) : Paid(s, tx)[o] \in Int
<1>1. /\ tx.inputs \in SUBSET Outpoints /\ tx.outputs \in Nat /\ tx.fee \in Int
      /\ \A o \in Outpoints : s.utxos[o] \in Int
  BY DEF WellFormedTx, Typed
<1>2. SumOver(s.utxos, tx.inputs) \in Int /\ IsFiniteSet(tx.inputs)
  BY <1>1, SumInt, FS_Subset, TxsAssumption
<1>3. PICK total \in Int : total = Available(s, tx)
  BY <1>1, <1>2 DEF Available
<1>4. ASSUME tx.outputs # 0, NEW o \in DOMAIN Paid(s, tx) PROVE Paid(s, tx)[o] \in Int
  <2>1. PICK i \in 0 .. tx.outputs - 1 : o = <<tx.id, i>>
    BY <1>4 DEF Paid
  <2>2. Paid(s, tx)[o] = Shares(total, tx.outputs)[i + 1]
    BY <1>3, <2>1 DEF Paid
  <2>3. i + 1 \in 1 .. tx.outputs
    BY <1>1
  <2>4. total \div tx.outputs \in Int /\ total % tx.outputs \in Int
    BY <1>1, <1>4
  <2>. QED
    BY <2>2, <2>3, <2>4 DEF Shares
<1>. QED
  BY <1>1, <1>2, <1>3, <1>4 DEF Spent

\* A transaction writes numbers.
LEMMA StageTxOK ==
  ASSUME NEW s, Typed(s), NEW r, BatchOK(r), NEW tx, WellFormedTx(tx)
  PROVE  BatchOK(StageTx(s, r, tx))
<1>1. CASE ~ r.ok
  BY <1>1 DEF StageTx
<1>2. CASE r.ok /\ tx.type = "Transfer"
  <2>1. StageTx(s, r, tx) = NativeTransfer(s, r, tx)
    BY <1>2 DEF StageTx
  <2>2. CASE Rejected(s, tx)
    BY <2>1, <2>2, NativeOutcome, FailOK
  <2>3. CASE ~ Rejected(s, tx)
    <3>1. StageTx(s, r, tx)
            = CollectFee(PutAll(PutAll(r, "utxos", Spent(tx)), "utxos", Paid(s, tx)), tx.fee)
      BY <2>1, <2>3, NativeOutcome
    <3>2. /\ tx.fee \in Int
          /\ \A o \in DOMAIN Spent(tx) : Spent(tx)[o] \in Int
          /\ \A o \in DOMAIN Paid(s, tx) : Paid(s, tx)[o] \in Int
      BY <1>2, <2>3, NativeAmounts DEF Rejected
    <3>3. BatchOK(PutAll(r, "utxos", Spent(tx)))
      BY <3>2, PutAllOK
    <3>4. BatchOK(PutAll(PutAll(r, "utxos", Spent(tx)), "utxos", Paid(s, tx)))
      BY <3>2, <3>3, PutAllOK
    <3>. QED
      BY <3>1, <3>2, <3>4, CollectOK
  <2>. QED
    BY <2>2, <2>3
<1>3. CASE r.ok /\ tx.type = "TokenTransfer"
  <2>. DEFINE fee      == (tx.amount * FeeBps) \div 10000
              debited  == DebitToken(s, r, tx.from, tx.amount)
              credited == CreditToken(s, debited, tx.to, tx.amount - fee)
              paid     == CreditToken(s, credited, FeeSink, fee)
  <2>1. /\ tx.from \in Addresses /\ tx.to \in Addresses /\ tx.amount \in Int
        /\ FeeSink \in Addresses /\ tx.amount * FeeBps \in Int
    BY <1>3, TxsAssumption DEF WellFormedTx
  <2>2. fee \in Int /\ tx.amount - fee \in Int
    BY <2>1
  <2>3. StageTx(s, r, tx) = TokenTransfer(s, r, tx)
    BY <1>3 DEF StageTx
  <2>4. \/ TokenTransfer(s, r, tx) = Fail(r)
        \/ TokenTransfer(s, r, tx)
             = Put(paid, "token_nonces", tx.from, s.token_nonces[tx.from] + 1)
    BY DEF TokenTransfer
  <2>. HIDE DEF fee
  <2>5. BatchOK(debited)
    BY <2>1, CreditOK, Zenon
  <2>. HIDE DEF debited
  <2>6. BatchOK(credited)
    BY <2>1, <2>2, <2>5, CreditOK
  <2>. HIDE DEF credited
  <2>7. BatchOK(paid)
    BY <2>1, <2>2, <2>6, CreditOK, Zenon
  <2>. HIDE DEF paid
  <2>8. "token_nonces" \in StateTrees /\ s.token_nonces[tx.from] + 1 \in Int
    BY <2>1 DEF StateTrees, Typed
  <2>9. BatchOK(Put(paid, "token_nonces", tx.from, s.token_nonces[tx.from] + 1))
    BY <2>7, <2>8, PutOK
  <2>. QED
    BY <2>3, <2>4, <2>9, FailOK
<1>4. CASE r.ok /\ tx.type \in {"TokenMint", "WalletRegistration"}
  <2>1. tx.to \in Addresses /\ tx.amount \in Int
    BY <1>4 DEF WellFormedTx
  <2>2. StageTx(s, r, tx) \in {r, Fail(r), MintSov(s, r, tx.to, tx.amount)}
    BY <1>4 DEF StageTx
  <2>. QED
    BY <2>1, <2>2, CreditOK, FailOK
<1>5. CASE r.ok /\ tx.type \notin {"Transfer", "TokenTransfer", "TokenMint", "WalletRegistration"}
  <2>1. StageTx(s, r, tx) = r
    BY <1>5 DEF StageTx
  <2>. QED
    BY <2>1
<1>. QED
  BY <1>1, <1>2, <1>3, <1>4, <1>5

\* The transactions of a block write numbers.
LEMMA StageTxsOK ==
  ASSUME NEW s, Typed(s), NEW b \in Blocks
  PROVE  BatchOK(StageTxs(s, b.txs))
<1>1. PICK n \in Nat : n = Len(b.txs)
  BY TxsAssumption
<1>2. DOMAIN b.txs = 1..n /\ \A i \in 1..n : WellFormedTx(b.txs[i])
  BY <1>1, TxsAssumption
<1>3. PICK T : Course(T, Over(s), Staging, b.txs, n) /\ T[n] = StageTxs(s, b.txs)
  BY <1>2, StageCourse
<1>. DEFINE Good == {m \in Nat : m <= n => BatchOK(T[m])}
<1>4. 0 \in Good
  BY <1>3, StagingOK DEF Course
<1>5. ASSUME NEW m \in Nat, m \in Good PROVE m + 1 \in Good
  <2>. SUFFICES ASSUME m + 1 <= n PROVE BatchOK(T[m + 1])
    OBVIOUS
  <2>1. m + 1 \in 1..n /\ (m + 1) - 1 = m /\ m <= n
    OBVIOUS
  <2>2. T[m + 1] = FoldStep(Over(s), T[m], b.txs[m + 1])
    BY <1>3, <2>1 DEF Course
  <2>3. T[m + 1] = StageTx(s, T[m], b.txs[m + 1])
    BY <2>2 DEF FoldStep, Over
  <2>4. BatchOK(T[m])
    BY <1>5, <2>1
  <2>5. WellFormedTx(b.txs[m + 1])
    BY <1>2, <2>1
  <2>. QED
    BY <2>3, <2>4, <2>5, StageTxOK
<1>. HIDE DEF Good
<1>6. n \in Good
  BY <1>4, <1>5, SetNatInduction
<1>. QED
  BY <1>3, <1>6 DEF Good

\* The amounts of a coinbase, when it is rejected and what it writes.
CoinAmount(fees, tx) ==
    LET n         == Len(tx.recipients)
        isSink(i) == fees > 0 /\ tx.recipients[i] = FeeSink
        rewards   == {i \in 1 .. n : ~isSink(i)}
        count     == IF fees > 0 THEN n - 1 ELSE n
    IN  [i \in 1 .. n |-> IF isSink(i) THEN fees
                         ELSE IF count = 0 THEN 0
                         ELSE (BlockReward \div count)
                                + (IF i = Min(rewards) THEN BlockReward % count ELSE 0)]

CoinPaid(fees, tx) ==
    [o \in {<<tx.id, i - 1>> : i \in 1 .. Len(tx.recipients)} |-> CoinAmount(fees, tx)[o[2] + 1]]

\* The two outcomes of a coinbase.
LEMMA CoinbaseOutcome ==
  ASSUME NEW r, NEW tx
  PROVE  \/ ApplyCoinbase(r, tx) = Fail(r)
         \/ /\ ApplyCoinbase(r, tx) = PutAll(r, "utxos", CoinPaid(r.fees, tx))
            /\ SumOver(CoinAmount(r.fees, tx), 1 .. Len(tx.recipients)) = BlockReward + r.fees
BY Zenon DEF ApplyCoinbase, CoinPaid, CoinAmount

\* The amounts of a coinbase are numbers.
LEMMA CoinAmounts ==
  ASSUME NEW tx, tx.type = Coinbase, WellFormedTx(tx), NEW fees \in Int
  PROVE  /\ \A i \in 1 .. Len(tx.recipients) : CoinAmount(fees, tx)[i] \in Int
         /\ \A o \in DOMAIN CoinPaid(fees, tx) : CoinPaid(fees, tx)[o] \in Int
<1>1. PICK n \in Nat : n = Len(tx.recipients)
  BY DEF WellFormedTx
<1>2. PICK count \in Int : count = IF fees > 0 THEN n - 1 ELSE n
  OBVIOUS
<1>3. ASSUME NEW i \in 1 .. n PROVE CoinAmount(fees, tx)[i] \in Int
  <2>1. count \in Nat
    BY <1>2, <1>3
  <2>2. count # 0 => BlockReward \div count \in Int /\ BlockReward % count \in Int
    BY <2>1, TxsAssumption
  <2>3. PICK m : CoinAmount(fees, tx)[i] =
                   IF fees > 0 /\ tx.recipients[i] = FeeSink THEN fees
                   ELSE IF count = 0 THEN 0
                   ELSE (BlockReward \div count) + (IF i = m THEN BlockReward % count ELSE 0)
    BY <1>1, <1>2, Zenon DEF CoinAmount
  <2>. QED
    BY <2>2, <2>3
<1>4. ASSUME NEW o \in DOMAIN CoinPaid(fees, tx) PROVE CoinPaid(fees, tx)[o] \in Int
  <2>1. PICK i \in 1 .. n : o = <<tx.id, i - 1>>
    BY <1>1 DEF CoinPaid
  <2>2. CoinPaid(fees, tx)[o] = CoinAmount(fees, tx)[o[2] + 1] /\ o[2] + 1 = i
    BY <2>1 DEF CoinPaid
  <2>. QED
    BY <1>3, <2>2
<1>. QED
  BY <1>1, <1>3, <1>4

\* A block writes numbers.
LEMMA StageBlockOK ==
  ASSUME NEW s, Typed(s), NEW b \in Blocks
  PROVE  BatchOK(StageBlock(s, b))
<1>1. BatchOK(StageTxs(s, b.txs))
  BY StageTxsOK
<1>2. ASSUME NEW r, BatchOK(r), NEW tx, tx.type = Coinbase, WellFormedTx(tx)
      PROVE  BatchOK(ApplyCoinbase(r, tx))
  <2>1. \A o \in DOMAIN CoinPaid(r.fees, tx) : CoinPaid(r.fees, tx)[o] \in Int
    BY <1>2, CoinAmounts DEF BatchOK
  <2>2. BatchOK(PutAll(r, "utxos", CoinPaid(r.fees, tx)))
    BY <1>2, <2>1, PutAllOK
  <2>. QED
    BY <1>2, <2>2, CoinbaseOutcome, FailOK
<1>3. \/ StageBlock(s, b) = Fail(Staging)
      \/ StageBlock(s, b) = StageTxs(s, b.txs)
      \/ /\ 1 \in DOMAIN b.txs /\ b.txs[1].type = Coinbase
         /\ StageBlock(s, b) = ApplyCoinbase(StageTxs(s, b.txs), b.txs[1])
  BY DEF StageBlock
<1>4. 1 \in DOMAIN b.txs => WellFormedTx(b.txs[1])
  BY TxsAssumption
<1>. QED
  BY <1>1, <1>2, <1>3, <1>4, StagingOK, FailOK

\* The trees the executor reads are the same.
SameTrees(s, u) ==
    /\ s.utxos = u.utxos /\ s.token_balances = u.token_balances
    /\ s.token_nonces = u.token_nonces /\ s.token_supply = u.token_supply

\* A transaction is staged alike over equal trees.
LEMMA StageTxSame ==
  ASSUME NEW s, NEW u, SameTrees(s, u), NEW r, NEW tx
  PROVE  StageTx(s, r, tx) = StageTx(u, r, tx)
<1>1. ASSUME NEW p, NEW a, NEW amount
      PROVE  /\ DebitToken(s, p, a, amount) = DebitToken(u, p, a, amount)
             /\ CreditToken(s, p, a, amount) = CreditToken(u, p, a, amount)
  BY DEF DebitToken, CreditToken, SameTrees
<1>2. ASSUME NEW a, NEW amount PROVE MintSov(s, r, a, amount) = MintSov(u, r, a, amount)
  BY <1>1 DEF MintSov, SameTrees
<1>3. TokenTransfer(s, r, tx) = TokenTransfer(u, r, tx)
  BY <1>1 DEF TokenTransfer, SameTrees
<1>4. NativeTransfer(s, r, tx) = NativeTransfer(u, r, tx)
  BY DEF NativeTransfer, SameTrees
<1>. QED
  BY <1>2, <1>3, <1>4 DEF StageTx

\* A block is staged alike over equal trees.
LEMMA StageBlockSame ==
  ASSUME NEW s, NEW u, SameTrees(s, u), NEW b \in Blocks
  PROVE  StageBlock(s, b) = StageBlock(u, b)
<1>1. PICK n \in Nat : n = Len(b.txs)
  BY TxsAssumption
<1>2. DOMAIN b.txs = 1..n
  BY <1>1, TxsAssumption
<1>3. PICK T : Course(T, Over(s), Staging, b.txs, n) /\ T[n] = StageTxs(s, b.txs)
  BY <1>2, StageCourse
<1>4. PICK U : Course(U, Over(u), Staging, b.txs, n) /\ U[n] = StageTxs(u, b.txs)
  BY <1>2, StageCourse
<1>5. ASSUME NEW y, NEW a PROVE FoldStep(Over(s), y, a) = FoldStep(Over(u), y, a)
  BY StageTxSame DEF FoldStep, Over
<1>6. Course(U, Over(s), Staging, b.txs, n)
  BY <1>4, <1>5 DEF Course
<1>7. StageTxs(s, b.txs) = StageTxs(u, b.txs)
  BY <1>3, <1>4, <1>6, CoursesAgree
<1>. QED
  BY <1>7 DEF StageBlock

(***************************************************************************)
(* Staged together or executed one by one                                  *)
(***************************************************************************)

\* The batch q is r with the writes of e on top, and fails if e does.
OnTop(q, r, e) ==
    /\ Batch(q) /\ Batch(e)
    /\ q.ok <=> e.ok
    /\ \A t \in StateTrees :
         /\ DOMAIN q.w[t] = DOMAIN r.w[t] \cup DOMAIN e.w[t]
         /\ \A k \in DOMAIN e.w[t] : q.w[t][k] = e.w[t][k]
         /\ \A k \in DOMAIN r.w[t] : k \notin DOMAIN e.w[t] => q.w[t][k] = r.w[t][k]

\* Nothing on top.
LEMMA NoneOnTop ==
  ASSUME NEW r, Batch(r), r.ok
  PROVE  OnTop(r, r, Staging)
<1>1. \A t \in StateTrees : DOMAIN Staging.w[t] = {}
  BY DEF Staging
<1>2. Batch(Staging) /\ Staging.ok
  BY StagingOK DEF BatchOK
<1>. QED
  BY <1>1, <1>2 DEF OnTop

\* Both fail.
LEMMA FailOnTop ==
  ASSUME NEW q, NEW r, NEW e, OnTop(q, r, e)
  PROVE  OnTop(Fail(q), r, Fail(e))
<1>1. Batch(q) /\ Batch(e)
  BY DEF OnTop
<1>2. /\ Batch(Fail(q)) /\ Batch(Fail(e)) /\ Fail(q).w = q.w /\ Fail(e).w = e.w
      /\ ~ Fail(q).ok /\ ~ Fail(e).ok
  BY <1>1, FailShape
<1>. QED
  BY <1>2 DEF OnTop

\* Both write the same entry.
LEMMA PutOnTop ==
  ASSUME NEW q, NEW r, NEW e, OnTop(q, r, e), NEW tree \in StateTrees, NEW k, NEW v
  PROVE  OnTop(Put(q, tree, k, v), r, Put(e, tree, k, v))
<1>1. Batch(q) /\ Batch(e)
  BY DEF OnTop
<1>2. PICK p, d : p = Put(q, tree, k, v) /\ d = Put(e, tree, k, v)
  OBVIOUS
<1>3. /\ Batch(p) /\ p.ok = q.ok /\ Batch(d) /\ d.ok = e.ok
      /\ \A t \in StateTrees : p.w[t] = IF t = tree THEN Insert(q.w[tree], k, v) ELSE q.w[t]
      /\ \A t \in StateTrees : d.w[t] = IF t = tree THEN Insert(e.w[tree], k, v) ELSE e.w[t]
  BY <1>1, <1>2, PutShape
<1>4. ASSUME NEW t \in StateTrees
      PROVE  /\ DOMAIN p.w[t] = DOMAIN r.w[t] \cup DOMAIN d.w[t]
             /\ \A j \in DOMAIN d.w[t] : p.w[t][j] = d.w[t][j]
             /\ \A j \in DOMAIN r.w[t] : j \notin DOMAIN d.w[t] => p.w[t][j] = r.w[t][j]
  <2>1. CASE t = tree
    <3>1. p.w[t] = Insert(q.w[t], k, v) /\ d.w[t] = Insert(e.w[t], k, v)
      BY <1>3, <2>1
    <3>2. /\ DOMAIN p.w[t] = DOMAIN q.w[t] \cup {k} /\ DOMAIN d.w[t] = DOMAIN e.w[t] \cup {k}
          /\ \A j \in DOMAIN p.w[t] : p.w[t][j] = IF j = k THEN v ELSE q.w[t][j]
          /\ \A j \in DOMAIN d.w[t] : d.w[t][j] = IF j = k THEN v ELSE e.w[t][j]
      BY <3>1 DEF Insert
    <3>. QED
      BY <3>2 DEF OnTop
  <2>2. CASE t # tree
    BY <1>3, <2>2 DEF OnTop
  <2>. QED
    BY <2>1, <2>2
<1>5. OnTop(p, r, d)
  BY <1>3, <1>4 DEF OnTop
<1>. QED
  BY <1>2, <1>5

\* Both write the same outputs.
LEMMA PutAllOnTop ==
  ASSUME NEW q, NEW r, NEW e, OnTop(q, r, e), NEW f
  PROVE  OnTop(PutAll(q, "utxos", f), r, PutAll(e, "utxos", f))
<1>1. Batch(q) /\ Batch(e)
  BY DEF OnTop
<1>2. PICK p, d : p = PutAll(q, "utxos", f) /\ d = PutAll(e, "utxos", f)
  OBVIOUS
<1>3. /\ Batch(p) /\ p.ok = q.ok /\ Batch(d) /\ d.ok = e.ok
      /\ \A t \in StateTrees : p.w[t] = IF t = "utxos" THEN Join(q.w["utxos"], f) ELSE q.w[t]
      /\ \A t \in StateTrees : d.w[t] = IF t = "utxos" THEN Join(e.w["utxos"], f) ELSE e.w[t]
  BY <1>1, <1>2, PutAllShape
<1>4. ASSUME NEW t \in StateTrees
      PROVE  /\ DOMAIN p.w[t] = DOMAIN r.w[t] \cup DOMAIN d.w[t]
             /\ \A j \in DOMAIN d.w[t] : p.w[t][j] = d.w[t][j]
             /\ \A j \in DOMAIN r.w[t] : j \notin DOMAIN d.w[t] => p.w[t][j] = r.w[t][j]
  <2>1. CASE t = "utxos"
    <3>1. p.w[t] = Join(q.w[t], f) /\ d.w[t] = Join(e.w[t], f)
      BY <1>3, <2>1
    <3>2. /\ DOMAIN p.w[t] = DOMAIN q.w[t] \cup DOMAIN f
          /\ DOMAIN d.w[t] = DOMAIN e.w[t] \cup DOMAIN f
          /\ \A j \in DOMAIN p.w[t] : p.w[t][j] = IF j \in DOMAIN f THEN f[j] ELSE q.w[t][j]
          /\ \A j \in DOMAIN d.w[t] : d.w[t][j] = IF j \in DOMAIN f THEN f[j] ELSE e.w[t][j]
      BY <3>1 DEF Join
    <3>. QED
      BY <3>2 DEF OnTop
  <2>2. CASE t # "utxos"
    BY <1>3, <2>2 DEF OnTop
  <2>. QED
    BY <2>1, <2>2
<1>5. OnTop(p, r, d)
  BY <1>3, <1>4 DEF OnTop
<1>. QED
  BY <1>2, <1>5

\* Both collect a fee.
LEMMA CollectOnTop ==
  ASSUME NEW q, NEW r, NEW e, OnTop(q, r, e), NEW fee
  PROVE  OnTop(CollectFee(q, fee), r, CollectFee(e, fee))
<1>1. Batch(q) /\ Batch(e)
  BY DEF OnTop
<1>2. PICK p, d : p = CollectFee(q, fee) /\ d = CollectFee(e, fee)
  OBVIOUS
<1>3. Batch(p) /\ p.ok = q.ok /\ p.w = q.w /\ Batch(d) /\ d.ok = e.ok /\ d.w = e.w
  BY <1>1, <1>2, CollectShape
<1>4. OnTop(p, r, d)
  BY <1>3 DEF OnTop
<1>. QED
  BY <1>2, <1>4

\* Both debit, credit or mint.
LEMMA CreditOnTop ==
  ASSUME NEW q, NEW r, NEW e, OnTop(q, r, e), NEW s, NEW a, NEW amount
  PROVE  /\ OnTop(DebitToken(s, q, a, amount), r, DebitToken(s, e, a, amount))
         /\ OnTop(CreditToken(s, q, a, amount), r, CreditToken(s, e, a, amount))
         /\ OnTop(MintSov(s, q, a, amount), r, MintSov(s, e, a, amount))
<1>1. "token_balances" \in StateTrees /\ "token_supply" \in StateTrees
  BY DEF StateTrees
<1>2. OnTop(CreditToken(s, q, a, amount), r, CreditToken(s, e, a, amount))
  BY <1>1, PutOnTop DEF CreditToken
<1>3. OnTop(DebitToken(s, q, a, amount), r, DebitToken(s, e, a, amount))
  BY <1>1, PutOnTop, FailOnTop DEF DebitToken
<1>4. OnTop(MintSov(s, q, a, amount), r, MintSov(s, e, a, amount))
  BY <1>1, <1>2, PutOnTop DEF MintSov
<1>. QED
  BY <1>2, <1>3, <1>4

\* What a transaction writes does not depend on the writes staged before it.
LEMMA StageTxOnTop ==
  ASSUME NEW s, NEW r, Batch(r), r.ok, NEW tx
  PROVE  OnTop(StageTx(s, r, tx), r, StageTx(s, Staging, tx))
<1>1. PICK e : e = Staging
  OBVIOUS
<1>2. OnTop(r, r, e) /\ e.ok
  BY <1>1, NoneOnTop, StagingOK
<1>3. CASE tx.type = "Transfer"
  <2>1. StageTx(s, r, tx) = NativeTransfer(s, r, tx) /\ StageTx(s, e, tx) = NativeTransfer(s, e, tx)
    BY <1>2, <1>3 DEF StageTx
  <2>2. ASSUME NEW f, NEW g, NEW fee
        PROVE  OnTop(CollectFee(PutAll(PutAll(r, "utxos", f), "utxos", g), fee), r,
                     CollectFee(PutAll(PutAll(e, "utxos", f), "utxos", g), fee))
    BY <1>2, PutAllOnTop, CollectOnTop
  <2>3. OnTop(NativeTransfer(s, r, tx), r, NativeTransfer(s, e, tx))
    BY <1>2, <2>2, NativeOutcome, FailOnTop
  <2>. QED
    BY <1>1, <2>1, <2>3
<1>4. CASE tx.type = "TokenTransfer"
  <2>1. StageTx(s, r, tx) = TokenTransfer(s, r, tx) /\ StageTx(s, e, tx) = TokenTransfer(s, e, tx)
    BY <1>2, <1>4 DEF StageTx
  <2>2. ASSUME NEW fee, NEW n, NEW v
        PROVE  OnTop(Put(CreditToken(s, CreditToken(s, DebitToken(s, r, tx.from, tx.amount), tx.to, n),
                                     FeeSink, fee), "token_nonces", tx.from, v), r,
                     Put(CreditToken(s, CreditToken(s, DebitToken(s, e, tx.from, tx.amount), tx.to, n),
                                     FeeSink, fee), "token_nonces", tx.from, v))
    <3>1. "token_nonces" \in StateTrees
      BY DEF StateTrees
    <3>. QED
      BY <1>2, <3>1, CreditOnTop, PutOnTop
  <2>3. OnTop(TokenTransfer(s, r, tx), r, TokenTransfer(s, e, tx))
    BY <1>2, <2>2, FailOnTop DEF TokenTransfer
  <2>. QED
    BY <1>1, <2>1, <2>3
<1>5. CASE tx.type \in {"TokenMint", "WalletRegistration"}
  <2>1. \/ StageTx(s, r, tx) = r /\ StageTx(s, e, tx) = e
        \/ StageTx(s, r, tx) = Fail(r) /\ StageTx(s, e, tx) = Fail(e)
        \/ /\ StageTx(s, r, tx) = MintSov(s, r, tx.to, tx.amount)
           /\ StageTx(s, e, tx) = MintSov(s, e, tx.to, tx.amount)
    BY <1>2, <1>5 DEF StageTx
  <2>. QED
    BY <1>1, <1>2, <2>1, FailOnTop, CreditOnTop
<1>6. CASE tx.type \notin {"Transfer", "TokenTransfer", "TokenMint", "WalletRegistration"}
  <2>1. StageTx(s, r, tx) = r /\ StageTx(s, e, tx) = e
    BY <1>2, <1>6 DEF StageTx
  <2>. QED
    BY <1>1, <1>2, <2>1
<1>. QED
  BY <1>3, <1>4, <1>5, <1>6

\* The states s and u agree on the entries a transaction reads or writes.
Agree(s, u, tx) ==
    \A t \in StateTrees : \A k : <<t, k>> \in Footprint(tx) => s[t][k] = u[t][k]

\* A transaction depends on its footprint alone.
LEMMA StageTxAgrees ==
  ASSUME NEW s, NEW u, Typed(s), Typed(u), NEW tx, WellFormedTx(tx), Agree(s, u, tx), NEW r
  PROVE  StageTx(s, r, tx) = StageTx(u, r, tx)
<1>1. CASE tx.type = "Transfer"
  <2>1. ASSUME NEW o \in tx.inputs PROVE s.utxos[o] = u.utxos[o]
    <3>1. <<"utxos", o>> \in Footprint(tx) /\ "utxos" \in StateTrees
      BY <1>1 DEF Footprint, StateTrees
    <3>. QED
      BY <3>1 DEF Agree
  <2>2. tx.inputs \in SUBSET Outpoints /\ IsFiniteSet(tx.inputs)
    BY <1>1, NativeAmounts DEF WellFormedTx
  <2>3. \A o \in tx.inputs : s.utxos[o] \in Int /\ u.utxos[o] \in Int
    BY <2>2 DEF Typed
  <2>4. PICK f, g, I : f = s.utxos /\ g = u.utxos /\ I = tx.inputs
    OBVIOUS
  <2>5. SumOver(f, I) = SumOver(g, I)
    BY <2>1, <2>2, <2>3, <2>4, SumEqual
  <2>6. Available(s, tx) = Available(u, tx)
    BY <2>4, <2>5 DEF Available
  <2>7. (Rejected(s, tx) <=> Rejected(u, tx)) /\ Paid(s, tx) = Paid(u, tx)
    BY <2>1, <2>6 DEF Rejected, Paid
  <2>8. NativeTransfer(s, r, tx) = NativeTransfer(u, r, tx)
    BY <2>7, NativeOutcome
  <2>. QED
    BY <1>1, <2>8 DEF StageTx
<1>2. ASSUME NEW p, NEW a, NEW amount, <<"token_balances", a>> \in Footprint(tx) \/ amount = 0
      PROVE  /\ DebitToken(s, p, a, amount) = DebitToken(u, p, a, amount)
             /\ CreditToken(s, p, a, amount) = CreditToken(u, p, a, amount)
  <2>1. amount = 0 \/ s.token_balances[a] = u.token_balances[a]
    BY <1>2 DEF Agree, StateTrees
  <2>. QED
    BY <2>1 DEF DebitToken, CreditToken
<1>3. CASE tx.type = "TokenTransfer"
  <2>1. PICK fee \in Nat : fee = (tx.amount * FeeBps) \div 10000
    <3>1. tx.amount \in Nat /\ FeeBps \in Nat
      BY <1>3, TxsAssumption DEF WellFormedTx
    <3>2. PICK m \in Nat : m = tx.amount * FeeBps
      BY <3>1
    <3>. QED
      BY <3>2
  <2>2. Footprint(tx) = {<<"token_nonces", tx.from>>} \cup
            {<<"token_balances", a>> : a \in {tx.from, tx.to} \cup (IF fee > 0 THEN {FeeSink} ELSE {})}
    BY <1>3, <2>1 DEF Footprint
  <2>3. /\ <<"token_balances", tx.from>> \in Footprint(tx)
        /\ <<"token_balances", tx.to>> \in Footprint(tx)
        /\ <<"token_balances", FeeSink>> \in Footprint(tx) \/ fee = 0
        /\ <<"token_nonces", tx.from>> \in Footprint(tx)
    BY <2>2
  <2>4. s.token_nonces[tx.from] = u.token_nonces[tx.from]
    BY <2>3 DEF Agree, StateTrees
  <2>5. TokenTransfer(s, r, tx) = TokenTransfer(u, r, tx)
    BY <1>2, <2>1, <2>3, <2>4 DEF TokenTransfer
  <2>. QED
    BY <1>3, <2>5 DEF StageTx
<1>4. CASE tx.type \in {"TokenMint", "WalletRegistration"}
  <2>1. Footprint(tx) = {<<"token_balances", tx.to>>, <<"token_supply", SOV>>}
    BY <1>4 DEF Footprint
  <2>2. s.token_supply[SOV] = u.token_supply[SOV]
    BY <2>1 DEF Agree, StateTrees
  <2>3. MintSov(s, r, tx.to, tx.amount) = MintSov(u, r, tx.to, tx.amount)
    BY <1>2, <2>1, <2>2 DEF MintSov
  <2>. QED
    BY <1>4, <2>3 DEF StageTx
<1>5. CASE tx.type \notin {"Transfer", "TokenTransfer", "TokenMint", "WalletRegistration"}
  BY <1>5 DEF StageTx
<1>. QED
  BY <1>1, <1>3, <1>4, <1>5

\* A batch writes entries of F only.
Within(r, F) == \A t \in StateTrees : \A k \in DOMAIN r.w[t] : <<t, k>> \in F

\* A write of an entry of F.
LEMMA PutWithin ==
  ASSUME NEW r, Batch(r), NEW F, Within(r, F), NEW tree \in StateTrees, NEW k, NEW v,
         <<tree, k>> \in F
  PROVE  Batch(Put(r, tree, k, v)) /\ Within(Put(r, tree, k, v), F)
<1>1. PICK p : p = Put(r, tree, k, v)
  OBVIOUS
<1>2. /\ Batch(p)
      /\ \A t \in StateTrees : p.w[t] = IF t = tree THEN Insert(r.w[tree], k, v) ELSE r.w[t]
  BY <1>1, PutShape
<1>3. DOMAIN Insert(r.w[tree], k, v) = DOMAIN r.w[tree] \cup {k}
  BY DEF Insert
<1>4. Within(p, F)
  BY <1>2, <1>3, Zenon DEF Within
<1>. QED
  BY <1>1, <1>2, <1>4

\* Writes of outputs of F.
LEMMA PutAllWithin ==
  ASSUME NEW r, Batch(r), NEW F, Within(r, F), NEW f, \A o \in DOMAIN f : <<"utxos", o>> \in F
  PROVE  Batch(PutAll(r, "utxos", f)) /\ Within(PutAll(r, "utxos", f), F)
<1>1. PICK p : p = PutAll(r, "utxos", f)
  OBVIOUS
<1>2. /\ Batch(p)
      /\ \A t \in StateTrees : p.w[t] = IF t = "utxos" THEN Join(r.w["utxos"], f) ELSE r.w[t]
  BY <1>1, PutAllShape
<1>3. DOMAIN Join(r.w["utxos"], f) = DOMAIN r.w["utxos"] \cup DOMAIN f
  BY DEF Join
<1>4. Within(p, F)
  BY <1>2, <1>3, Zenon DEF Within
<1>. QED
  BY <1>1, <1>2, <1>4

\* Debits, credits and mints of F.
LEMMA CreditWithin ==
  ASSUME NEW r, Batch(r), NEW F, Within(r, F), NEW s, NEW a, NEW amount,
         <<"token_balances", a>> \in F \/ amount = 0
  PROVE  /\ Batch(DebitToken(s, r, a, amount)) /\ Within(DebitToken(s, r, a, amount), F)
         /\ Batch(CreditToken(s, r, a, amount)) /\ Within(CreditToken(s, r, a, amount), F)
         /\ <<"token_supply", SOV>> \in F
              => Batch(MintSov(s, r, a, amount)) /\ Within(MintSov(s, r, a, amount), F)
<1>1. "token_balances" \in StateTrees /\ "token_supply" \in StateTrees
  BY DEF StateTrees
<1>2. Batch(Fail(r)) /\ Within(Fail(r), F)
  BY FailShape DEF Within
<1>3. Batch(CreditToken(s, r, a, amount)) /\ Within(CreditToken(s, r, a, amount), F)
  BY <1>1, PutWithin DEF CreditToken
<1>4. Batch(DebitToken(s, r, a, amount)) /\ Within(DebitToken(s, r, a, amount), F)
  BY <1>1, <1>2, PutWithin DEF DebitToken
<1>5. ASSUME <<"token_supply", SOV>> \in F
      PROVE  Batch(MintSov(s, r, a, amount)) /\ Within(MintSov(s, r, a, amount), F)
  BY <1>1, <1>3, <1>5, PutWithin DEF MintSov
<1>. QED
  BY <1>3, <1>4, <1>5

\* A transaction writes its footprint.
LEMMA StageTxWithin ==
  ASSUME NEW s, NEW r, Batch(r), NEW F, Within(r, F), NEW tx, WellFormedTx(tx), Footprint(tx) \subseteq F
  PROVE  Within(StageTx(s, r, tx), F)
<1>1. Batch(Fail(r)) /\ Within(Fail(r), F)
  BY FailShape DEF Within
<1>2. CASE tx.type = "Transfer"
  <2>1. \A o \in tx.inputs \cup Outputs(tx) : <<"utxos", o>> \in F
    BY <1>2 DEF Footprint
  <2>2. DOMAIN Spent(tx) = tx.inputs /\ DOMAIN Paid(s, tx) = Outputs(tx)
    <3>1. Outputs(tx) = {<<tx.id, i>> : i \in 0 .. tx.outputs - 1}
      BY <1>2 DEF Outputs, Coinbase
    <3>. QED
      BY <3>1 DEF Spent, Paid
  <2>3. PICK p : p = PutAll(PutAll(r, "utxos", Spent(tx)), "utxos", Paid(s, tx))
    OBVIOUS
  <2>4. Batch(p) /\ Within(p, F)
    BY <2>1, <2>2, <2>3, PutAllWithin
  <2>5. Within(CollectFee(p, tx.fee), F)
    BY <2>4, CollectShape, Zenon DEF Within
  <2>6. Within(NativeTransfer(s, r, tx), F)
    BY <1>1, <2>3, <2>5, NativeOutcome
  <2>. QED
    BY <1>2, <2>6 DEF StageTx
<1>3. CASE tx.type = "TokenTransfer"
  <2>1. PICK fee \in Nat : fee = (tx.amount * FeeBps) \div 10000
    <3>1. tx.amount \in Nat /\ FeeBps \in Nat
      BY <1>3, TxsAssumption DEF WellFormedTx
    <3>2. PICK m \in Nat : m = tx.amount * FeeBps
      BY <3>1
    <3>. QED
      BY <3>2
  <2>2. Footprint(tx) = {<<"token_nonces", tx.from>>} \cup
            {<<"token_balances", a>> : a \in {tx.from, tx.to} \cup (IF fee > 0 THEN {FeeSink} ELSE {})}
    BY <1>3, <2>1 DEF Footprint
  <2>3. /\ <<"token_balances", tx.from>> \in F
        /\ <<"token_balances", tx.to>> \in F
        /\ <<"token_balances", FeeSink>> \in F \/ fee = 0
        /\ <<"token_nonces", tx.from>> \in F /\ "token_nonces" \in StateTrees
    BY <2>2 DEF StateTrees
  <2>4. PICK p : p = CreditToken(s, CreditToken(s, DebitToken(s, r, tx.from, tx.amount),
                                                tx.to, tx.amount - fee), FeeSink, fee)
    OBVIOUS
  <2>5. Batch(p) /\ Within(p, F)
    BY <2>3, <2>4, CreditWithin
  <2>6. Within(Put(p, "token_nonces", tx.from, s.token_nonces[tx.from] + 1), F)
    BY <2>3, <2>5, PutWithin
  <2>7. Within(TokenTransfer(s, r, tx), F)
    BY <1>1, <2>1, <2>4, <2>6 DEF TokenTransfer
  <2>. QED
    BY <1>3, <2>7 DEF StageTx
<1>4. CASE tx.type \in {"TokenMint", "WalletRegistration"}
  <2>1. <<"token_balances", tx.to>> \in F /\ <<"token_supply", SOV>> \in F
    BY <1>4 DEF Footprint
  <2>2. Within(MintSov(s, r, tx.to, tx.amount), F)
    BY <2>1, CreditWithin
  <2>. QED
    BY <1>1, <1>4, <2>2 DEF StageTx
<1>5. CASE tx.type \notin {"Transfer", "TokenTransfer", "TokenMint", "WalletRegistration"}
  BY <1>5 DEF StageTx
<1>. QED
  BY <1>2, <1>3, <1>4, <1>5

\* The entries the first m of the transactions q read or write.
Used(q, m) == UNION {Footprint(q[i]) : i \in 1 .. m}

\* Numbers written over numbers.
LEMMA AfterTyped ==
  ASSUME NEW s, Typed(s), NEW r, BatchOK(r)
  PROVE  Typed(After(s, r))
<1>1. \A t \in StateTrees : After(s, r)[t] = ApplyBatch(s[t], r.w[t])
  BY DEF After
<1>2. ASSUME NEW t \in StateTrees, NEW D, s[t] \in [D -> Int]
      PROVE  ApplyBatch(s[t], r.w[t]) \in [D -> Int]
  BY <1>2 DEF ApplyBatch, BatchOK
<1>. QED
  BY <1>1, <1>2, SMTT(20) DEF Typed, StateTrees

\* A batch on top of another is written after it.
LEMMA AfterOnTop ==
  ASSUME NEW s, NEW q, NEW r, NEW e, OnTop(q, r, e)
  PROVE  After(After(s, r), e) = After(s, q)
<1>1. ASSUME NEW t \in StateTrees
      PROVE  ApplyBatch(ApplyBatch(s[t], r.w[t]), e.w[t]) = ApplyBatch(s[t], q.w[t])
  <2>1. /\ DOMAIN q.w[t] = DOMAIN r.w[t] \cup DOMAIN e.w[t]
        /\ \A k \in DOMAIN e.w[t] : q.w[t][k] = e.w[t][k]
        /\ \A k \in DOMAIN r.w[t] : k \notin DOMAIN e.w[t] => q.w[t][k] = r.w[t][k]
    BY DEF OnTop
  <2>2. PICK f, x, y, z : f = s[t] /\ x = q.w[t] /\ y = r.w[t] /\ z = e.w[t]
    OBVIOUS
  <2>3. ApplyBatch(ApplyBatch(f, y), z) = ApplyBatch(f, x)
    BY <2>1, <2>2 DEF ApplyBatch
  <2>. QED
    BY <2>2, <2>3
<1>. QED
  BY <1>1 DEF After

\* A footprint consists of entries of the trees.
LEMMA FootprintDomain ==
  ASSUME NEW s, Typed(s), NEW tx, WellFormedTx(tx), NEW t, NEW k, <<t, k>> \in Footprint(tx)
  PROVE  k \in DOMAIN s[t]
<1>1. /\ DOMAIN s["utxos"] = Outpoints /\ DOMAIN s["token_balances"] = Addresses
      /\ DOMAIN s["token_nonces"] = Addresses /\ DOMAIN s["token_supply"] = {SOV}
  BY DEF Typed
<1>2. CASE tx.type = "Transfer"
  <2>1. tx.inputs \cup Outputs(tx) \subseteq Outpoints
    BY <1>2 DEF WellFormedTx
  <2>2. t = "utxos" /\ k \in tx.inputs \cup Outputs(tx)
    BY <1>2 DEF Footprint
  <2>. QED
    BY <1>1, <2>1, <2>2
<1>3. CASE tx.type = "TokenTransfer"
  <2>1. tx.from \in Addresses /\ tx.to \in Addresses /\ FeeSink \in Addresses
    BY <1>3, TxsAssumption DEF WellFormedTx
  <2>2. /\ t \in {"token_nonces", "token_balances"}
        /\ k \in {tx.from, tx.to, FeeSink}
    BY <1>3 DEF Footprint
  <2>. QED
    BY <1>1, <2>1, <2>2
<1>4. CASE tx.type \in {"TokenMint", "WalletRegistration"}
  BY <1>1, <1>4 DEF Footprint, WellFormedTx
<1>5. CASE tx.type \notin {"Transfer", "TokenTransfer", "TokenMint", "WalletRegistration"}
  BY <1>5 DEF Footprint
<1>. QED
  BY <1>2, <1>3, <1>4, <1>5

\* Writes within the entries used before leave the footprint of the next transaction alone.
LEMMA UntouchedFootprint ==
  ASSUME NEW s, Typed(s), NEW r, NEW q, NEW m \in Nat, NEW n \in Nat, m + 1 <= n,
         DOMAIN q = 1..n, Disjoint(q), WellFormedTx(q[m + 1]), Within(r, Used(q, m))
  PROVE  Agree(s, After(s, r), q[m + 1])
<1>. SUFFICES ASSUME NEW t \in StateTrees, NEW k, <<t, k>> \in Footprint(q[m + 1])
              PROVE  s[t][k] = After(s, r)[t][k]
  BY DEF Agree
<1>1. k \notin DOMAIN r.w[t]
  <2>. SUFFICES ASSUME k \in DOMAIN r.w[t] PROVE FALSE
    OBVIOUS
  <2>1. <<t, k>> \in Used(q, m)
    BY DEF Within
  <2>2. PICK i \in 1..m : <<t, k>> \in Footprint(q[i])
    BY <2>1 DEF Used
  <2>3. i \in DOMAIN q /\ m + 1 \in DOMAIN q /\ i # m + 1
    OBVIOUS
  <2>4. Footprint(q[i]) \cap Footprint(q[m + 1]) = {}
    BY <2>3 DEF Disjoint
  <2>. QED
    BY <2>2, <2>4
<1>2. After(s, r)[t] = ApplyBatch(s[t], r.w[t])
  BY DEF After
<1>3. PICK f, w : f = s[t] /\ w = r.w[t]
  OBVIOUS
<1>4. k \in DOMAIN f
  BY <1>3, FootprintDomain
<1>5. ApplyBatch(f, w)[k] = f[k]
  BY <1>1, <1>3, <1>4 DEF ApplyBatch
<1>. QED
  BY <1>2, <1>3, <1>5

\* Staging the transactions of a block over the committed trees is executing them one by
\* one, when they use different entries.
LEMMA StagedSequential ==
  ASSUME NEW s, Typed(s), NEW b \in Blocks, Disjoint(b.txs)
  PROVE  /\ StageTxs(s, b.txs).ok = OneByOne(s, b.txs).ok
         /\ OneByOne(s, b.txs).ok => After(s, StageTxs(s, b.txs)) = OneByOne(s, b.txs).s
<1>0. PICK q : q = b.txs
  OBVIOUS
<1>1. PICK n \in Nat : n = Len(b.txs) /\ q = b.txs
  BY <1>0, TxsAssumption
<1>2. DOMAIN q = 1..n /\ (\A i \in 1..n : WellFormedTx(q[i])) /\ Disjoint(q)
  BY <1>1, TxsAssumption
<1>3. PICK T : Course(T, Over(s), Staging, q, n) /\ T[n] = StageTxs(s, q)
  BY <1>2, StageCourse
<1>4. PICK U : /\ Course(U, Stepping, [ok |-> TRUE, s |-> [t \in StateTrees |-> s[t]]], q, n)
               /\ U[n] = OneByOne(s, q)
  BY <1>2, OneCourse, Zenon
<1>. DEFINE Matches(m) ==
       /\ BatchOK(T[m])
       /\ U[m].ok = T[m].ok
       /\ T[m].ok => U[m].s = After(s, T[m]) /\ Within(T[m], Used(q, m))
     Good == {m \in Nat : m <= n => Matches(m)}
<1>5. 0 \in Good
  <2>1. T[0] = Staging /\ U[0] = [ok |-> TRUE, s |-> [t \in StateTrees |-> s[t]]]
    BY <1>3, <1>4 DEF Course
  <2>2. \A t \in StateTrees : DOMAIN Staging.w[t] = {}
    BY DEF Staging
  <2>3. ASSUME NEW t \in StateTrees PROVE ApplyBatch(s[t], Staging.w[t]) = s[t]
    <3>1. PICK f, w : f = s[t] /\ w = Staging.w[t]
      OBVIOUS
    <3>2. f = [k \in DOMAIN f |-> f[k]]
      BY <3>1 DEF Typed, StateTrees
    <3>3. ApplyBatch(f, w) = f
      BY <2>2, <3>1, <3>2 DEF ApplyBatch
    <3>. QED
      BY <3>1, <3>3
  <2>4. After(s, Staging) = [t \in StateTrees |-> s[t]]
    BY <2>3 DEF After
  <2>5. Within(Staging, Used(q, 0))
    BY <2>2 DEF Within
  <2>6. U[0].ok = TRUE /\ U[0].s = After(s, T[0])
    BY <2>1, <2>4
  <2>7. BatchOK(T[0]) /\ T[0].ok = TRUE /\ Within(T[0], Used(q, 0))
    BY <2>1, <2>5, StagingOK DEF BatchOK, Batch
  <2>8. Matches(0)
    BY <2>6, <2>7, Zenon
  <2>. QED
    BY <2>8
<1>6. ASSUME NEW m \in Nat, m \in Good PROVE m + 1 \in Good
  <2>. SUFFICES ASSUME m + 1 <= n PROVE Matches(m + 1)
    OBVIOUS
  <2>1. m + 1 \in 1..n /\ (m + 1) - 1 = m /\ m <= n
    OBVIOUS
  <2>2. Matches(m)
    BY <1>6, <2>1
  <2>3. PICK r, p, tx : r = T[m] /\ p = U[m] /\ tx = q[m + 1]
    OBVIOUS
  <2>4. T[m + 1] = FoldStep(Over(s), r, tx) /\ U[m + 1] = FoldStep(Stepping, p, tx)
    BY <1>3, <1>4, <2>1, <2>3 DEF Course
  <2>5. T[m + 1] = StageTx(s, r, tx) /\ U[m + 1] = OneStep(p, tx)
    BY <2>4 DEF FoldStep, Over, Stepping
  <2>6. WellFormedTx(tx) /\ BatchOK(r) /\ p.ok = r.ok
    BY <1>2, <2>1, <2>2, <2>3
  <2>7. BatchOK(T[m + 1])
    BY <2>5, <2>6, StageTxOK
  <2>8. U[m + 1].ok = (p.ok /\ StageTx(p.s, Staging, tx).ok)
        /\ U[m + 1].s = After(p.s, StageTx(p.s, Staging, tx))
    BY <2>5 DEF OneStep
  <2>9. CASE ~ r.ok
    <3>1. ~ T[m + 1].ok
      BY <2>5, <2>9 DEF StageTx
    <3>2. U[m + 1].ok = FALSE /\ T[m + 1].ok = FALSE
      BY <2>6, <2>7, <2>8, <2>9, <3>1 DEF BatchOK, Batch
    <3>. QED
      BY <2>7, <3>2, Zenon
  <2>10. CASE r.ok
    <3>1. p.s = After(s, r) /\ Within(r, Used(q, m))
      BY <2>2, <2>3, <2>10
    <3>2. PICK e : e = StageTx(s, Staging, tx)
      OBVIOUS
    <3>3. Agree(s, p.s, tx) /\ Typed(p.s)
      BY <1>2, <2>3, <2>6, <3>1, UntouchedFootprint, AfterTyped
    <3>4. StageTx(p.s, Staging, tx) = e
      BY <2>6, <3>2, <3>3, StageTxAgrees
    <3>5. OnTop(T[m + 1], r, e)
      BY <2>5, <2>6, <2>10, <3>2, StageTxOnTop DEF BatchOK
    <3>6. U[m + 1].s = After(s, T[m + 1])
      BY <2>8, <3>1, <3>4, <3>5, AfterOnTop
    <3>7. e.ok \in BOOLEAN /\ T[m + 1].ok \in BOOLEAN /\ (T[m + 1].ok <=> e.ok)
      BY <3>5 DEF OnTop, Batch
    <3>8. U[m + 1].ok = T[m + 1].ok
      BY <2>6, <2>8, <2>10, <3>4, <3>7
    <3>9. Used(q, m) \subseteq Used(q, m + 1) /\ Footprint(tx) \subseteq Used(q, m + 1)
      BY <2>3 DEF Used
    <3>10. Within(T[m + 1], Used(q, m + 1))
      <4>1. Within(r, Used(q, m + 1)) /\ Batch(r)
        BY <2>6, <3>1, <3>9 DEF Within, BatchOK
      <4>. QED
        BY <2>5, <2>6, <3>9, <4>1, StageTxWithin
    <3>. QED
      BY <2>7, <3>6, <3>8, <3>10
  <2>. QED
    BY <2>9, <2>10
<1>7. n \in Good
  <2>. HIDE DEF Good
  <2>. QED
    BY <1>5, <1>6, SetNatInduction
<1>8. Matches(n)
  BY <1>7
<1>. QED
  BY <1>1, <1>3, <1>4, <1>8
=============================================================================
