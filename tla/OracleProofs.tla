---------------------------- MODULE OracleProofs ----------------------------
(***************************************************************************)
(* For any number of nodes, any chain and any order, loss and repetition   *)
(* of messages, signed or not: every slash has its cause, no finalized     *)
(* price changes, and, on chains in the order of their timestamps, only    *)
(* the committee's votes count and nodes that slash nobody agree on        *)
(* prices.                                                                 *)
(*                                                                         *)
(* A block is a fold over its attestations; the fold is opened once, in    *)
(* the lemmas on tables, and used through its course, the sequence of      *)
(* nodes it passes through.                                                *)
(***************************************************************************)
EXTENDS Oracle, FiniteSetTheorems, WellFoundedInduction, TLAPS

\* A set of numbers that is not empty has a least one.
LEMMA LeastNumber ==
  ASSUME NEW T \in SUBSET Nat, T # {}
  PROVE  \E i \in T : \A j \in T : i <= j
<1>. DEFINE R == OpToRel(<, Nat)
<1>1. IsWellFoundedOn(R, Nat)
  BY NatLessThanWellFounded, Zenon
<1>2. PICK i \in T : \A j \in T : ~(<<j, i>> \in R)
  BY <1>1, WFMin, Zenon
<1>3. ASSUME NEW j \in T PROVE i <= j
  <2>1. j < i => <<j, i>> \in R
    BY DEF OpToRel
  <2>. HIDE DEF R
  <2>2. ~(j < i)
    BY <1>2, <2>1
  <2>3. i \in Nat /\ j \in Nat
    OBVIOUS
  <2>. QED
    BY <2>2, <2>3
<1>. QED
  BY <1>3

\* Induction over the natural numbers.
LEMMA NumberInduction ==
  ASSUME NEW Good, 0 \in Good, \A n \in Nat : n \in Good => n + 1 \in Good
  PROVE  \A n \in Nat : n \in Good
<1>. DEFINE Bad == {n \in Nat : n \notin Good}
<1>1. SUFFICES ASSUME Bad # {} PROVE FALSE
  OBVIOUS
<1>2. Bad \in SUBSET Nat
  OBVIOUS
<1>3. \E i \in Bad : \A j \in Bad : i <= j
  <2>. HIDE DEF Bad
  <2>. QED
    BY <1>1, <1>2, LeastNumber
<1>4. PICK i \in Bad : \A j \in Bad : i <= j
  BY <1>3
<1>5. i \in Nat /\ i # 0 /\ i - 1 \in Nat /\ (i - 1) + 1 = i
  OBVIOUS
<1>6. i - 1 \in Good
  BY <1>4, <1>5
<1>. QED
  BY <1>5, <1>6

\* The greatest of some numbers up to n.
LEMMA GreatestNumber ==
  ASSUME NEW n \in Nat, NEW s \in SUBSET (1..n), s # {}
  PROVE  /\ Max(s) \in s /\ s \ {Max(s)} \in SUBSET (1..(Max(s) - 1))
         /\ Max(s) \in Nat /\ Max(s) <= n /\ Max(s) - 1 \in Nat
<1>. DEFINE T == {n - i : i \in s}
<1>1. T \in SUBSET Nat /\ T # {}
  OBVIOUS
<1>. HIDE DEF T
<1>2. PICK j \in T : \A k \in T : j <= k
  BY <1>1, LeastNumber
<1>3. PICK m \in s : j = n - m
  BY DEF T
<1>4. \A i \in s : m >= i
  <2>. SUFFICES ASSUME NEW i \in s PROVE m >= i
    OBVIOUS
  <2>1. n - m <= n - i
    BY <1>2, <1>3, Zenon DEF T
  <2>. QED
    BY <2>1
<1>5. Max(s) \in s /\ \A i \in s : Max(s) >= i
  BY <1>4, Zenon DEF Max
<1>6. PICK g \in s : g = Max(s)
  BY <1>5, Zenon
<1>7. g \in Nat /\ g <= n /\ g - 1 \in Nat
  OBVIOUS
<1>8. s \ {g} \in SUBSET (1..(g - 1))
  <2>. SUFFICES ASSUME NEW i \in s \ {g} PROVE i \in 1..(g - 1)
    OBVIOUS
  <2>1. i \in Nat /\ 1 <= i /\ i <= g /\ i # g
    BY <1>5, <1>6
  <2>. QED
    BY <1>7, <2>1
<1>. QED
  BY <1>6, <1>7, <1>8

---------------------------------------------------------------------------
(* The attestations of a block *)

\* The reasons for which a validator is slashed, and those of a block.
Reasons == {"conflicting_signer", "deviation_band"}

InBlock == {"conflicting_signer"}

\* The node x after the attestations q of a block, in epoch e.
Attested(x, q, e) == FoldLeft(LAMBDA y, a : Attest(y, a, e, InBlock), x, q)

\* The entry for the positions s of a table g of nodes.
Entry(g, x, q, e, s) == IF s = {} THEN x ELSE Attest(g[s \ {Max(s)}], q[Max(s)], e, InBlock)

\* g tabulates the node after the attestations at the positions in each set of D.
Tabulates(g, x, q, e, D) == g = [s \in D |-> Entry(g, x, q, e, s)]

\* FoldLeft looks its value up in such a table.
LEMMA FoldIsTabulated ==
  ASSUME NEW x, NEW q, NEW e
  PROVE  Attested(x, q, e) = (CHOOSE g : Tabulates(g, x, q, e, SUBSET DOMAIN q))[DOMAIN q]
BY DEF Attested, FoldLeft, MapThenFoldSet, Tabulates, Entry

\* The entries of a table.
LEMMA TabulatedValue ==
  ASSUME NEW g, NEW x, NEW q, NEW e, NEW n, Tabulates(g, x, q, e, SUBSET (1..n)),
         NEW s, s \in SUBSET (1..n)
  PROVE  g[s] = Entry(g, x, q, e, s)
BY DEF Tabulates

\* The positions of a sequence.
LEMMA Positions ==
  ASSUME NEW C, NEW q \in Seq(C)
  PROVE  Len(q) \in Nat /\ DOMAIN q = 1..Len(q)
OBVIOUS

\* Such a table exists.
LEMMA TableExists ==
  ASSUME NEW x, NEW q, NEW e, NEW n \in Nat
  PROVE  \E g : Tabulates(g, x, q, e, SUBSET (1..n))
<1>. DEFINE Good == {m \in Nat : \E g : Tabulates(g, x, q, e, SUBSET (1..m))}
<1>1. 0 \in Good
  <2>1. SUBSET (1..0) = {{}}
    OBVIOUS
  <2>2. Tabulates([s \in {{}} |-> x], x, q, e, {{}})
    BY DEF Tabulates, Entry
  <2>. QED
    BY <2>1, <2>2, Zenon
<1>2. ASSUME NEW m \in Nat, m \in Good PROVE m + 1 \in Good
  <2>1. PICK g : Tabulates(g, x, q, e, SUBSET (1..m))
    BY <1>2, Zenon
  <2>. DEFINE h == [s \in SUBSET (1..(m + 1)) |-> Entry(g, x, q, e, s)]
  <2>2. ASSUME NEW s \in SUBSET (1..(m + 1)), s # {} PROVE s \ {Max(s)} \in SUBSET (1..m)
    <3>1. m + 1 \in Nat
      OBVIOUS
    <3>2. /\ s \ {Max(s)} \in SUBSET (1..(Max(s) - 1))
          /\ Max(s) \in Nat /\ Max(s) <= m + 1
      BY <2>2, <3>1, GreatestNumber
    <3>3. 1..(Max(s) - 1) \subseteq 1..m
      BY <3>2
    <3>. QED
      BY <3>2, <3>3
  <2>3. \A s \in SUBSET (1..m) : s \in SUBSET (1..(m + 1))
    OBVIOUS
  <2>4. ASSUME NEW s \in SUBSET (1..m) PROVE h[s] = g[s]
    <3>1. h[s] = Entry(g, x, q, e, s)
      BY <2>3
    <3>2. g[s] = Entry(g, x, q, e, s)
      BY <2>1, TabulatedValue, Zenon
    <3>. QED
      BY <3>1, <3>2
  <2>5. ASSUME NEW s \in SUBSET (1..(m + 1)) PROVE h[s] = Entry(h, x, q, e, s)
    <3>1. h[s] = Entry(g, x, q, e, s)
      OBVIOUS
    <3>. HIDE DEF h
    <3>. QED
      BY <2>2, <2>4, <3>1 DEF Entry
  <2>6. h = [s \in SUBSET (1..(m + 1)) |-> Entry(h, x, q, e, s)]
    <3>1. h = [s \in SUBSET (1..(m + 1)) |-> h[s]]
      OBVIOUS
    <3>. HIDE DEF h
    <3>. QED
      BY <2>5, <3>1, Zenon
  <2>7. Tabulates(h, x, q, e, SUBSET (1..(m + 1)))
    BY <2>6, Zenon DEF Tabulates
  <2>8. m + 1 \in Nat
    OBVIOUS
  <2>. HIDE DEF h
  <2>. QED
    BY <2>7, <2>8
<1>. HIDE DEF Good
<1>3. \A m \in Nat : m \in Good
  BY <1>1, <1>2, NumberInduction
<1>. QED
  BY <1>3, Zenon DEF Good

\* What holds of a node, and stays true with each attestation of the block, holds after
\* the block: here for a set Good of nodes.
LEMMA AttestationInduction ==
  ASSUME NEW C, NEW q \in Seq(C), NEW e, NEW Good, NEW x \in Good,
         \A y \in Good : \A i \in DOMAIN q : Attest(y, q[i], e, InBlock) \in Good
  PROVE  Attested(x, q, e) \in Good
<1>0. Len(q) \in Nat /\ DOMAIN q = 1..Len(q)
  BY Positions
<1>1. PICK n \in Nat : n = Len(q) /\ DOMAIN q = 1..n
  BY <1>0, Zenon
<1>2. \E g : Tabulates(g, x, q, e, SUBSET (1..n))
  BY TableExists, Zenon
<1>3. PICK g : Tabulates(g, x, q, e, SUBSET (1..n)) /\ Attested(x, q, e) = g[1..n]
  <2>1. Attested(x, q, e) = (CHOOSE g : Tabulates(g, x, q, e, SUBSET (1..n)))[1..n]
    BY <1>1, FoldIsTabulated, Zenon
  <2>2. Tabulates(CHOOSE g : Tabulates(g, x, q, e, SUBSET (1..n)), x, q, e, SUBSET (1..n))
    BY <1>2, Zenon
  <2>. QED
    BY <2>1, <2>2, Zenon
<1>a. \A s \in SUBSET (1..n) : g[s] = Entry(g, x, q, e, s)
  <2>1. Tabulates(g, x, q, e, SUBSET (1..n))
    BY <1>3, Zenon
  <2>. QED
    BY <2>1 DEF Tabulates
<1>. DEFINE Ok == {m \in Nat : m <= n => \A s \in SUBSET (1..m) : g[s] \in Good}
<1>4. 0 \in Ok
  <2>1. \A s \in SUBSET (1..0) : s = {} /\ s \in SUBSET (1..n)
    OBVIOUS
  <2>2. \A s \in SUBSET (1..0) : g[s] = x
    BY <1>a, <2>1, Zenon DEF Entry
  <2>. QED
    BY <2>2
<1>5. ASSUME NEW m \in Nat, m \in Ok PROVE m + 1 \in Ok
  <2>0. m + 1 \in Nat
    OBVIOUS
  <2>. SUFFICES ASSUME m + 1 <= n, NEW s \in SUBSET (1..(m + 1)) PROVE g[s] \in Good
    BY <2>0
  <2>1. s \in SUBSET (1..n) /\ m + 1 \in Nat /\ m <= n
    OBVIOUS
  <2>2. CASE s = {}
    <3>1. g[s] = Entry(g, x, q, e, s)
      BY <1>a, <2>1
    <3>. QED
      BY <2>2, <3>1 DEF Entry
  <2>3. CASE s # {}
    <3>1. /\ Max(s) \in s /\ s \ {Max(s)} \in SUBSET (1..(Max(s) - 1))
          /\ Max(s) \in Nat /\ Max(s) <= m + 1
      BY <2>1, <2>3, GreatestNumber
    <3>2. s \ {Max(s)} \in SUBSET (1..m) /\ Max(s) \in DOMAIN q
      <4>1. 1..(Max(s) - 1) \subseteq 1..m
        BY <3>1
      <4>. QED
        BY <1>1, <2>1, <3>1, <4>1
    <3>3. g[s \ {Max(s)}] \in Good
      BY <1>5, <2>1, <3>2
    <3>4. g[s] = Attest(g[s \ {Max(s)}], q[Max(s)], e, InBlock)
      <4>1. g[s] = Entry(g, x, q, e, s)
        BY <1>a, <2>1
      <4>. QED
        BY <2>3, <4>1, Zenon DEF Entry
    <3>. QED
      BY <3>2, <3>3, <3>4
  <2>. QED
    BY <2>2, <2>3
<1>. HIDE DEF Ok
<1>6. n \in Ok
  BY <1>4, <1>5, NumberInduction
<1>7. 1..n \in SUBSET (1..n) /\ n <= n
  OBVIOUS
<1>. QED
  BY <1>3, <1>6, <1>7 DEF Ok

---------------------------------------------------------------------------
(* The states of a node *)

PriceRecord == [sov : Prices \cup {NoPrice}, cbe : CbePrices \cup {NoPrice}]

EpochState ==
    [sov : [Validators -> Prices \cup {NoPrice}],
     cbe : [Validators -> CbePrices \cup {NoPrice}],
     cbeSigners : SUBSET (CbePrices \X Validators),
     winningCbe : CbePrices \cup {NoPrice}]

CommitteeUpdate == [activate : Nat, members : SUBSET Validators]

ConfigUpdate == [activate : Nat, duration : Nat \ {0}]

OracleState ==
    [duration : Nat \ {0}, members : SUBSET Validators,
     pending : CommitteeUpdate \cup {NoUpdate}, pendingConfig : ConfigUpdate \cup {NoUpdate},
     activation : Nat \cup {NoUpdate}, strict : BOOLEAN,
     prices : [Epochs -> PriceRecord], votes : [Epochs -> EpochState]]

NodeState ==
    [height : Nat, last : Nat, oracle : OracleState, slashed : SUBSET (Validators \X Reasons),
     consumer : BOOLEAN, producer : Epochs \cup {NoEpoch}, restarted : BOOLEAN]

\* The parts of an attestation.
LEMMA AttestationParts ==
  ASSUME NEW a \in Sendable
  PROVE  /\ a.signer \in Validators /\ a.epoch \in Epochs /\ a.sov \in Prices
         /\ a.cbe \in CbePrices \cup {NoPrice}
BY DEF Sendable

\* The states of a fresh node and of a restarted one.
LEMMA FreshNodeType ==
  ASSUME NEW h \in Nat, NEW r \in BOOLEAN
  PROVE  /\ FreshNode \in NodeState
         /\ [FreshNode EXCEPT !.height = h, !.restarted = r] \in NodeState
<1>1. NoVotes \in EpochState
  BY DEF NoVotes, EpochState
<1>2. [e \in Epochs |-> [sov |-> NoPrice, cbe |-> NoPrice]] \in [Epochs -> PriceRecord]
  BY DEF PriceRecord
<1>3. [e \in Epochs |-> NoVotes] \in [Epochs -> EpochState]
  BY <1>1
<1>4. Bootstrap \in OracleState
  BY <1>2, <1>3, OracleAssumption DEF Bootstrap, OracleState
<1>5. FreshNode \in NodeState
  BY <1>4 DEF FreshNode, NodeState
<1>6. [FreshNode EXCEPT !.height = h, !.restarted = r] \in NodeState
  BY <1>5, Zenon DEF NodeState
<1>. QED
  BY <1>5, <1>6

---------------------------------------------------------------------------
(* Counting one attestation *)

\* The state o with the votes V and the finalized record P in epoch e.
Counting(o, e, V, P) ==
    [o EXCEPT !.votes = [@ EXCEPT ![e] = V], !.prices = [@ EXCEPT ![e] = P]]

\* The node y with them.
CountedIn(y, e, V, P) == [y EXCEPT !.oracle = Counting(y.oracle, e, V, P)]

\* V and P are what counting the attestation a in epoch e leads to.
CountedAs(o, a, e, V, P) ==
    /\ Count(o, a, e) = Counting(o, e, V, P)
    /\ V.sov = IF Finalized(o, e) THEN o.votes[e].sov
               ELSE [o.votes[e].sov EXCEPT ![a.signer] = a.sov]
    /\ o.votes[e].winningCbe # NoPrice => V.winningCbe = o.votes[e].winningCbe
    /\ \/ /\ ~ Finalized(o, e)
          /\ Cardinality({v \in Validators : V.sov[v] = a.sov}) >= threshold(o.members)
          /\ P = [sov |-> a.sov, cbe |-> V.winningCbe]
       \/ /\ Finalized(o, e) /\ o.votes[e].winningCbe = NoPrice
          /\ P.sov = o.prices[e].sov /\ P.cbe = V.winningCbe
       \/ P = o.prices[e]

\* The votes of the epoch once an accepted attestation is counted.
LEMMA CountedVotes ==
  ASSUME NEW o \in OracleState, NEW a \in Sendable, NEW e \in Epochs
  PROVE  \E V \in EpochState, P \in PriceRecord : CountedAs(o, a, e, V, P)
<1>0. /\ a.signer \in Validators /\ a.epoch \in Epochs /\ a.sov \in Prices
      /\ a.cbe \in CbePrices \cup {NoPrice}
  BY AttestationParts
<1>. DEFINE votes   == o.votes[e]
            done    == Finalized(o, e)
            needed  == threshold(o.members)
            hasCbe  == a.cbe # NoPrice
            sov     == IF done THEN votes.sov ELSE [votes.sov EXCEPT ![a.signer] = a.sov]
            cbe     == IF hasCbe THEN [votes.cbe EXCEPT ![a.signer] = a.cbe] ELSE votes.cbe
            pairs   == votes.cbeSigners \cup (IF hasCbe THEN {<<a.cbe, a.signer>>} ELSE {})
            cbeWins == /\ hasCbe /\ votes.winningCbe = NoPrice
                       /\ Cardinality({v \in Validators : <<a.cbe, v>> \in pairs}) >= needed
            winning == IF cbeWins THEN a.cbe ELSE votes.winningCbe
            sovWins == ~ done /\ Cardinality({v \in Validators : sov[v] = a.sov}) >= needed
            V == [sov |-> sov, cbe |-> cbe, cbeSigners |-> pairs, winningCbe |-> winning]
            P == Recorded(o.prices[e], a.sov, sovWins, cbeWins, winning)
<1>1. /\ votes \in EpochState /\ o.prices[e] \in PriceRecord
      /\ o.votes \in [Epochs -> EpochState] /\ o.prices \in [Epochs -> PriceRecord]
  BY DEF OracleState
<1>2. /\ votes.sov \in [Validators -> Prices \cup {NoPrice}]
      /\ votes.cbe \in [Validators -> CbePrices \cup {NoPrice}]
      /\ votes.cbeSigners \in SUBSET (CbePrices \X Validators)
      /\ votes.winningCbe \in CbePrices \cup {NoPrice}
  BY <1>1 DEF EpochState
<1>. HIDE DEF votes
<1>3. sov \in [Validators -> Prices \cup {NoPrice}]
  BY <1>0, <1>2
<1>4. cbe \in [Validators -> CbePrices \cup {NoPrice}]
  BY <1>0, <1>2
<1>5. pairs \in SUBSET (CbePrices \X Validators)
  BY <1>0, <1>2
<1>6. winning \in CbePrices \cup {NoPrice}
  BY <1>0, <1>2
<1>7. Count(o, a, e) = [o EXCEPT !.votes[e] = V, !.prices[e] = P]
  BY DEF Count, votes
<1>. HIDE DEF sov, cbe, pairs, winning, cbeWins, sovWins, done
<1>8. V \in EpochState
  BY <1>3, <1>4, <1>5, <1>6 DEF EpochState
<1>9. P \in PriceRecord
  BY <1>0, <1>1, <1>6 DEF Recorded, PriceRecord
<1>. HIDE DEF V, P
<1>10. Count(o, a, e) = Counting(o, e, V, P)
  BY <1>7, <1>1 DEF OracleState, Counting
<1>11. V.sov = IF Finalized(o, e) THEN o.votes[e].sov
               ELSE [o.votes[e].sov EXCEPT ![a.signer] = a.sov]
  BY DEF V, sov, votes, done
<1>12. V.sov = sov /\ V.winningCbe = winning
  BY DEF V
<1>13. votes.winningCbe # NoPrice => winning = votes.winningCbe
  BY DEF winning, cbeWins
<1>14. \/ sovWins /\ P = [sov |-> a.sov, cbe |-> winning]
       \/ /\ ~ sovWins /\ o.prices[e].sov # NoPrice /\ cbeWins
          /\ P.sov = o.prices[e].sov /\ P.cbe = winning
       \/ P = o.prices[e]
  BY <1>1 DEF P, Recorded, PriceRecord
<1>15. /\ sovWins => /\ ~ Finalized(o, e)
                     /\ Cardinality({v \in Validators : sov[v] = a.sov}) >= threshold(o.members)
       /\ cbeWins => votes.winningCbe = NoPrice
  BY DEF sovWins, cbeWins, done
<1>16. o.prices[e].sov # NoPrice <=> Finalized(o, e)
  BY DEF Finalized
<1>. QED
  <2>1. \/ /\ ~ Finalized(o, e)
           /\ Cardinality({v \in Validators : V.sov[v] = a.sov}) >= threshold(o.members)
           /\ P = [sov |-> a.sov, cbe |-> V.winningCbe]
        \/ /\ Finalized(o, e) /\ votes.winningCbe = NoPrice
           /\ P.sov = o.prices[e].sov /\ P.cbe = V.winningCbe
        \/ P = o.prices[e]
    BY <1>12, <1>14, <1>15, <1>16
  <2>2. votes.winningCbe # NoPrice => V.winningCbe = votes.winningCbe
    BY <1>12, <1>13
  <2>3. votes = o.votes[e]
    BY DEF votes
  <2>. QED
    BY <1>8, <1>9, <1>10, <1>11, <2>1, <2>2, <2>3, Zenon DEF CountedAs

\* What an attestation does to a node: nothing, or its signer is slashed for a second price
\* in the running epoch or, in the strict protocol, for a price outside the band, or it is
\* counted in that epoch.
LEMMA AttestCases ==
  ASSUME NEW y \in NodeState, NEW a \in Sendable, NEW e, NEW R \in SUBSET Reasons
  PROVE  \/ Attest(y, a, e, R) = y
         \/ /\ a.epoch = e /\ e \in Epochs
            /\ y.oracle.votes[e].sov[a.signer] \notin {NoPrice, a.sov}
            /\ Attest(y, a, e, R) = slash_oracle_validator(y, a.signer, "conflicting_signer")
         \/ /\ a.epoch = e /\ e \in Epochs /\ y.oracle.strict
            /\ Attest(y, a, e, R) = slash_oracle_validator(y, a.signer, "deviation_band")
         \/ /\ a.epoch = e /\ e \in Epochs
            /\ Attest(y, a, e, R) = [y EXCEPT !.oracle = Count(y.oracle, a, e)]
            /\ \/ Finalized(y.oracle, e)
               \/ y.oracle.votes[e].sov[a.signer] = a.sov
               \/ a.signer \in y.oracle.members /\ a.signed
<1>. DEFINE c == precheck_attestation(y.oracle, a, e)
<1>1. a.epoch \in Epochs
  BY AttestationParts
<1>2. CASE c = "conflicting_signer" /\ c \in R
  <2>1. /\ a.epoch = e
        /\ y.oracle.votes[e].sov[a.signer] # NoPrice
        /\ y.oracle.votes[e].sov[a.signer] # a.sov
    BY <1>2 DEF precheck_attestation
  <2>2. Attest(y, a, e, R) = slash_oracle_validator(y, a.signer, "conflicting_signer")
    BY <1>2 DEF Attest
  <2>. QED
    BY <1>1, <2>1, <2>2
<1>3. CASE c = "deviation_band" /\ c \in R
  <2>1. a.epoch = e /\ y.oracle.strict
    BY <1>3 DEF precheck_attestation
  <2>2. Attest(y, a, e, R) = slash_oracle_validator(y, a.signer, "deviation_band")
    BY <1>3 DEF Attest
  <2>. QED
    BY <1>1, <2>1, <2>2
<1>4. CASE c = "accepted" /\ c \notin R
  <2>1. Attest(y, a, e, R) = [y EXCEPT !.oracle = Count(y.oracle, a, e)]
    BY <1>4 DEF Attest, process_attestation
  <2>2. /\ a.epoch = e
        /\ \/ Finalized(y.oracle, e)
           \/ y.oracle.votes[e].sov[a.signer] = a.sov
           \/ a.signer \in y.oracle.members /\ a.signed
    BY <1>4 DEF precheck_attestation, validate_attestation
  <2>. QED
    BY <1>1, <2>1, <2>2
<1>5. CASE c # "accepted" /\ c \notin R
  <2>1. Attest(y, a, e, R) = [y EXCEPT !.oracle = y.oracle]
    BY <1>5 DEF Attest, process_attestation
  <2>2. [y EXCEPT !.oracle = y.oracle] = y
    BY DEF NodeState
  <2>. QED
    BY <2>1, <2>2
<1>6. c \in R => c \in {"conflicting_signer", "deviation_band"}
  BY Zenon DEF Reasons
<1>. HIDE DEF c
<1>. QED
  BY <1>2, <1>3, <1>4, <1>5, <1>6

\* What an attestation never changes.
Steady(o, p) ==
    /\ p.duration = o.duration /\ p.pending = o.pending /\ p.pendingConfig = o.pendingConfig
    /\ p.activation = o.activation /\ p.strict = o.strict

\* The node after a slashing.
LEMMA SlashedNode ==
  ASSUME NEW y \in NodeState, NEW v \in Validators, NEW r \in Reasons
  PROVE  LET z == slash_oracle_validator(y, v, r)
         IN  /\ z \in NodeState
             /\ z.oracle \in OracleState
             /\ z.height = y.height /\ z.last = y.last /\ z.restarted = y.restarted
             /\ z.slashed = y.slashed \cup {<<v, r>>}
             /\ Banned(z) = Banned(y) \cup {v}
             /\ z.oracle.members = y.oracle.members \ {v}
             /\ Steady(y.oracle, z.oracle)
             /\ z.oracle.votes = y.oracle.votes /\ z.oracle.prices = y.oracle.prices
<1>1. y.oracle \in OracleState
  BY DEF NodeState
<1>2. [y.oracle EXCEPT !.members = @ \ {v}] \in OracleState
  BY <1>1 DEF OracleState
<1>3. slash_oracle_validator(y, v, r)
        = [y EXCEPT !.oracle = [y.oracle EXCEPT !.members = @ \ {v}],
                    !.slashed = y.slashed \cup {<<v, r>>}]
  BY DEF slash_oracle_validator, NodeState
<1>. DEFINE z == slash_oracle_validator(y, v, r)
<1>4. /\ z.oracle = [y.oracle EXCEPT !.members = @ \ {v}]
      /\ z.height = y.height /\ z.last = y.last /\ z.restarted = y.restarted
      /\ z.slashed = y.slashed \cup {<<v, r>>}
  BY <1>3 DEF NodeState
<1>5. z \in NodeState
  <2>1. y.slashed \cup {<<v, r>>} \in SUBSET (Validators \X Reasons)
    BY DEF NodeState
  <2>. QED
    BY <1>2, <1>3, <2>1, Zenon DEF NodeState
<1>. HIDE DEF z
<1>6. /\ z.oracle.members = y.oracle.members \ {v}
      /\ z.oracle.votes = y.oracle.votes /\ z.oracle.prices = y.oracle.prices
      /\ Steady(y.oracle, z.oracle)
  BY <1>1, <1>4 DEF OracleState, Steady
<1>7. Banned(z) = Banned(y) \cup {v}
  <2>1. <<v, r>>[1] = v
    OBVIOUS
  <2>. QED
    BY <1>4, <2>1, Zenon DEF Banned
<1>. QED
  BY <1>2, <1>4, <1>5, <1>6, <1>7 DEF z

\* z is y with the votes V and the record P in epoch e.
DiffersBy(z, y, e, V, P) ==
    /\ z \in NodeState
    /\ z.height = y.height /\ z.last = y.last /\ z.restarted = y.restarted
    /\ z.slashed = y.slashed /\ z.oracle.members = y.oracle.members
    /\ Steady(y.oracle, z.oracle)
    /\ z.oracle.votes = [y.oracle.votes EXCEPT ![e] = V]
    /\ z.oracle.prices = [y.oracle.prices EXCEPT ![e] = P]

\* The node after a counted attestation.
LEMMA CountedNode ==
  ASSUME NEW y \in NodeState, NEW V \in EpochState, NEW P \in PriceRecord, NEW e \in Epochs
  PROVE  DiffersBy(CountedIn(y, e, V, P), y, e, V, P)
<1>1. y.oracle \in OracleState
  BY DEF NodeState
<1>. DEFINE o == Counting(y.oracle, e, V, P)
            z == CountedIn(y, e, V, P)
<1>2. /\ o.members = y.oracle.members
      /\ o.votes = [y.oracle.votes EXCEPT ![e] = V]
      /\ o.prices = [y.oracle.prices EXCEPT ![e] = P]
      /\ Steady(y.oracle, o)
  BY <1>1 DEF OracleState, Counting, Steady
<1>3. o \in OracleState
  <2>1. /\ [y.oracle.votes EXCEPT ![e] = V] \in [Epochs -> EpochState]
        /\ [y.oracle.prices EXCEPT ![e] = P] \in [Epochs -> PriceRecord]
    BY <1>1 DEF OracleState
  <2>. QED
    BY <1>1, <2>1, Zenon DEF OracleState, Counting
<1>. HIDE DEF o
<1>4. /\ z \in NodeState /\ z.oracle = o
      /\ z.height = y.height /\ z.last = y.last /\ z.restarted = y.restarted
      /\ z.slashed = y.slashed
  BY <1>3 DEF NodeState, CountedIn, o
<1>. HIDE DEF z
<1>5. DiffersBy(z, y, e, V, P)
  BY <1>2, <1>3, <1>4 DEF DiffersBy
<1>. QED
  BY <1>5 DEF z

\* z is y but for votes, prices and further validators slashed.
Companion(y, z) ==
    /\ z.height = y.height /\ z.last = y.last /\ z.restarted = y.restarted
    /\ Steady(y.oracle, z.oracle) /\ y.slashed \subseteq z.slashed

\* An attestation changes nothing else.
LEMMA AttestCompanion ==
  ASSUME NEW y \in NodeState, NEW a \in Sendable, NEW e, NEW R \in SUBSET Reasons
  PROVE  Attest(y, a, e, R) \in NodeState /\ Companion(y, Attest(y, a, e, R))
<1>0. a.signer \in Validators /\ a.epoch \in Epochs
  BY AttestationParts
<1>1. y.oracle \in OracleState
  BY DEF NodeState
<1>2. CASE Attest(y, a, e, R) = y
  BY <1>2 DEF Companion, Steady
<1>3. ASSUME NEW r \in Reasons, Attest(y, a, e, R) = slash_oracle_validator(y, a.signer, r)
      PROVE  Attest(y, a, e, R) \in NodeState /\ Companion(y, Attest(y, a, e, R))
  BY <1>0, <1>3, SlashedNode DEF Companion
<1>4. CASE e \in Epochs /\ Attest(y, a, e, R) = [y EXCEPT !.oracle = Count(y.oracle, a, e)]
  <2>1. PICK V \in EpochState, P \in PriceRecord : CountedAs(y.oracle, a, e, V, P)
    BY <1>1, <1>4, CountedVotes
  <2>2. Attest(y, a, e, R) = CountedIn(y, e, V, P)
    BY <1>4, <2>1 DEF CountedAs, CountedIn
  <2>3. DiffersBy(CountedIn(y, e, V, P), y, e, V, P)
    BY <1>4, CountedNode
  <2>. QED
    BY <2>2, <2>3 DEF DiffersBy, Companion
<1>5. "conflicting_signer" \in Reasons /\ "deviation_band" \in Reasons
  BY DEF Reasons
<1>. QED
  BY <1>2, <1>3, <1>4, <1>5, AttestCases

\* z is y but for what its consumer and its producer are about to do.
Idle(y, z) ==
    /\ z \in NodeState
    /\ z.height = y.height /\ z.last = y.last /\ z.restarted = y.restarted
    /\ z.oracle = y.oracle /\ z.slashed = y.slashed

\* The tasks of a node: it goes on unchanged or with one message, for which it slashes as a
\* consumer and not as a producer.
LEMMA TaskStep ==
  ASSUME node \in [Nodes -> NodeState], NEW n \in Nodes,
         Receive(n) \/ Consume(n) \/ Prepare(n) \/ Produce(n)
  PROVE  \E z : /\ node' = [node EXCEPT ![n] = z]
                /\ \/ Idle(node[n], z)
                   \/ \E a \in Messages, R \in SUBSET Reasons :
                         Idle(Attest(node[n], a, Epoch(node[n]), R), z)
<1>1. PICK y \in NodeState : y = node[n]
  OBVIOUS
<1>2. PICK e : e = Epoch(node[n])
  OBVIOUS
<1>3. ASSUME NEW w \in NodeState, NEW c \in BOOLEAN
      PROVE  Idle(w, [w EXCEPT !.consumer = c])
  BY DEF NodeState, Idle
<1>4. ASSUME NEW w \in NodeState, NEW p \in Epochs \cup {NoEpoch}
      PROVE  Idle(w, [w EXCEPT !.producer = p])
  BY DEF NodeState, Idle
<1>5. CASE Receive(n)
  <2>1. node' = [node EXCEPT ![n] = [y EXCEPT !.consumer = TRUE]]
    BY <1>1, <1>5 DEF Receive
  <2>. QED
    BY <1>1, <1>3, <2>1, Zenon
<1>6. CASE Prepare(n)
  <2>1. node' = [node EXCEPT ![n] = [y EXCEPT !.producer = e]] /\ e \in Epochs \cup {NoEpoch}
    BY <1>1, <1>2, <1>6 DEF Prepare
  <2>. QED
    BY <1>1, <1>4, <2>1, Zenon
<1>7. CASE Consume(n)
  <2>1. PICK a \in Messages :
           node' = [node EXCEPT ![n] = [Attest(y, a, e, Reasons) EXCEPT !.consumer = FALSE]]
    BY <1>1, <1>2, <1>7, Zenon DEF Consume, consume_attestation, Reasons
  <2>2. a \in Sendable /\ Reasons \in SUBSET Reasons
    BY DEF Messages
  <2>3. Attest(y, a, e, Reasons) \in NodeState
    BY <2>2, AttestCompanion
  <2>4. Idle(Attest(y, a, e, Reasons), [Attest(y, a, e, Reasons) EXCEPT !.consumer = FALSE])
    BY <1>3, <2>3, Zenon
  <2>. QED
    BY <1>1, <1>2, <2>1, <2>2, <2>4, Zenon
<1>8. CASE Produce(n)
  <2>1. PICK a \in Messages :
           node' = [node EXCEPT ![n].oracle = process_attestation(@, a, e),
                                ![n].producer = NoEpoch]
    BY <1>2, <1>8, Zenon DEF Produce
  <2>2. PICK p : p = process_attestation(y.oracle, a, e)
    OBVIOUS
  <2>3. PICK w : w = [y EXCEPT !.oracle = p]
    BY Zenon
  <2>4. w = Attest(y, a, e, {})
    BY <2>2, <2>3 DEF Attest
  <2>5. a \in Sendable /\ {} \in SUBSET Reasons
    BY DEF Messages
  <2>6. w \in NodeState
    BY <2>4, <2>5, AttestCompanion
  <2>7. node' = [node EXCEPT ![n] = [w EXCEPT !.producer = NoEpoch]]
    BY <1>1, <2>1, <2>2, <2>3, Zenon
  <2>8. Idle(w, [w EXCEPT !.producer = NoEpoch])
    BY <1>4, <2>6, Zenon
  <2>. QED
    BY <1>1, <1>2, <2>4, <2>5, <2>7, <2>8, Zenon
<1>. QED
  BY <1>5, <1>6, <1>7, <1>8

---------------------------------------------------------------------------
(* Slashing and the finalized prices *)

\* A are the prices that validators sign, C those of the messages that name them.
Given(A, C) ==
    /\ A \in [Validators -> SUBSET Prices] /\ C \in [Validators -> SUBSET Prices]
    /\ \A v \in Validators : A[v] \subseteq C[v]

\* The message a is one of them.
Fair(a, A, C) == a.sov \in C[a.signer] /\ (a.signed => a.sov \in A[a.signer])

\* What x, a validator and the reason it was slashed for, rests on.
Cause(y, A, C, x) ==
    \/ /\ x[2] = "conflicting_signer" /\ Cardinality(C[x[1]]) > 1
       /\ \E e \in Epochs : y.oracle.votes[e].sov[x[1]] \in A[x[1]]
    \/ x[2] = "deviation_band" /\ y.oracle.strict

\* Votes are prices their validator attests, every slash has its cause, and a CBE price is
\* finalized only once it has won.
Sound(y, A, C) ==
    /\ \A e \in Epochs : \A v \in Validators :
          y.oracle.votes[e].sov[v] \in A[v] \cup {NoPrice}
    /\ \A x \in y.slashed : Cause(y, A, C, x)
    /\ \A e \in Epochs :
          y.oracle.prices[e].cbe # NoPrice => y.oracle.votes[e].winningCbe # NoPrice

SoundNodes(A, C) == {y \in NodeState : Sound(y, A, C)}

\* From y to z finalized prices stay, but for a CBE price that is added.
Kept(y, z) ==
    \A e \in Epochs :
        LET was == y.oracle.prices[e]
            is  == z.oracle.prices[e]
        IN  was.sov # NoPrice /\ is # was => was.sov = is.sov /\ was.cbe = NoPrice

\* Kept is transitive.
LEMMA KeptTwice ==
  ASSUME NEW x, NEW y, NEW z, Kept(x, y), Kept(y, z)
  PROVE  Kept(x, z)
BY DEF Kept

\* A validator with two prices.
LEMMA TwoPrices ==
  ASSUME NEW S \in SUBSET Prices, NEW p \in S, NEW q \in S, p # q
  PROVE  Cardinality(S) > 1
<1>1. IsFiniteSet(S)
  BY OracleAssumption, FS_Subset
<1>2. IsFiniteSet(S \ {p}) /\ Cardinality(S \ {p}) = Cardinality(S) - 1
  BY <1>1, FS_RemoveElement
<1>3. Cardinality(S) \in Nat /\ Cardinality(S \ {p}) \in Nat
  BY <1>1, <1>2, FS_CardinalityType
<1>4. S \ {p} # {}
  OBVIOUS
<1>5. Cardinality(S \ {p}) # 0
  BY <1>2, <1>4, FS_EmptySet
<1>. QED
  BY <1>2, <1>3, <1>5

\* One attestation keeps a node sound and its finalized prices.
LEMMA AttestSound ==
  ASSUME NEW A, NEW C, Given(A, C), NEW y \in SoundNodes(A, C),
         NEW a \in Sendable, Fair(a, A, C), NEW e, NEW R \in SUBSET Reasons
  PROVE  Attest(y, a, e, R) \in SoundNodes(A, C) /\ Kept(y, Attest(y, a, e, R))
<1>0. /\ a.signer \in Validators /\ a.epoch \in Epochs /\ a.sov \in Prices
      /\ A[a.signer] \in SUBSET Prices /\ C[a.signer] \in SUBSET Prices
      /\ A[a.signer] \subseteq C[a.signer] /\ a.sov \in C[a.signer]
  BY AttestationParts DEF Given, Fair
<1>1. y \in NodeState /\ Sound(y, A, C)
  BY DEF SoundNodes
<1>2. y.oracle \in OracleState
  BY <1>1 DEF NodeState
<1>3. CASE Attest(y, a, e, R) = y
  BY <1>3 DEF Kept
<1>4. ASSUME NEW r \in Reasons, Cause(y, A, C, <<a.signer, r>>),
             Attest(y, a, e, R) = slash_oracle_validator(y, a.signer, r)
      PROVE  Attest(y, a, e, R) \in SoundNodes(A, C) /\ Kept(y, Attest(y, a, e, R))
  <2>1. PICK z : z = slash_oracle_validator(y, a.signer, r)
    OBVIOUS
  <2>2. /\ z \in NodeState
        /\ z.slashed = y.slashed \cup {<<a.signer, r>>} /\ z.oracle.strict = y.oracle.strict
        /\ z.oracle.votes = y.oracle.votes /\ z.oracle.prices = y.oracle.prices
    BY <1>0, <1>1, <2>1, SlashedNode DEF Steady
  <2>3. \A x \in z.slashed : Cause(y, A, C, x)
    BY <1>1, <1>4, <2>2, Zenon DEF Sound
  <2>4. \A x \in z.slashed : Cause(z, A, C, x)
    BY <2>2, <2>3, Zenon DEF Cause
  <2>5. Sound(z, A, C)
    BY <1>1, <2>2, <2>4 DEF Sound
  <2>6. Kept(y, z)
    BY <2>2 DEF Kept
  <2>. QED
    BY <1>4, <2>1, <2>2, <2>5, <2>6 DEF SoundNodes
<1>5. ASSUME e \in Epochs, y.oracle.votes[e].sov[a.signer] \notin {NoPrice, a.sov}
      PROVE  Cause(y, A, C, <<a.signer, "conflicting_signer">>)
  <2>1. y.oracle.votes[e].sov[a.signer] \in A[a.signer]
    BY <1>0, <1>1, <1>5 DEF Sound
  <2>2. Cardinality(C[a.signer]) > 1
    BY <1>0, <1>5, <2>1, TwoPrices
  <2>. QED
    BY <1>5, <2>1, <2>2 DEF Cause
<1>6. CASE /\ a.epoch = e /\ e \in Epochs
           /\ Attest(y, a, e, R) = [y EXCEPT !.oracle = Count(y.oracle, a, e)]
           /\ \/ Finalized(y.oracle, e)
              \/ y.oracle.votes[e].sov[a.signer] = a.sov
              \/ a.signer \in y.oracle.members /\ a.signed
  <2>1. PICK V \in EpochState, P \in PriceRecord : CountedAs(y.oracle, a, e, V, P)
    BY <1>2, <1>6, CountedVotes
  <2>2. PICK z : z = CountedIn(y, e, V, P) /\ DiffersBy(z, y, e, V, P)
    BY <1>1, <1>6, CountedNode
  <2>3. /\ z \in NodeState
        /\ z.slashed = y.slashed /\ z.oracle.strict = y.oracle.strict
        /\ z.oracle.votes = [y.oracle.votes EXCEPT ![e] = V]
        /\ z.oracle.prices = [y.oracle.prices EXCEPT ![e] = P]
    BY <2>2 DEF DiffersBy, Steady
  <2>4. /\ y.oracle.votes \in [Epochs -> EpochState] /\ y.oracle.votes[e] \in EpochState
        /\ y.oracle.prices \in [Epochs -> PriceRecord]
    BY <1>2, <1>6 DEF OracleState
  <2>5. /\ z.oracle.votes[e] = V /\ z.oracle.prices[e] = P
        /\ \A d \in Epochs \ {e} : /\ z.oracle.votes[d] = y.oracle.votes[d]
                                   /\ z.oracle.prices[d] = y.oracle.prices[d]
    BY <1>6, <2>3, <2>4
  <2>6. \A v \in Validators : /\ V.sov[v] \in A[v] \cup {NoPrice}
                              /\ y.oracle.votes[e].sov[v] \in A[v] => V.sov[v] \in A[v]
    <3>1. y.oracle.votes[e].sov \in [Validators -> Prices \cup {NoPrice}]
      BY <2>4 DEF EpochState
    <3>2. \A v \in Validators : y.oracle.votes[e].sov[v] \in A[v] \cup {NoPrice}
      BY <1>1, <1>6 DEF Sound
    <3>3. Finalized(y.oracle, e) \/ a.sov \in A[a.signer]
      BY <1>0, <1>6, <3>2, OracleAssumption DEF Fair
    <3>4. V.sov = IF Finalized(y.oracle, e) THEN y.oracle.votes[e].sov
                  ELSE [y.oracle.votes[e].sov EXCEPT ![a.signer] = a.sov]
      BY <2>1 DEF CountedAs
    <3>. QED
      BY <1>0, <3>1, <3>2, <3>3, <3>4
  <2>7. P.cbe # NoPrice => V.winningCbe # NoPrice
    <3>1. y.oracle.prices[e].cbe # NoPrice => y.oracle.votes[e].winningCbe # NoPrice
      BY <1>1, <1>6 DEF Sound
    <3>2. P = [sov |-> a.sov, cbe |-> V.winningCbe] => P.cbe = V.winningCbe
      OBVIOUS
    <3>. QED
      BY <2>1, <3>1, <3>2 DEF CountedAs
  <2>8. Sound(z, A, C)
    <3>1. ASSUME NEW x \in z.slashed PROVE Cause(z, A, C, x)
      <4>1. Cause(y, A, C, x) /\ x[1] \in Validators
        BY <1>1, <2>3, <3>1 DEF Sound, NodeState
      <4>2. ASSUME NEW d \in Epochs, y.oracle.votes[d].sov[x[1]] \in A[x[1]]
            PROVE  z.oracle.votes[d].sov[x[1]] \in A[x[1]]
        BY <2>5, <2>6, <4>1, <4>2
      <4>. QED
        BY <2>3, <4>1, <4>2, Zenon DEF Cause
    <3>. QED
      BY <1>1, <2>5, <2>6, <2>7, <3>1 DEF Sound
  <2>9. y.oracle.prices[e].sov # NoPrice /\ P # y.oracle.prices[e]
          => y.oracle.prices[e].sov = P.sov /\ y.oracle.prices[e].cbe = NoPrice
    <3>1. y.oracle.prices[e].cbe # NoPrice => y.oracle.votes[e].winningCbe # NoPrice
      BY <1>1, <1>6 DEF Sound
    <3>2. Finalized(y.oracle, e) <=> y.oracle.prices[e].sov # NoPrice
      BY DEF Finalized
    <3>. QED
      BY <2>1, <3>1, <3>2 DEF CountedAs
  <2>10. Kept(y, z)
    BY <2>5, <2>9 DEF Kept
  <2>11. Attest(y, a, e, R) = z
    BY <1>6, <2>1, <2>2 DEF CountedAs, CountedIn
  <2>. QED
    BY <2>3, <2>8, <2>10, <2>11 DEF SoundNodes
<1>7. /\ "conflicting_signer" \in Reasons /\ "deviation_band" \in Reasons
      /\ y.oracle.strict => Cause(y, A, C, <<a.signer, "deviation_band">>)
  BY DEF Reasons, Cause
<1>. QED
  BY <1>1, <1>3, <1>4, <1>5, <1>6, <1>7, AttestCases

---------------------------------------------------------------------------
(* A block before its attestations *)

\* The node once the activation, the proposal and the epoch boundary of the block b are done.
Executed(nd, b) ==
    Execute(Activate(nd.oracle, nd.height + 1), b.op, epoch_id(nd.oracle, b.timestamp),
            nd.height + 1)

Crossed(nd, b) == should_process_epoch(Executed(nd, b), b.timestamp, nd.last)

Updated(nd, b) ==
    IF Crossed(nd, b)
    THEN apply_pending_updates(Executed(nd, b), epoch_id(Executed(nd, b), b.timestamp))
    ELSE Executed(nd, b)

Prepared(nd, b) ==
    [nd EXCEPT !.height = @ + 1, !.oracle = Updated(nd, b),
               !.last = IF Crossed(nd, b) THEN b.timestamp ELSE @]

\* A block is prepared, then its attestations follow.
LEMMA BlockParts ==
  ASSUME NEW nd, NEW b
  PROVE  ApplyBlock(nd, b)
           = Attested(Prepared(nd, b), b.attestations, epoch_id(Updated(nd, b), b.timestamp))
BY DEF ApplyBlock, Attested, apply_oracle_attestation, InBlock, Prepared, Updated, Crossed,
       Executed

\* Neither the activation of a protocol nor a proposal touches committee, epoch length, votes
\* and prices.
LEMMA ExecutedState ==
  ASSUME NEW nd \in NodeState, NEW b, WellFormed(b)
  PROVE  /\ Executed(nd, b) \in OracleState
         /\ Executed(nd, b).votes = nd.oracle.votes
         /\ Executed(nd, b).prices = nd.oracle.prices
         /\ Executed(nd, b).members = nd.oracle.members
         /\ Executed(nd, b).duration = nd.oracle.duration
         /\ nd.oracle.strict => Executed(nd, b).strict
         /\ \/ Executed(nd, b).pending \in {nd.oracle.pending, NoUpdate}
            \/ Executed(nd, b).pending.activate > epoch_id(nd.oracle, b.timestamp)
         /\ \/ Executed(nd, b).pendingConfig \in {nd.oracle.pendingConfig, NoUpdate}
            \/ /\ b.op.type = "config"
               /\ Executed(nd, b).pendingConfig.duration = b.op.duration
<1>1. nd.oracle \in OracleState /\ nd.height + 1 \in Nat
  BY DEF NodeState
<1>2. PICK o \in OracleState :
         /\ o = Activate(nd.oracle, nd.height + 1)
         /\ o.votes = nd.oracle.votes /\ o.prices = nd.oracle.prices
         /\ o.members = nd.oracle.members /\ o.duration = nd.oracle.duration
         /\ o.pending = nd.oracle.pending /\ o.pendingConfig = nd.oracle.pendingConfig
         /\ nd.oracle.strict => o.strict
  <2>1. Activate(nd.oracle, nd.height + 1) \in OracleState
    BY <1>1, Zenon DEF Activate, OracleState
  <2>2. /\ Activate(nd.oracle, nd.height + 1).votes = nd.oracle.votes
        /\ Activate(nd.oracle, nd.height + 1).prices = nd.oracle.prices
        /\ Activate(nd.oracle, nd.height + 1).members = nd.oracle.members
        /\ Activate(nd.oracle, nd.height + 1).duration = nd.oracle.duration
        /\ nd.oracle.strict => Activate(nd.oracle, nd.height + 1).strict
        /\ Activate(nd.oracle, nd.height + 1).pending = nd.oracle.pending
        /\ Activate(nd.oracle, nd.height + 1).pendingConfig = nd.oracle.pendingConfig
    BY <1>1 DEF Activate, OracleState
  <2>. QED
    BY <2>1, <2>2
<1>3. PICK e : e = epoch_id(nd.oracle, b.timestamp)
  OBVIOUS
<1>. DEFINE x == Execute(o, b.op, e, nd.height + 1)
<1>4. /\ x \in OracleState /\ x.votes = o.votes /\ x.prices = o.prices
      /\ x.members = o.members /\ x.duration = o.duration /\ x.strict = o.strict
      /\ x.pending \in {o.pending, NoUpdate} \/ x.pending.activate > e
      /\ \/ x.pendingConfig \in {o.pendingConfig, NoUpdate}
         \/ b.op.type = "config" /\ x.pendingConfig.duration = b.op.duration
  <2>1. CASE b.op.type = "committee" /\ b.op.members \subseteq Validators
    <3>1. [activate |-> b.op.activate, members |-> b.op.members] \in CommitteeUpdate
      BY <2>1 DEF WellFormed, CommitteeUpdate
    <3>. QED
      BY <2>1, <3>1 DEF Execute, OracleState
  <2>2. CASE b.op.type = "config" /\ b.op.duration > 0
    <3>1. [activate |-> b.op.activate, duration |-> b.op.duration] \in ConfigUpdate
      BY <2>2 DEF WellFormed, ConfigUpdate
    <3>. QED
      BY <2>2, <3>1 DEF Execute, OracleState
  <2>3. CASE b.op.type = "cancel"
    BY <2>3, Zenon DEF Execute, OracleState
  <2>4. CASE b.op.type = "upgrade"
    <3>1. b.op.height \in Nat
      BY <2>4 DEF WellFormed
    <3>. QED
      BY <2>4, <3>1 DEF Execute, OracleState
  <2>5. CASE x = o
    BY <2>5
  <2>6. \/ b.op.type = "committee" /\ b.op.members \subseteq Validators
        \/ b.op.type = "config" /\ b.op.duration > 0
        \/ b.op.type \in {"cancel", "upgrade"}
        \/ x = o
    BY DEF Execute
  <2>. HIDE DEF x
  <2>. QED
    BY <2>1, <2>2, <2>3, <2>4, <2>5, <2>6
<1>5. Executed(nd, b) = x
  BY <1>2, <1>3 DEF Executed
<1>. HIDE DEF x
<1>. QED
  BY <1>2, <1>3, <1>4, <1>5

\* The epoch boundary touches neither votes nor prices.
LEMMA UpdatedState ==
  ASSUME NEW nd \in NodeState, NEW b, WellFormed(b)
  PROVE  /\ Updated(nd, b) \in OracleState
         /\ Updated(nd, b).votes = nd.oracle.votes
         /\ Updated(nd, b).prices = nd.oracle.prices
         /\ nd.oracle.strict => Updated(nd, b).strict
<1>1. PICK o \in OracleState : /\ o = Executed(nd, b) /\ o.votes = nd.oracle.votes
                               /\ o.prices = nd.oracle.prices
                               /\ nd.oracle.strict => o.strict
  BY ExecutedState
<1>2. PICK e : e = epoch_id(o, b.timestamp)
  OBVIOUS
<1>. DEFINE x == apply_pending_updates(o, e)
<1>3. /\ x \in OracleState /\ x.votes = o.votes /\ x.prices = o.prices
      /\ x.strict = o.strict
  <2>1. Due(o.pending, e) = "activate" => o.pending.members \in SUBSET Validators
    BY DEF Due, OracleState, CommitteeUpdate
  <2>2. Due(o.pendingConfig, e) = "activate" => o.pendingConfig.duration \in Nat \ {0}
    BY DEF Due, OracleState, ConfigUpdate
  <2>. QED
    BY <2>1, <2>2, Zenon DEF apply_pending_updates, OracleState
<1>4. Updated(nd, b) \in {x, o}
  BY <1>1, <1>2 DEF Updated
<1>. HIDE DEF x
<1>. QED
  BY <1>1, <1>3, <1>4

\* The node before the attestations of a block.
LEMMA PreparedNode ==
  ASSUME NEW nd \in NodeState, NEW b, WellFormed(b)
  PROVE  /\ Prepared(nd, b) \in NodeState
         /\ Prepared(nd, b).oracle = Updated(nd, b)
         /\ Prepared(nd, b).height = nd.height + 1
         /\ Prepared(nd, b).last = IF Crossed(nd, b) THEN b.timestamp ELSE nd.last
         /\ Prepared(nd, b).slashed = nd.slashed
         /\ Prepared(nd, b).restarted = nd.restarted
<1>1. Updated(nd, b) \in OracleState /\ b.timestamp \in Nat
  BY UpdatedState DEF WellFormed
<1>2. PICK u \in OracleState : u = Updated(nd, b)
  BY <1>1
<1>3. PICK t \in Nat : t = IF Crossed(nd, b) THEN b.timestamp ELSE nd.last
  BY <1>1 DEF NodeState
<1>4. Prepared(nd, b) = [nd EXCEPT !.height = nd.height + 1, !.oracle = u, !.last = t]
  BY <1>2, <1>3 DEF Prepared, NodeState
<1>. DEFINE z == [nd EXCEPT !.height = nd.height + 1, !.oracle = u, !.last = t]
<1>5. nd.height + 1 \in Nat
  BY DEF NodeState
<1>6. /\ z \in NodeState /\ z.oracle = u /\ z.height = nd.height + 1 /\ z.last = t
      /\ z.slashed = nd.slashed /\ z.restarted = nd.restarted
  BY <1>5, Zenon DEF NodeState
<1>. HIDE DEF z
<1>7. Prepared(nd, b) = z
  BY <1>4 DEF z
<1>. QED
  BY <1>2, <1>3, <1>6, <1>7

---------------------------------------------------------------------------
(* Slashing and finalized prices over a whole execution *)

\* The attestations of a block are such messages.
Honours(b, A, C) ==
    \A i \in DOMAIN b.attestations : Fair(b.attestations[i], A, C)

\* A block keeps a node sound and its finalized prices.
LEMMA BlockSound ==
  ASSUME NEW A, NEW C, Given(A, C), NEW nd \in SoundNodes(A, C),
         NEW b, WellFormed(b), Honours(b, A, C)
  PROVE  ApplyBlock(nd, b) \in SoundNodes(A, C) /\ Kept(nd, ApplyBlock(nd, b))
<1>0. nd \in NodeState /\ Sound(nd, A, C)
  BY DEF SoundNodes
<1>1. PICK x : x = Prepared(nd, b)
  OBVIOUS
<1>2. /\ x \in NodeState /\ x.slashed = nd.slashed /\ (nd.oracle.strict => x.oracle.strict)
      /\ x.oracle.votes = nd.oracle.votes /\ x.oracle.prices = nd.oracle.prices
  BY <1>0, <1>1, PreparedNode, UpdatedState
<1>3. x \in SoundNodes(A, C) /\ Kept(nd, x)
  <2>1. \A w \in x.slashed : Cause(nd, A, C, w)
    BY <1>0, <1>2, Zenon DEF Sound
  <2>2. \A w \in x.slashed : Cause(x, A, C, w)
    BY <1>2, <2>1, Zenon DEF Cause
  <2>. QED
    BY <1>0, <1>2, <2>2 DEF SoundNodes, Sound, Kept
<1>. DEFINE Good == {y \in SoundNodes(A, C) : Kept(nd, y)}
            e == epoch_id(Updated(nd, b), b.timestamp)
<1>4. b.attestations \in Seq(Sendable) /\ InBlock \in SUBSET Reasons
  BY DEF WellFormed, InBlock, Reasons
<1>. HIDE DEF e
<1>5. ASSUME NEW y \in Good, NEW i \in DOMAIN b.attestations
      PROVE  Attest(y, b.attestations[i], e, InBlock) \in Good
  <2>1. b.attestations[i] \in Sendable
    BY <1>4
  <2>2. Fair(b.attestations[i], A, C)
    BY DEF Honours
  <2>3. y \in SoundNodes(A, C) /\ Kept(nd, y)
    OBVIOUS
  <2>4. /\ Attest(y, b.attestations[i], e, InBlock) \in SoundNodes(A, C)
        /\ Kept(y, Attest(y, b.attestations[i], e, InBlock))
    BY <1>4, <2>1, <2>2, <2>3, AttestSound
  <2>5. Kept(nd, Attest(y, b.attestations[i], e, InBlock))
    BY <2>3, <2>4, KeptTwice
  <2>. QED
    BY <2>4, <2>5
<1>6. x \in Good
  BY <1>3
<1>. HIDE DEF Good
<1>7. Attested(x, b.attestations, e) \in Good
  BY <1>4, <1>5, <1>6, AttestationInduction
<1>8. ApplyBlock(nd, b) = Attested(x, b.attestations, e)
  BY <1>1, BlockParts DEF e
<1>. QED
  BY <1>7, <1>8 DEF Good

\* A task leaves a node as sound as it is.
LEMMA IdleSound ==
  ASSUME NEW A, NEW C, NEW y \in SoundNodes(A, C), NEW z, Idle(y, z)
  PROVE  z \in SoundNodes(A, C) /\ Kept(y, z)
<1>1. z \in NodeState /\ z.oracle = y.oracle /\ z.slashed = y.slashed
  BY DEF Idle
<1>2. \A x \in z.slashed : Cause(z, A, C, x)
  BY <1>1, Zenon DEF SoundNodes, Sound, Cause
<1>. QED
  BY <1>1, <1>2 DEF SoundNodes, Sound, Kept

\* The inductive invariant behind SlashedForCause and PriceImmutable.
SoundInv ==
    /\ chain \in Chains
    /\ Given(attested, claimed)
    /\ \A i \in DOMAIN chain : Honours(chain[i], attested, claimed)
    /\ node \in [Nodes -> SoundNodes(attested, claimed)]

\* A fresh or restarted node is sound.
LEMMA FreshSound ==
  ASSUME NEW A, NEW C, NEW h \in Nat, NEW r \in BOOLEAN
  PROVE  [FreshNode EXCEPT !.height = h, !.restarted = r] \in SoundNodes(A, C)
<1>. DEFINE z == [FreshNode EXCEPT !.height = h, !.restarted = r]
<1>1. z \in NodeState
  BY FreshNodeType, Zenon
<1>2. z.oracle = Bootstrap /\ z.slashed = {}
  BY DEF FreshNode
<1>. HIDE DEF z
<1>3. \A e \in Epochs : /\ Bootstrap.votes[e] = NoVotes
                        /\ Bootstrap.prices[e] = [sov |-> NoPrice, cbe |-> NoPrice]
  BY DEF Bootstrap
<1>4. \A v \in Validators : NoVotes.sov[v] = NoPrice
  BY DEF NoVotes
<1>5. Sound(z, A, C)
  BY <1>2, <1>3, <1>4 DEF Sound
<1>. QED
  BY <1>1, <1>5 DEF SoundNodes, z

\* Every node is sound at the start.
LEMMA InitSound ==
  Init => SoundInv
<1>. SUFFICES ASSUME Init PROVE SoundInv
  OBVIOUS
<1>1. chain \in Chains /\ Given(attested, claimed)
  BY DEF Init, Given
<1>2. \A i \in DOMAIN chain : Honours(chain[i], attested, claimed)
  BY DEF Init, Honours, Fair, Circulates, Range
<1>3. FreshNode = [FreshNode EXCEPT !.height = 0, !.restarted = FALSE]
  <2>1. FreshNode.height = 0 /\ FreshNode.restarted = FALSE
    BY DEF FreshNode
  <2>2. FreshNode \in NodeState
    BY FreshNodeType, Zenon
  <2>. QED
    BY <2>1, <2>2, Zenon DEF NodeState
<1>4. FreshNode \in SoundNodes(attested, claimed)
  BY <1>3, FreshSound, Zenon
<1>. QED
  BY <1>1, <1>2, <1>4 DEF Init, SoundInv

\* The block a node processes next.
LEMMA NextBlock ==
  ASSUME NEW c \in Chains, NEW nd \in NodeState, nd.height < Len(c)
  PROVE  nd.height + 1 \in DOMAIN c /\ WellFormed(c[nd.height + 1])
<1>1. nd.height \in Nat /\ Len(c) \in Nat /\ DOMAIN c = 1..Len(c)
  BY OracleAssumption DEF NodeState
<1>2. nd.height + 1 \in DOMAIN c
  BY <1>1
<1>. QED
  BY <1>2, OracleAssumption

\* Every step keeps the nodes sound, and finalized prices but for a restart.
LEMMA NextSound ==
  ASSUME SoundInv, [Next]_vars
  PROVE  /\ SoundInv'
         /\ \A n \in Nodes :
              \/ Kept(node[n], node'[n])
              \/ node'[n] = [FreshNode EXCEPT !.height = node[n].height, !.restarted = TRUE]
<1>0. /\ chain \in Chains
      /\ Given(attested, claimed)
      /\ \A i \in DOMAIN chain : Honours(chain[i], attested, claimed)
      /\ node \in [Nodes -> SoundNodes(attested, claimed)]
      /\ node \in [Nodes -> NodeState]
  BY DEF SoundInv, SoundNodes
<1>. DEFINE Fine(n, z) ==
        /\ z \in SoundNodes(attested, claimed)
        /\ \/ Kept(node[n], z)
           \/ z = [FreshNode EXCEPT !.height = node[n].height, !.restarted = TRUE]
<1>1. ASSUME NEW n \in Nodes, NEW z, Fine(n, z), node' = [node EXCEPT ![n] = z],
             UNCHANGED inputs
      PROVE  /\ SoundInv'
             /\ \A k \in Nodes :
                  \/ Kept(node[k], node'[k])
                  \/ node'[k] = [FreshNode EXCEPT !.height = node[k].height, !.restarted = TRUE]
  <2>0. chain' = chain /\ attested' = attested /\ claimed' = claimed
    BY <1>1 DEF inputs
  <2>1. node' \in [Nodes -> SoundNodes(attested, claimed)]
    BY <1>0, <1>1
  <2>2. SoundInv'
    BY <1>0, <2>0, <2>1 DEF SoundInv
  <2>3. \A k \in Nodes \ {n} : node'[k] = node[k]
    BY <1>0, <1>1
  <2>4. node'[n] = z
    BY <1>0, <1>1
  <2>5. \A k \in Nodes \ {n} : Kept(node[k], node'[k])
    BY <2>3 DEF Kept
  <2>. QED
    BY <1>1, <2>2, <2>4, <2>5, Zenon
<1>2. ASSUME NEW n \in Nodes, NewBlock(n) PROVE \E z : Fine(n, z) /\ node' = [node EXCEPT ![n] = z]
  <2>1. node[n] \in SoundNodes(attested, claimed) /\ node[n] \in NodeState
    BY <1>0
  <2>2. PICK b : b = chain[node[n].height + 1]
    OBVIOUS
  <2>3. WellFormed(b) /\ Honours(b, attested, claimed)
    BY <1>0, <1>2, <2>1, <2>2, NextBlock DEF NewBlock
  <2>4. Fine(n, ApplyBlock(node[n], b))
    BY <1>0, <2>1, <2>3, BlockSound
  <2>. HIDE DEF Fine
  <2>5. node' = [node EXCEPT ![n] = ApplyBlock(node[n], b)]
    BY <1>0, <1>2, <2>2 DEF NewBlock
  <2>. QED
    BY <2>4, <2>5, Zenon
<1>3. ASSUME NEW n \in Nodes, Receive(n) \/ Consume(n) \/ Prepare(n) \/ Produce(n)
      PROVE \E z : Fine(n, z) /\ node' = [node EXCEPT ![n] = z]
  <2>1. PICK z : /\ node' = [node EXCEPT ![n] = z]
                 /\ \/ Idle(node[n], z)
                    \/ \E a \in Messages, R \in SUBSET Reasons :
                          Idle(Attest(node[n], a, Epoch(node[n]), R), z)
    BY <1>0, <1>3, TaskStep, Zenon
  <2>2. CASE Idle(node[n], z)
    BY <1>0, <2>1, <2>2, IdleSound, Zenon
  <2>3. ASSUME NEW a \in Messages, NEW R \in SUBSET Reasons,
               Idle(Attest(node[n], a, Epoch(node[n]), R), z)
        PROVE  Fine(n, z)
    <3>1. a \in Sendable /\ Fair(a, attested, claimed)
      BY DEF Messages, Circulates, Fair
    <3>2. PICK w : w = Attest(node[n], a, Epoch(node[n]), R)
      OBVIOUS
    <3>3. w \in SoundNodes(attested, claimed) /\ Kept(node[n], w)
      BY <1>0, <3>1, <3>2, AttestSound
    <3>4. z \in SoundNodes(attested, claimed) /\ Kept(w, z)
      BY <2>3, <3>2, <3>3, IdleSound
    <3>. QED
      BY <3>3, <3>4, KeptTwice, Zenon
  <2>. HIDE DEF Fine
  <2>. QED
    BY <2>1, <2>2, <2>3, Zenon
<1>4. ASSUME NEW n \in Nodes, Restart(n) PROVE \E z : Fine(n, z) /\ node' = [node EXCEPT ![n] = z]
  <2>1. node[n].height \in Nat
    BY <1>0 DEF NodeState
  <2>2. Fine(n, [FreshNode EXCEPT !.height = node[n].height, !.restarted = TRUE])
    BY <2>1, FreshSound, Zenon
  <2>. HIDE DEF Fine
  <2>. QED
    BY <1>4, <2>2, Zenon DEF Restart
<1>. HIDE DEF Fine
<1>5. CASE Next
  <2>1. PICK n \in Nodes : \/ NewBlock(n)
                           \/ Receive(n) \/ Consume(n) \/ Prepare(n) \/ Produce(n)
                           \/ Restart(n)
    BY <1>5 DEF Next
  <2>2. UNCHANGED inputs
    BY <2>1, Zenon DEF NewBlock, Receive, Consume, Prepare, Produce, Restart
  <2>3. \E z : Fine(n, z) /\ node' = [node EXCEPT ![n] = z]
    BY <1>2, <1>3, <1>4, <2>1
  <2>. QED
    BY <1>1, <2>2, <2>3, Zenon
<1>6. CASE UNCHANGED vars
  BY <1>0, <1>6 DEF vars, SoundInv, Kept
<1>. QED
  BY <1>5, <1>6, Zenon

\* The invariant holds in every state: each node's votes are prices their validators attest,
\* whatever the blocks, the gossip and the restarts.
THEOREM OracleIsSound ==
  Spec => []SoundInv
<1>1. SoundInv /\ [Next]_vars => SoundInv'
  BY NextSound, Zenon
<1>. QED
  BY <1>1, InitSound, PTL DEF Spec

\* SlashedForCause: for any chain, committee and number of nodes, in whatever order messages
\* arrive and whether signed or not, a validator slashed for a conflict has a counted vote it
\* attested itself, and one slashed for its price is slashed in the strict protocol.
THEOREM SlashesHaveACause ==
  Spec => []SlashedForCause
<1>1. SoundInv => SlashedForCause
  <2>. SUFFICES ASSUME SoundInv, NEW n \in Nodes, NEW x \in node[n].slashed
                PROVE  Cause(node[n], attested, claimed, x)
    BY Zenon DEF SlashedForCause, Cause
  <2>1. Sound(node[n], attested, claimed)
    BY DEF SoundInv, SoundNodes
  <2>. QED
    BY <2>1, Zenon DEF Sound
<1>. QED
  BY <1>1, OracleIsSound, PTL

\* PriceImmutable: for any chain, committee and number of nodes, a step takes away or changes
\* no finalized price unless it is a restart; it may add a CBE price.
THEOREM PricesAreImmutable ==
  Spec => PriceImmutable
<1>. DEFINE Step ==
       \A n \in Nodes : \A e \in Epochs :
         LET was == node[n].oracle.prices[e]
             is  == node'[n].oracle.prices[e]
         IN  was.sov # NoPrice /\ is # was
               => \/ was.sov = is.sov /\ was.cbe = NoPrice
                  \/ node'[n] = [FreshNode EXCEPT !.height = node[n].height, !.restarted = TRUE]
<1>1. SoundInv /\ [Next]_vars => Step
  <2>. SUFFICES ASSUME SoundInv, [Next]_vars, NEW n \in Nodes,
                       node'[n] # [FreshNode EXCEPT !.height = node[n].height, !.restarted = TRUE]
                PROVE  Kept(node[n], node'[n])
    BY Zenon DEF Kept
  <2>. QED
    BY NextSound, Zenon
<1>2. Spec => [][Step]_vars
  BY <1>1, OracleIsSound, PTL DEF Spec
<1>. QED
  BY <1>2 DEF PriceImmutable

---------------------------------------------------------------------------
(* The committee of an epoch *)

\* Later times are in later epochs.
LEMMA EpochsGrow ==
  ASSUME NEW D \in Nat \ {0}, NEW s \in Nat, NEW t \in Nat, s <= t
  PROVE  s \div D \in Nat /\ t \div D \in Nat /\ s \div D <= t \div D
<1>1. PICK p \in Int : p = s \div D
  OBVIOUS
<1>2. PICK q \in Int : q = t \div D
  OBVIOUS
<1>3. /\ D * p <= s /\ s < D * p + D
      /\ D * q <= t /\ t < D * q + D
  BY <1>1, <1>2
<1>4. p >= 0 /\ q >= 0
  BY <1>3
<1>5. p <= q
  <2>. SUFFICES ASSUME p > q PROVE FALSE
    BY <1>1, <1>2
  <2>1. p >= q + 1
    BY <1>1, <1>2
  <2>2. D * p >= D * (q + 1)
    BY <2>1
  <2>3. D * (q + 1) = D * q + D
    OBVIOUS
  <2>. QED
    BY <1>3, <2>2, <2>3
<1>. QED
  BY <1>1, <1>2, <1>4, <1>5

\* What an epoch boundary does to the committee and to pending updates.
LEMMA BoundaryState ==
  ASSUME NEW nd \in NodeState, NEW b, WellFormed(b)
  PROVE  LET o == Executed(nd, b)
             u == Updated(nd, b)
             e == epoch_id(o, b.timestamp)
         IN  /\ Crossed(nd, b) =>
                  /\ u.members = IF Due(o.pending, e) = "activate" THEN o.pending.members
                                 ELSE o.members
                  /\ u.pending = IF Due(o.pending, e) = "keep" THEN o.pending ELSE NoUpdate
                  /\ u.pendingConfig \in {o.pendingConfig, NoUpdate}
                  /\ \/ u.duration = o.duration
                     \/ o.pendingConfig # NoUpdate /\ u.duration = o.pendingConfig.duration
             /\ ~ Crossed(nd, b) => u = o
             /\ u.strict = o.strict /\ u.activation = o.activation
<1>1. PICK o \in OracleState : o = Executed(nd, b)
  BY ExecutedState
<1>2. PICK e : e = epoch_id(o, b.timestamp)
  OBVIOUS
<1>. DEFINE x == apply_pending_updates(o, e)
<1>3. /\ x.members = IF Due(o.pending, e) = "activate" THEN o.pending.members ELSE o.members
      /\ x.pending = IF Due(o.pending, e) = "keep" THEN o.pending ELSE NoUpdate
      /\ x.pendingConfig = IF Due(o.pendingConfig, e) = "keep" THEN o.pendingConfig ELSE NoUpdate
      /\ x.duration = IF Due(o.pendingConfig, e) = "activate" THEN o.pendingConfig.duration
                      ELSE o.duration
      /\ x.strict = o.strict /\ x.activation = o.activation
  BY DEF apply_pending_updates, OracleState
<1>4. Due(o.pendingConfig, e) = "activate" => o.pendingConfig # NoUpdate
  BY DEF Due
<1>5. Updated(nd, b) = IF Crossed(nd, b) THEN x ELSE o
  BY <1>1, <1>2 DEF Updated
<1>. HIDE DEF x
<1>. QED
  BY <1>1, <1>2, <1>3, <1>4, <1>5

\* The node y, whose last block has the time t, has lost no epoch boundary; and while the
\* epochs have their first length, no update is overdue, no vote is of a later epoch, and the
\* votes of the running epoch are from its committee or from validators slashed since.
Seated(y, t) ==
    /\ y.last <= t
    /\ y.oracle.pendingConfig # NoUpdate => y.oracle.pendingConfig.duration # InitialDuration
    /\ y.oracle.duration = InitialDuration =>
         /\ y.oracle.pending # NoUpdate => y.oracle.pending.activate > t \div InitialDuration
         /\ \A d \in Epochs : \A v \in Validators :
              y.oracle.votes[d].sov[v] # NoPrice =>
                 /\ d <= t \div InitialDuration
                 /\ d = t \div InitialDuration => v \in y.oracle.members \cup Banned(y)

SeatedNodes(t) == {y \in NodeState : Seated(y, t)}

\* An attestation of the running epoch leaves a node seated.
LEMMA AttestSeated ==
  ASSUME NEW t \in Nat, NEW y \in SeatedNodes(t), NEW a \in Sendable, NEW e,
         NEW R \in SUBSET Reasons,
         y.oracle.duration = InitialDuration => e = t \div InitialDuration
  PROVE  Attest(y, a, e, R) \in SeatedNodes(t) /\ Steady(y.oracle, Attest(y, a, e, R).oracle)
<1>0. /\ a.signer \in Validators /\ a.epoch \in Epochs /\ a.sov \in Prices
      /\ a.cbe \in CbePrices \cup {NoPrice}
  BY AttestationParts
<1>1. y \in NodeState /\ Seated(y, t)
  BY DEF SeatedNodes
<1>2. y.oracle \in OracleState
  BY <1>1 DEF NodeState
<1>4. CASE Attest(y, a, e, R) = y
  BY <1>4 DEF Steady
<1>5. ASSUME NEW r \in Reasons, Attest(y, a, e, R) = slash_oracle_validator(y, a.signer, r)
      PROVE  Attest(y, a, e, R) \in SeatedNodes(t) /\ Steady(y.oracle, Attest(y, a, e, R).oracle)
  <2>1. PICK z : z = slash_oracle_validator(y, a.signer, r)
    OBVIOUS
  <2>2. /\ z \in NodeState /\ z.last = y.last
        /\ Banned(z) = Banned(y) \cup {a.signer}
        /\ z.oracle.members = y.oracle.members \ {a.signer}
        /\ z.oracle.votes = y.oracle.votes /\ Steady(y.oracle, z.oracle)
    BY <1>0, <1>1, <2>1, SlashedNode
  <2>3. Seated(z, t)
    BY <1>1, <2>2 DEF Seated, Steady
  <2>. QED
    BY <1>5, <2>1, <2>2, <2>3 DEF SeatedNodes
<1>6. CASE /\ a.epoch = e /\ e \in Epochs
           /\ Attest(y, a, e, R) = [y EXCEPT !.oracle = Count(y.oracle, a, e)]
           /\ \/ Finalized(y.oracle, e)
              \/ y.oracle.votes[e].sov[a.signer] = a.sov
              \/ a.signer \in y.oracle.members
  <2>1. PICK V \in EpochState, P \in PriceRecord : CountedAs(y.oracle, a, e, V, P)
    BY <1>2, <1>6, CountedVotes
  <2>. DEFINE z == CountedIn(y, e, V, P)
  <2>2. e \in Epochs
    BY <1>6
  <2>3. /\ z \in NodeState /\ z.last = y.last
        /\ Banned(z) = Banned(y) /\ z.oracle.members = y.oracle.members
        /\ z.oracle.votes = [y.oracle.votes EXCEPT ![e] = V]
        /\ Steady(y.oracle, z.oracle)
    <3>1. DiffersBy(z, y, e, V, P)
      BY <1>1, <2>2, CountedNode
    <3>. HIDE DEF z
    <3>. QED
      BY <3>1 DEF DiffersBy, Banned
  <2>. HIDE DEF z
  <2>4. y.oracle.votes \in [Epochs -> EpochState] /\ y.oracle.votes[e] \in EpochState
    BY <1>2, <1>6 DEF OracleState
  <2>5. /\ z.oracle.votes[e] = V
        /\ \A d \in Epochs \ {e} : z.oracle.votes[d] = y.oracle.votes[d]
    BY <1>6, <2>3, <2>4
  <2>6. ASSUME NEW v \in Validators, V.sov[v] # NoPrice
        PROVE  y.oracle.votes[e].sov[v] # NoPrice \/ v \in y.oracle.members
    <3>1. y.oracle.votes[e].sov \in [Validators -> Prices \cup {NoPrice}]
      BY <2>4 DEF EpochState
    <3>2. V.sov[v] = y.oracle.votes[e].sov[v] \/ (v = a.signer /\ ~ Finalized(y.oracle, e))
      BY <1>0, <2>1, <3>1, Zenon DEF CountedAs
    <3>3. a.sov # NoPrice
      BY <1>0, OracleAssumption
    <3>. QED
      BY <1>6, <2>6, <3>2, <3>3
  <2>7. Seated(z, t)
    <3>. SUFFICES ASSUME z.oracle.duration = InitialDuration, NEW d \in Epochs,
                         NEW v \in Validators, z.oracle.votes[d].sov[v] # NoPrice
                  PROVE  /\ d <= t \div InitialDuration
                         /\ d = t \div InitialDuration => v \in z.oracle.members \cup Banned(z)
      BY <1>1, <2>3 DEF Seated, Steady
    <3>1. y.oracle.duration = InitialDuration
      BY <2>3 DEF Steady
    <3>2. e = t \div InitialDuration /\ e \in Nat
      BY <1>6, <3>1, OracleAssumption
    <3>3. CASE d = e
      BY <1>1, <2>3, <2>5, <2>6, <3>1, <3>2, <3>3 DEF Seated
    <3>4. CASE d # e
      BY <1>1, <2>3, <2>5, <3>1, <3>2, <3>4 DEF Seated
    <3>. QED
      BY <3>3, <3>4
  <2>8. Attest(y, a, e, R) = z
    BY <1>6, <2>1 DEF CountedAs, CountedIn, z
  <2>. QED
    BY <2>3, <2>7, <2>8 DEF SeatedNodes
<1>7. "conflicting_signer" \in Reasons /\ "deviation_band" \in Reasons
  BY DEF Reasons
<1>. QED
  BY <1>1, <1>4, <1>5, <1>6, <1>7, AttestCases

\* A block that is not before the last one, and whose proposal does not return to the first
\* epoch length, is seated up to its attestations.
LEMMA PreparedSeated ==
  ASSUME NEW t \in Nat, NEW nd \in SeatedNodes(t), NEW b, WellFormed(b), t <= b.timestamp,
         b.op.type = "config" => b.op.duration # InitialDuration
  PROVE  /\ Prepared(nd, b) \in SeatedNodes(b.timestamp)
         /\ Prepared(nd, b).oracle.duration = InitialDuration
              /\ b.timestamp \div InitialDuration = t \div InitialDuration
              => Prepared(nd, b).oracle.members = nd.oracle.members
<1>0. nd \in NodeState /\ Seated(nd, t) /\ nd.oracle \in OracleState /\ nd.last \in Nat
  BY DEF SeatedNodes, NodeState
<1>. DEFINE D == InitialDuration
<1>1. PICK s \in Nat : s = b.timestamp /\ t <= s
  BY DEF WellFormed
<1>2. PICK x \in NodeState :
        /\ x = Prepared(nd, b)
        /\ x.oracle = Updated(nd, b)
        /\ x.last = (IF Crossed(nd, b) THEN s ELSE nd.last)
        /\ Banned(x) = Banned(nd)
        /\ x.oracle.votes = nd.oracle.votes
  BY <1>0, <1>1, PreparedNode, UpdatedState DEF Banned
<1>3. x.last <= s
  BY <1>0, <1>1, <1>2 DEF Seated
<1>4. PICK o \in OracleState :
        /\ o = Executed(nd, b)
        /\ o.members = nd.oracle.members /\ o.duration = nd.oracle.duration
        /\ o.pending \in {nd.oracle.pending, NoUpdate}
             \/ o.pending.activate > epoch_id(nd.oracle, s)
        /\ o.pendingConfig # NoUpdate => o.pendingConfig.duration # InitialDuration
  <2>1. Executed(nd, b).pendingConfig # NoUpdate
          => Executed(nd, b).pendingConfig.duration # InitialDuration
    BY <1>0, ExecutedState DEF Seated
  <2>. QED
    BY <1>0, <1>1, <2>1, ExecutedState
<1>5. /\ Crossed(nd, b) =>
             /\ x.oracle.members = IF Due(o.pending, epoch_id(o, s)) = "activate"
                                   THEN o.pending.members ELSE o.members
             /\ x.oracle.pending = IF Due(o.pending, epoch_id(o, s)) = "keep"
                                   THEN o.pending ELSE NoUpdate
             /\ x.oracle.pendingConfig \in {o.pendingConfig, NoUpdate}
             /\ \/ x.oracle.duration = o.duration
                \/ o.pendingConfig # NoUpdate /\ x.oracle.duration = o.pendingConfig.duration
      /\ ~ Crossed(nd, b) => x.oracle = o
  BY <1>0, <1>1, <1>2, <1>4, BoundaryState
<1>6. x.oracle.pendingConfig # NoUpdate => x.oracle.pendingConfig.duration # InitialDuration
  BY <1>4, <1>5
<1>7. ASSUME x.oracle.duration = D
      PROVE  /\ x.oracle.pending # NoUpdate => x.oracle.pending.activate > s \div D
             /\ \A d \in Epochs : \A v \in Validators :
                  x.oracle.votes[d].sov[v] # NoPrice =>
                    /\ d <= s \div D
                    /\ d = s \div D => v \in x.oracle.members \cup Banned(x)
             /\ s \div D = t \div D => x.oracle.members = nd.oracle.members
  <2>1. o.duration = D /\ nd.oracle.duration = D
    BY <1>4, <1>5, <1>7
  <2>2. epoch_id(o, s) = s \div D /\ epoch_id(nd.oracle, s) = s \div D
    BY <2>1 DEF epoch_id
  <2>3. /\ s \div D \in Nat /\ t \div D \in Nat /\ nd.last \div D \in Nat
        /\ t \div D <= s \div D /\ nd.last \div D <= t \div D
    <3>1. nd.last <= t
      BY <1>0 DEF Seated
    <3>. QED
      BY <1>0, <1>1, <3>1, EpochsGrow, OracleAssumption, Zenon
  <2>4. Crossed(nd, b) <=> s \div D > nd.last \div D
    BY <1>1, <1>4, <2>1 DEF Crossed, should_process_epoch, epoch_id
  <2>5. o.pending # NoUpdate => o.pending \in CommitteeUpdate /\ o.pending.activate \in Nat
    BY DEF OracleState, CommitteeUpdate
  <2>6. o.pending # NoUpdate => o.pending.activate > t \div D
    <3>1. nd.oracle.pending # NoUpdate => nd.oracle.pending.activate > t \div D
      BY <1>0, <2>1 DEF Seated
    <3>2. o.pending.activate \in Nat /\ o.pending.activate > s \div D
            => o.pending.activate > t \div D
      BY <2>3
    <3>. QED
      BY <1>4, <2>2, <2>5, <3>1, <3>2
  <2>7. s \div D = t \div D \/ Crossed(nd, b)
    BY <2>3, <2>4
  <2>. HIDE DEF D
  <2>8. x.oracle.pending # NoUpdate => x.oracle.pending.activate > s \div D
    <3>1. CASE Crossed(nd, b)
      <4>1. x.oracle.pending # NoUpdate
              => /\ x.oracle.pending = o.pending /\ o.pending # NoUpdate
                 /\ Due(o.pending, s \div D) = "keep"
        BY <1>5, <2>2, <3>1
      <4>2. Due(o.pending, s \div D) = "keep"
              => o.pending = NoUpdate \/ s \div D < o.pending.activate
        BY DEF Due
      <4>. QED
        BY <2>3, <2>5, <4>1, <4>2
    <3>2. CASE ~ Crossed(nd, b)
      BY <1>5, <2>6, <2>7, <3>2
    <3>. QED
      BY <3>1, <3>2
  <2>9. s \div D = t \div D => x.oracle.members = nd.oracle.members
    <3>1. CASE Crossed(nd, b) /\ s \div D = t \div D
      <4>1. Due(o.pending, s \div D) # "activate"
        BY <2>3, <2>5, <2>6, <3>1 DEF Due
      <4>. QED
        BY <1>4, <1>5, <2>2, <3>1, <4>1
    <3>2. CASE ~ Crossed(nd, b)
      BY <1>4, <1>5, <3>2
    <3>. QED
      BY <3>1, <3>2
  <2>10. ASSUME NEW d \in Epochs, NEW v \in Validators, x.oracle.votes[d].sov[v] # NoPrice
         PROVE  /\ d <= s \div D
                /\ d = s \div D => v \in x.oracle.members \cup Banned(x)
    <3>1. nd.oracle.votes[d].sov[v] # NoPrice
      BY <1>2, <2>10
    <3>2. /\ d <= t \div D
          /\ d = t \div D => v \in nd.oracle.members \cup Banned(nd)
      BY <1>0, <2>1, <3>1 DEF Seated, D
    <3>3. d \in Nat
      BY OracleAssumption
    <3>4. d <= s \div D
      BY <2>3, <3>2, <3>3
    <3>5. d = s \div D => s \div D = t \div D
      BY <2>3, <3>2, <3>3
    <3>. QED
      BY <1>2, <2>9, <3>2, <3>4, <3>5
  <2>. QED
    BY <2>8, <2>9, <2>10
<1>8. Seated(x, s)
  BY <1>3, <1>6, <1>7 DEF Seated
<1>. QED
  BY <1>1, <1>2, <1>7, <1>8 DEF SeatedNodes

\* So is the whole block.
LEMMA BlockSeated ==
  ASSUME NEW t \in Nat, NEW nd \in SeatedNodes(t), NEW b, WellFormed(b), t <= b.timestamp,
         b.op.type = "config" => b.op.duration # InitialDuration
  PROVE  ApplyBlock(nd, b) \in SeatedNodes(b.timestamp)
<1>0. nd \in NodeState
  BY DEF SeatedNodes
<1>1. PICK x \in SeatedNodes(b.timestamp) : x = Prepared(nd, b) /\ x.oracle = Updated(nd, b)
  <2>1. Prepared(nd, b) \in SeatedNodes(b.timestamp)
    BY PreparedSeated
  <2>. QED
    BY <1>0, <2>1, PreparedNode
<1>. DEFINE Good == {y \in SeatedNodes(b.timestamp) : Steady(x.oracle, y.oracle)}
            e == epoch_id(Updated(nd, b), b.timestamp)
<1>2. b.attestations \in Seq(Sendable) /\ b.timestamp \in Nat /\ InBlock \in SUBSET Reasons
  BY DEF WellFormed, InBlock, Reasons
<1>3. x.oracle.duration = InitialDuration => e = b.timestamp \div InitialDuration
  BY <1>1 DEF epoch_id
<1>. HIDE DEF e
<1>4. ASSUME NEW y \in Good, NEW i \in DOMAIN b.attestations
      PROVE  Attest(y, b.attestations[i], e, InBlock) \in Good
  <2>1. b.attestations[i] \in Sendable
    BY <1>2
  <2>2. y \in SeatedNodes(b.timestamp) /\ Steady(x.oracle, y.oracle)
    OBVIOUS
  <2>3. y.oracle.duration = InitialDuration => e = b.timestamp \div InitialDuration
    BY <1>3, <2>2 DEF Steady
  <2>4. /\ Attest(y, b.attestations[i], e, InBlock) \in SeatedNodes(b.timestamp)
        /\ Steady(y.oracle, Attest(y, b.attestations[i], e, InBlock).oracle)
    BY <1>2, <2>1, <2>2, <2>3, AttestSeated
  <2>5. Steady(x.oracle, Attest(y, b.attestations[i], e, InBlock).oracle)
    BY <2>2, <2>4 DEF Steady
  <2>. QED
    BY <2>4, <2>5
<1>5. x \in Good
  BY DEF Steady
<1>. HIDE DEF Good
<1>6. Attested(x, b.attestations, e) \in Good
  BY <1>2, <1>4, <1>5, AttestationInduction
<1>7. ApplyBlock(nd, b) = Attested(x, b.attestations, e)
  BY <1>1, BlockParts DEF e
<1>. QED
  BY <1>6, <1>7 DEF Good

\* A fresh or restarted node is seated.
LEMMA FreshSeated ==
  ASSUME NEW t \in Nat, NEW h \in Nat, NEW r \in BOOLEAN
  PROVE  [FreshNode EXCEPT !.height = h, !.restarted = r] \in SeatedNodes(t)
<1>. DEFINE z == [FreshNode EXCEPT !.height = h, !.restarted = r]
<1>1. z \in NodeState
  BY FreshNodeType, Zenon
<1>2. z.oracle = Bootstrap /\ z.last = 0
  BY DEF FreshNode
<1>. HIDE DEF z
<1>3. /\ Bootstrap.pending = NoUpdate /\ Bootstrap.pendingConfig = NoUpdate
      /\ \A e \in Epochs : Bootstrap.votes[e] = NoVotes
  BY DEF Bootstrap
<1>4. \A v \in Validators : NoVotes.sov[v] = NoPrice
  BY DEF NoVotes
<1>5. Seated(z, t)
  BY <1>2, <1>3, <1>4 DEF Seated
<1>. QED
  BY <1>1, <1>5 DEF SeatedNodes, z

\* The blocks of the chain are in the order of their timestamps.
TimestampsGrow ==
    \A i, j \in DOMAIN chain : i <= j => chain[i].timestamp <= chain[j].timestamp

\* No proposal returns to the first epoch length.
NoReturn ==
    \A i \in DOMAIN chain : chain[i].op.type = "config" => chain[i].op.duration # InitialDuration

\* The time of the block at a height, of genesis at 0.
TimeAt(c, h) == IF h = 0 THEN 0 ELSE c[h].timestamp

\* The heights of a chain and their times.
LEMMA Times ==
  ASSUME NEW c \in Chains, NEW h \in 0..Len(c)
  PROVE  TimeAt(c, h) \in Nat /\ TimeAt(c, h) \div InitialDuration \in Epochs
<1>1. h = 0 \/ h \in DOMAIN c
  BY OracleAssumption
<1>2. CASE h = 0
  BY <1>2, OracleAssumption DEF TimeAt
<1>3. CASE h # 0
  BY <1>1, <1>3, OracleAssumption DEF TimeAt, WellFormed
<1>. QED
  BY <1>2, <1>3

\* The inductive invariant behind VotesFromCommittee: a node is at a height of the chain, and
\* seated at the time of its last block.
SeatedInv ==
    /\ SoundInv
    /\ \A n \in Nodes :
         /\ node[n].height \in 0..Len(chain)
         /\ TimestampsGrow /\ NoReturn => Seated(node[n], TimeAt(chain, node[n].height))

\* Every node is seated at the start.
LEMMA InitSeated ==
  Init => SeatedInv
<1>. SUFFICES ASSUME Init PROVE SeatedInv
  OBVIOUS
<1>1. SoundInv
  BY InitSound
<1>2. \A n \in Nodes : node[n] = FreshNode
  BY DEF Init
<1>3. FreshNode.height = 0
  BY DEF FreshNode
<1>4. FreshNode = [FreshNode EXCEPT !.height = 0, !.restarted = FALSE]
  <2>1. FreshNode.restarted = FALSE
    BY DEF FreshNode
  <2>2. FreshNode \in NodeState
    BY FreshNodeType, Zenon
  <2>. QED
    BY <1>3, <2>1, <2>2, Zenon DEF NodeState
<1>5. Len(chain) \in Nat
  BY OracleAssumption DEF Init
<1>6. Seated(FreshNode, 0)
  BY <1>4, FreshSeated, Zenon DEF SeatedNodes
<1>7. TimeAt(chain, 0) = 0
  BY DEF TimeAt
<1>. QED
  BY <1>1, <1>2, <1>3, <1>5, <1>6, <1>7 DEF SeatedInv

\* The attestations of a block change nothing else.
LEMMA BlockCompanion ==
  ASSUME NEW nd \in NodeState, NEW b, WellFormed(b)
  PROVE  ApplyBlock(nd, b) \in NodeState /\ Companion(Prepared(nd, b), ApplyBlock(nd, b))
<1>1. PICK x \in NodeState : x = Prepared(nd, b)
  BY PreparedNode
<1>. DEFINE Good == {y \in NodeState : Companion(x, y)}
            e == epoch_id(Updated(nd, b), b.timestamp)
<1>2. b.attestations \in Seq(Sendable) /\ InBlock \in SUBSET Reasons
  BY DEF WellFormed, InBlock, Reasons
<1>. HIDE DEF e
<1>3. ASSUME NEW y \in Good, NEW i \in DOMAIN b.attestations
      PROVE  Attest(y, b.attestations[i], e, InBlock) \in Good
  <2>1. b.attestations[i] \in Sendable
    BY <1>2
  <2>2. y \in NodeState /\ Companion(x, y)
    OBVIOUS
  <2>3. /\ Attest(y, b.attestations[i], e, InBlock) \in NodeState
        /\ Companion(y, Attest(y, b.attestations[i], e, InBlock))
    BY <1>2, <2>1, <2>2, AttestCompanion
  <2>4. Companion(x, Attest(y, b.attestations[i], e, InBlock))
    BY <2>2, <2>3 DEF Companion, Steady
  <2>. QED
    BY <2>3, <2>4
<1>4. x \in Good
  BY DEF Companion, Steady
<1>. HIDE DEF Good
<1>5. Attested(x, b.attestations, e) \in Good
  BY <1>2, <1>3, <1>4, AttestationInduction
<1>6. ApplyBlock(nd, b) = Attested(x, b.attestations, e)
  BY <1>1, BlockParts DEF e
<1>. QED
  BY <1>1, <1>5, <1>6 DEF Good

\* Every step leaves the nodes at heights of the chain and seated.
LEMMA NextSeated ==
  ASSUME SeatedInv, [Next]_vars
  PROVE  SeatedInv'
<1>0. /\ chain \in Chains
      /\ node \in [Nodes -> NodeState]
      /\ SoundInv'
      /\ SoundInv
  BY NextSound, Zenon DEF SeatedInv, SoundInv, SoundNodes
<1>. DEFINE Fine(z) ==
        /\ z \in NodeState
        /\ z.height \in 0..Len(chain)
        /\ TimestampsGrow /\ NoReturn => Seated(z, TimeAt(chain, z.height))
<1>1. \A n \in Nodes : Fine(node[n])
  BY <1>0 DEF SeatedInv
<1>2. ASSUME NEW n \in Nodes, NEW z, Fine(z), node' = [node EXCEPT ![n] = z], chain' = chain
      PROVE  SeatedInv'
  <2>1. \A k \in Nodes : node'[k] = IF k = n THEN z ELSE node[k]
    BY <1>0, <1>2
  <2>2. \A k \in Nodes : Fine(node'[k])
    BY <1>1, <1>2, <2>1
  <2>3. TimestampsGrow' = TimestampsGrow /\ NoReturn' = NoReturn
    BY <1>2 DEF TimestampsGrow, NoReturn
  <2>. QED
    BY <1>0, <1>2, <2>2, <2>3 DEF SeatedInv
<1>3. ASSUME NEW n \in Nodes, NewBlock(n) PROVE \E z : Fine(z) /\ node' = [node EXCEPT ![n] = z]
  <2>1. /\ node[n] \in NodeState /\ node[n].height < Len(chain) /\ node[n].height \in Nat
        /\ Len(chain) \in Nat /\ DOMAIN chain = 1..Len(chain)
    BY <1>0, <1>3, OracleAssumption DEF NewBlock, NodeState
  <2>2. PICK b : b = chain[node[n].height + 1]
    OBVIOUS
  <2>3. WellFormed(b) /\ node[n].height + 1 \in DOMAIN chain
    BY <1>0, <2>1, <2>2, NextBlock
  <2>4. PICK z \in NodeState : z = ApplyBlock(node[n], b) /\ z.height = node[n].height + 1
    <3>1. Prepared(node[n], b).height = node[n].height + 1
      BY <2>1, <2>3, PreparedNode
    <3>2. /\ ApplyBlock(node[n], b) \in NodeState
          /\ Companion(Prepared(node[n], b), ApplyBlock(node[n], b))
      BY <2>1, <2>3, BlockCompanion
    <3>. QED
      BY <3>1, <3>2 DEF Companion
  <2>5. z.height \in 0..Len(chain)
    BY <2>1, <2>4
  <2>6. ASSUME TimestampsGrow, NoReturn PROVE Seated(z, TimeAt(chain, z.height))
    <3>1. PICK t \in Nat : t = TimeAt(chain, node[n].height)
      BY <1>0, <1>1, Times
    <3>2. node[n] \in SeatedNodes(t)
      BY <1>1, <2>6, <3>1 DEF SeatedNodes
    <3>3. t <= b.timestamp
      <4>1. CASE node[n].height = 0
        BY <2>3, <3>1, <4>1 DEF TimeAt, WellFormed
      <4>2. CASE node[n].height # 0
        <5>1. node[n].height \in DOMAIN chain /\ node[n].height <= node[n].height + 1
          BY <2>1, <4>2
        <5>. QED
          BY <2>2, <2>3, <2>6, <3>1, <4>2, <5>1 DEF TimeAt, TimestampsGrow
      <4>. QED
        BY <4>1, <4>2
    <3>4. b.op.type = "config" => b.op.duration # InitialDuration
      BY <2>2, <2>3, <2>6 DEF NoReturn
    <3>5. z \in SeatedNodes(b.timestamp)
      BY <2>3, <2>4, <3>2, <3>3, <3>4, BlockSeated
    <3>6. TimeAt(chain, z.height) = b.timestamp
      BY <2>1, <2>2, <2>4 DEF TimeAt
    <3>. QED
      BY <3>5, <3>6 DEF SeatedNodes
  <2>7. node' = [node EXCEPT ![n] = z]
    BY <1>0, <1>3, <2>2, <2>4 DEF NewBlock
  <2>. QED
    BY <2>4, <2>5, <2>6, <2>7, Zenon
<1>4. ASSUME NEW n \in Nodes, Receive(n) \/ Consume(n) \/ Prepare(n) \/ Produce(n)
      PROVE \E z : Fine(z) /\ node' = [node EXCEPT ![n] = z]
  <2>1. node[n] \in NodeState /\ node[n].height \in 0..Len(chain)
    BY <1>1
  <2>2. PICK t \in Nat : t = TimeAt(chain, node[n].height)
    BY <1>0, <2>1, Times
  <2>3. PICK e : e = Epoch(node[n])
    OBVIOUS
  <2>4. node[n].oracle.duration = InitialDuration => e = t \div InitialDuration
    BY <2>2, <2>3 DEF Epoch, epoch_id, Timestamp, TimeAt
  <2>5. PICK z : /\ node' = [node EXCEPT ![n] = z]
                 /\ \/ Idle(node[n], z)
                    \/ \E a \in Messages, R \in SUBSET Reasons :
                          Idle(Attest(node[n], a, e, R), z)
    BY <1>0, <1>4, <2>3, TaskStep, Zenon
  <2>6. PICK w \in NodeState :
           /\ Idle(w, z) /\ w.height = node[n].height
           /\ TimestampsGrow /\ NoReturn => Seated(w, t)
    <3>1. CASE Idle(node[n], z)
      BY <1>1, <2>1, <2>2, <3>1
    <3>2. ASSUME NEW a \in Messages, NEW R \in SUBSET Reasons, NEW w,
                 w = Attest(node[n], a, e, R)
          PROVE  /\ w \in NodeState /\ w.height = node[n].height
                 /\ TimestampsGrow /\ NoReturn => Seated(w, t)
      <4>1. a \in Sendable
        BY DEF Messages
      <4>2. w \in NodeState /\ w.height = node[n].height
        BY <2>1, <3>2, <4>1, AttestCompanion DEF Companion
      <4>3. ASSUME TimestampsGrow, NoReturn PROVE Seated(w, t)
        <5>1. node[n] \in SeatedNodes(t)
          BY <1>1, <2>2, <4>3 DEF SeatedNodes
        <5>. QED
          BY <2>4, <3>2, <4>1, <5>1, AttestSeated DEF SeatedNodes
      <4>. QED
        BY <4>2, <4>3
    <3>. QED
      BY <2>5, <3>1, <3>2, Zenon
  <2>7. z \in NodeState /\ z.height = node[n].height
    BY <2>6 DEF Idle
  <2>8. Seated(w, t) => Seated(z, t)
    BY <2>6, Zenon DEF Idle, Seated, Banned
  <2>. QED
    BY <2>1, <2>2, <2>5, <2>6, <2>7, <2>8, Zenon
<1>5. ASSUME NEW n \in Nodes, Restart(n) PROVE \E z : Fine(z) /\ node' = [node EXCEPT ![n] = z]
  <2>1. node[n] \in NodeState /\ node[n].height \in 0..Len(chain) /\ node[n].height \in Nat
    BY <1>1 DEF NodeState
  <2>2. PICK t \in Nat : t = TimeAt(chain, node[n].height)
    BY <1>0, <2>1, Times
  <2>3. PICK z \in SeatedNodes(t) :
           z = [FreshNode EXCEPT !.height = node[n].height, !.restarted = TRUE]
    BY <2>1, FreshSeated, Zenon
  <2>4. z.height = node[n].height
    BY <2>3 DEF FreshNode
  <2>5. Fine(z)
    BY <2>1, <2>2, <2>3, <2>4 DEF SeatedNodes
  <2>. HIDE DEF Fine
  <2>. QED
    BY <1>5, <2>3, <2>5, Zenon DEF Restart
<1>. HIDE DEF Fine
<1>6. CASE Next
  <2>1. PICK n \in Nodes : \/ NewBlock(n)
                           \/ Receive(n) \/ Consume(n) \/ Prepare(n) \/ Produce(n)
                           \/ Restart(n)
    BY <1>6 DEF Next
  <2>2. chain' = chain
    BY <2>1 DEF NewBlock, Receive, Consume, Prepare, Produce, Restart, inputs
  <2>3. \E z : Fine(z) /\ node' = [node EXCEPT ![n] = z]
    BY <1>3, <1>4, <1>5, <2>1
  <2>. QED
    BY <1>2, <2>2, <2>3, Zenon
<1>7. CASE UNCHANGED vars
  <2>1. chain' = chain /\ node' = node
    BY <1>7 DEF vars
  <2>2. TimestampsGrow' = TimestampsGrow /\ NoReturn' = NoReturn
    BY <2>1 DEF TimestampsGrow, NoReturn
  <2>. QED
    BY <1>0, <2>1, <2>2 DEF SeatedInv
<1>. QED
  BY <1>6, <1>7

\* VotesFromCommittee: on every chain in the order of its timestamps on which no proposal
\* returns to the first epoch length, for any committees, attestations and restarts, a vote
\* counted in the running epoch is from its committee or from one slashed since.
THEOREM CommitteeVotes ==
  Spec => [](TimestampsGrow /\ NoReturn => VotesFromCommittee)
<1>1. SeatedInv => (TimestampsGrow /\ NoReturn => VotesFromCommittee)
  <2>. SUFFICES ASSUME SeatedInv, TimestampsGrow, NoReturn, NEW n \in Nodes,
                       node[n].oracle.duration = InitialDuration, NEW v \in Validators,
                       node[n].oracle.votes[Epoch(node[n])].sov[v] # NoPrice
                PROVE  v \in node[n].oracle.members \cup Banned(node[n])
    BY DEF VotesFromCommittee
  <2>1. PICK t \in Nat : t = TimeAt(chain, node[n].height) /\ t \div InitialDuration \in Epochs
    BY Times DEF SeatedInv, SoundInv
  <2>2. Epoch(node[n]) = t \div InitialDuration
    BY <2>1, Zenon DEF Epoch, epoch_id, Timestamp, TimeAt
  <2>3. Seated(node[n], t)
    BY <2>1 DEF SeatedInv
  <2>. QED
    BY <2>1, <2>2, <2>3, Zenon DEF Seated
<1>2. SeatedInv /\ [Next]_vars => SeatedInv'
  BY NextSeated
<1>. QED
  BY <1>1, <1>2, InitSeated, PTL DEF Spec

---------------------------------------------------------------------------
(* Governance is a function of the chain *)

\* Two nodes with the same committee, epoch length, pending updates and epoch mark.
SameSeats(x, y) ==
    /\ x.last = y.last /\ x.oracle.duration = y.oracle.duration
    /\ x.oracle.members = y.oracle.members
    /\ x.oracle.pending = y.oracle.pending /\ x.oracle.pendingConfig = y.oracle.pendingConfig

\* The pending updates once the proposal of a block is executed.
LEMMA ExecutedUpdates ==
  ASSUME NEW nd \in NodeState, NEW b, WellFormed(b)
  PROVE  LET e == epoch_id(nd.oracle, b.timestamp)
         IN  /\ Executed(nd, b).pending =
                  IF /\ b.op.type = "committee" /\ b.op.members # {}
                     /\ b.op.members \subseteq Validators /\ b.op.activate > e
                  THEN [activate |-> b.op.activate, members |-> b.op.members]
                  ELSE IF b.op.type = "cancel" /\ b.op.committee THEN NoUpdate
                  ELSE nd.oracle.pending
             /\ Executed(nd, b).pendingConfig =
                  IF b.op.type = "config" /\ b.op.duration > 0 /\ b.op.activate > e
                  THEN [activate |-> b.op.activate, duration |-> b.op.duration]
                  ELSE IF b.op.type = "cancel" /\ b.op.config THEN NoUpdate
                  ELSE nd.oracle.pendingConfig
<1>1. nd.oracle \in OracleState /\ nd.height + 1 \in Nat
  BY DEF NodeState
<1>2. PICK o \in OracleState :
         /\ o = Activate(nd.oracle, nd.height + 1)
         /\ o.pending = nd.oracle.pending /\ o.pendingConfig = nd.oracle.pendingConfig
  <2>1. Activate(nd.oracle, nd.height + 1) \in OracleState
    BY <1>1, Zenon DEF Activate, OracleState
  <2>2. /\ Activate(nd.oracle, nd.height + 1).pending = nd.oracle.pending
        /\ Activate(nd.oracle, nd.height + 1).pendingConfig = nd.oracle.pendingConfig
    BY <1>1 DEF Activate, OracleState
  <2>. QED
    BY <2>1, <2>2
<1>3. PICK e : e = epoch_id(nd.oracle, b.timestamp)
  OBVIOUS
<1>. DEFINE x == Execute(o, b.op, e, nd.height + 1)
<1>4. x.pending = IF /\ b.op.type = "committee" /\ b.op.members # {}
                     /\ b.op.members \subseteq Validators /\ b.op.activate > e
                  THEN [activate |-> b.op.activate, members |-> b.op.members]
                  ELSE IF b.op.type = "cancel" /\ b.op.committee THEN NoUpdate
                  ELSE o.pending
  BY DEF Execute, OracleState
<1>5. x.pendingConfig = IF b.op.type = "config" /\ b.op.duration > 0 /\ b.op.activate > e
                        THEN [activate |-> b.op.activate, duration |-> b.op.duration]
                        ELSE IF b.op.type = "cancel" /\ b.op.config THEN NoUpdate
                        ELSE o.pendingConfig
  BY DEF Execute, OracleState
<1>6. Executed(nd, b) = x
  BY <1>2, <1>3 DEF Executed
<1>. HIDE DEF x
<1>. QED
  BY <1>2, <1>3, <1>4, <1>5, <1>6

\* A block leads them to the same committee again.
LEMMA PreparedSame ==
  ASSUME NEW x \in NodeState, NEW y \in NodeState, SameSeats(x, y), NEW b, WellFormed(b)
  PROVE  SameSeats(Prepared(x, b), Prepared(y, b))
<1>1. epoch_id(x.oracle, b.timestamp) = epoch_id(y.oracle, b.timestamp)
  BY DEF SameSeats, epoch_id
<1>2. PICK o \in OracleState : o = Executed(x, b)
  BY ExecutedState
<1>3. PICK p \in OracleState : p = Executed(y, b)
  BY ExecutedState
<1>4. o.pending = p.pending /\ o.pendingConfig = p.pendingConfig
  BY <1>1, <1>2, <1>3, ExecutedUpdates, Zenon DEF SameSeats
<1>5. o.duration = p.duration /\ o.members = p.members
  BY <1>2, <1>3, ExecutedState DEF SameSeats
<1>6. PICK e : e = epoch_id(o, b.timestamp) /\ e = epoch_id(p, b.timestamp)
  BY <1>5 DEF epoch_id
<1>7. Crossed(x, b) <=> Crossed(y, b)
  BY <1>2, <1>3, <1>5 DEF Crossed, should_process_epoch, epoch_id, SameSeats
<1>8. PICK u \in OracleState : u = Updated(x, b)
  BY UpdatedState
<1>9. PICK w \in OracleState : w = Updated(y, b)
  BY UpdatedState
<1>10. /\ u.members = w.members /\ u.pending = w.pending
       /\ u.pendingConfig = w.pendingConfig /\ u.duration = w.duration
  <2>1. CASE Crossed(x, b)
    <3>1. u = apply_pending_updates(o, e) /\ w = apply_pending_updates(p, e)
      BY <1>2, <1>3, <1>6, <1>7, <1>8, <1>9, <2>1, Zenon DEF Updated
    <3>2. ASSUME NEW q \in OracleState
          PROVE  /\ apply_pending_updates(q, e).members
                      = (IF Due(q.pending, e) = "activate" THEN q.pending.members ELSE q.members)
                 /\ apply_pending_updates(q, e).pending
                      = (IF Due(q.pending, e) = "keep" THEN q.pending ELSE NoUpdate)
                 /\ apply_pending_updates(q, e).duration
                      = (IF Due(q.pendingConfig, e) = "activate"
                         THEN q.pendingConfig.duration ELSE q.duration)
                 /\ apply_pending_updates(q, e).pendingConfig
                      = (IF Due(q.pendingConfig, e) = "keep" THEN q.pendingConfig ELSE NoUpdate)
      BY DEF apply_pending_updates, OracleState
    <3>. QED
      BY <1>4, <1>5, <3>1, <3>2
  <2>2. CASE ~ Crossed(x, b)
    <3>1. u = o /\ w = p
      BY <1>2, <1>3, <1>7, <1>8, <1>9, <2>2 DEF Updated
    <3>. QED
      BY <1>4, <1>5, <3>1
  <2>. QED
    BY <2>1, <2>2
<1>11. /\ Prepared(x, b).oracle = u /\ Prepared(y, b).oracle = w
       /\ Prepared(x, b).last = Prepared(y, b).last
  BY <1>7, <1>8, <1>9, PreparedNode DEF SameSeats
<1>. QED
  BY <1>10, <1>11 DEF SameSeats

\* S is the course of a node that hears no attestation: its state at each height of chain c.
Course(c, S) ==
    /\ S \in [0..Len(c) -> NodeState]
    /\ S[0] = FreshNode
    /\ \A h \in 0..Len(c) : h < Len(c) => S[h + 1] = Prepared(S[h], c[h + 1])

\* Every chain has such a course.
LEMMA CourseExists ==
  ASSUME NEW c \in Chains
  PROVE  \E S : Course(c, S)
<1>1. PICK k \in Nat : k = Len(c) /\ DOMAIN c = 1..k
  BY OracleAssumption
<1>2. FreshNode \in NodeState
  BY FreshNodeType, Zenon
<1>. DEFINE Upto(m, S) ==
        /\ S \in [0..m -> NodeState]
        /\ S[0] = FreshNode
        /\ \A h \in 0..m : h < m => S[h + 1] = Prepared(S[h], c[h + 1])
            Good == {m \in Nat : m <= k => \E S : Upto(m, S)}
<1>3. 0 \in Good
  <2>1. Upto(0, [h \in 0..0 |-> FreshNode])
    BY <1>2
  <2>. QED
    BY <2>1, Zenon
<1>4. ASSUME NEW m \in Nat, m \in Good PROVE m + 1 \in Good
  <2>0. m + 1 \in Nat
    OBVIOUS
  <2>. SUFFICES ASSUME m + 1 <= k PROVE \E S : Upto(m + 1, S)
    BY <2>0
  <2>1. PICK S : Upto(m, S)
    BY <1>4
  <2>. DEFINE z == Prepared(S[m], c[m + 1])
              T == [h \in 0..(m + 1) |-> IF h = m + 1 THEN z ELSE S[h]]
  <2>2. z \in NodeState
    <3>1. m + 1 \in DOMAIN c /\ S[m] \in NodeState
      BY <1>1, <2>1
    <3>2. WellFormed(c[m + 1])
      BY <3>1, OracleAssumption
    <3>. QED
      BY <3>1, <3>2, PreparedNode
  <2>3. /\ \A h \in 0..m : T[h] = S[h]
        /\ T[m + 1] = z
    OBVIOUS
  <2>4. T \in [0..(m + 1) -> NodeState]
    <3>. HIDE DEF z
    <3>1. \A h \in 0..(m + 1) : h = m + 1 \/ h \in 0..m
      OBVIOUS
    <3>. QED
      BY <2>1, <2>2, <3>1
  <2>. HIDE DEF T
  <2>5. ASSUME NEW h \in 0..(m + 1), h < m + 1 PROVE T[h + 1] = Prepared(T[h], c[h + 1])
    <3>1. CASE h = m
      BY <2>3, <3>1
    <3>2. CASE h # m
      <4>1. h \in 0..m /\ h + 1 \in 0..m /\ h < m
        BY <2>5, <3>2
      <4>. QED
        BY <2>1, <2>3, <4>1
    <3>. QED
      BY <3>1, <3>2
  <2>6. Upto(m + 1, T)
    BY <2>1, <2>3, <2>4, <2>5
  <2>. QED
    BY <2>6
<1>. HIDE DEF Good
<1>5. k \in Good
  BY <1>3, <1>4, NumberInduction
<1>. QED
  BY <1>1, <1>5 DEF Good, Course

\* The timestamps of c are in order and no proposal on it changes the epoch length.
Orderly(c) ==
    /\ \A i, j \in DOMAIN c : i <= j => c[i].timestamp <= c[j].timestamp
    /\ \A i \in DOMAIN c : c[i].op.type # "config"

\* The epoch of the block at height h, while epochs have their first length.
EpochAt(c, h) == TimeAt(c, h) \div InitialDuration

\* One height further on an orderly chain.
LEMMA NextTime ==
  ASSUME NEW c \in Chains, Orderly(c), NEW h \in 0..Len(c), h < Len(c)
  PROVE  /\ WellFormed(c[h + 1]) /\ c[h + 1].op.type # "config"
         /\ TimeAt(c, h) \in Nat /\ TimeAt(c, h + 1) = c[h + 1].timestamp
         /\ TimeAt(c, h) <= TimeAt(c, h + 1)
         /\ EpochAt(c, h) \in Nat /\ EpochAt(c, h) <= EpochAt(c, h + 1)
<1>1. Len(c) \in Nat /\ DOMAIN c = 1..Len(c) /\ h + 1 \in DOMAIN c /\ h \in Nat /\ h + 1 # 0
  BY OracleAssumption
<1>2. WellFormed(c[h + 1]) /\ c[h + 1].op.type # "config"
  BY <1>1, OracleAssumption DEF Orderly
<1>3. TimeAt(c, h) \in Nat
  BY Times
<1>4. TimeAt(c, h + 1) = c[h + 1].timestamp
  BY <1>1 DEF TimeAt
<1>5. TimeAt(c, h) <= c[h + 1].timestamp
  <2>1. CASE h = 0
    BY <1>2, <2>1 DEF TimeAt, WellFormed
  <2>2. CASE h # 0
    <3>1. h \in DOMAIN c /\ h <= h + 1
      BY <1>1, <2>2
    <3>. QED
      BY <1>1, <2>2, <3>1 DEF TimeAt, Orderly
  <2>. QED
    BY <2>1, <2>2
<1>6. c[h + 1].timestamp \in Nat
  BY <1>2 DEF WellFormed
<1>. QED
  BY <1>2, <1>3, <1>4, <1>5, <1>6, EpochsGrow, OracleAssumption, Zenon DEF EpochAt

\* On an orderly chain the course is seated and keeps the first epoch length.
LEMMA CourseSeated ==
  ASSUME NEW c \in Chains, Orderly(c), NEW S, Course(c, S), NEW k \in 0..Len(c)
  PROVE  /\ S[k] \in SeatedNodes(TimeAt(c, k))
         /\ S[k].oracle.duration = InitialDuration /\ S[k].oracle.pendingConfig = NoUpdate
<1>. DEFINE Calm(h) == /\ S[h] \in SeatedNodes(TimeAt(c, h))
                       /\ S[h].oracle.duration = InitialDuration
                       /\ S[h].oracle.pendingConfig = NoUpdate
            Good == {m \in Nat : m <= Len(c) => Calm(m)}
<1>0. Len(c) \in Nat /\ k \in Nat
  BY OracleAssumption
<1>1. 0 \in Good
  <2>1. S[0] = FreshNode
    BY DEF Course
  <2>2. FreshNode \in SeatedNodes(0)
    <3>1. FreshNode = [FreshNode EXCEPT !.height = 0, !.restarted = FALSE]
      <4>1. FreshNode.height = 0 /\ FreshNode.restarted = FALSE
        BY DEF FreshNode
      <4>2. FreshNode \in NodeState
        BY FreshNodeType, Zenon
      <4>. QED
        BY <4>1, <4>2, Zenon DEF NodeState
    <3>. QED
      BY <3>1, FreshSeated, Zenon
  <2>3. /\ FreshNode.oracle.duration = InitialDuration
        /\ FreshNode.oracle.pendingConfig = NoUpdate
    BY DEF FreshNode, Bootstrap
  <2>4. TimeAt(c, 0) = 0
    BY DEF TimeAt
  <2>5. Calm(0)
    BY <2>1, <2>2, <2>3, <2>4
  <2>. QED
    BY <2>5
<1>2. ASSUME NEW m \in Nat, m \in Good PROVE m + 1 \in Good
  <2>0. m + 1 \in Nat
    OBVIOUS
  <2>. SUFFICES ASSUME m + 1 <= Len(c) PROVE Calm(m + 1)
    BY <2>0
  <2>1. m \in 0..Len(c) /\ m < Len(c) /\ m <= Len(c)
    BY <1>0
  <2>2. Calm(m)
    BY <1>2, <2>1
  <2>3. PICK b : b = c[m + 1]
    OBVIOUS
  <2>4. /\ WellFormed(b) /\ b.op.type # "config" /\ TimeAt(c, m) \in Nat
        /\ TimeAt(c, m + 1) = b.timestamp /\ TimeAt(c, m) <= b.timestamp
    BY <2>1, <2>3, NextTime
  <2>5. PICK x : x = S[m] /\ x \in NodeState
    BY <2>2 DEF SeatedNodes
  <2>6. S[m + 1] = Prepared(x, b)
    BY <2>1, <2>3, <2>5 DEF Course
  <2>7. Prepared(x, b) \in SeatedNodes(b.timestamp)
    BY <2>2, <2>4, <2>5, PreparedSeated
  <2>8. Executed(x, b).pendingConfig = NoUpdate /\ Executed(x, b).duration = InitialDuration
    BY <2>2, <2>4, <2>5, ExecutedState
  <2>9. /\ Updated(x, b).pendingConfig = NoUpdate
        /\ Updated(x, b).duration = InitialDuration
    BY <2>4, <2>5, <2>8, BoundaryState
  <2>10. Prepared(x, b).oracle = Updated(x, b)
    BY <2>4, <2>5, PreparedNode
  <2>. QED
    BY <2>4, <2>6, <2>7, <2>9, <2>10
<1>. HIDE DEF Good
<1>3. k \in Good
  BY <1>0, <1>1, <1>2, NumberInduction
<1>. QED
  BY <1>0, <1>3 DEF Good

\* On an orderly chain the blocks of one epoch have one committee.
LEMMA OneCommittee ==
  ASSUME NEW c \in Chains, Orderly(c), NEW S, Course(c, S),
         NEW j \in 0..Len(c), NEW i \in 0..j, EpochAt(c, i) = EpochAt(c, j)
  PROVE  S[i].oracle.members = S[j].oracle.members
<1>. DEFINE Later(m) == \A a \in 0..m : /\ EpochAt(c, a) \in Nat /\ EpochAt(c, a) <= EpochAt(c, m)
                                        /\ EpochAt(c, a) = EpochAt(c, m)
                                             => S[a].oracle.members = S[m].oracle.members
            Good == {m \in Nat : m <= Len(c) => Later(m)}
<1>0. Len(c) \in Nat /\ j \in Nat /\ j <= Len(c)
  BY OracleAssumption
<1>1. 0 \in Good
  <2>1. 0 \in 0..Len(c)
    BY <1>0
  <2>2. EpochAt(c, 0) \in Nat
    BY <2>1, Times, OracleAssumption DEF EpochAt
  <2>3. Later(0)
    BY <2>2
  <2>. QED
    BY <2>3
<1>2. ASSUME NEW m \in Nat, m \in Good PROVE m + 1 \in Good
  <2>0. m + 1 \in Nat
    OBVIOUS
  <2>. SUFFICES ASSUME m + 1 <= Len(c) PROVE Later(m + 1)
    BY <2>0
  <2>1. m \in 0..Len(c) /\ m < Len(c) /\ m <= Len(c) /\ m + 1 \in 0..Len(c)
    BY <1>0
  <2>2. Later(m)
    BY <1>2, <2>1
  <2>3. PICK b : b = c[m + 1]
    OBVIOUS
  <2>4. /\ WellFormed(b) /\ b.op.type # "config" /\ TimeAt(c, m) \in Nat
        /\ TimeAt(c, m + 1) = b.timestamp /\ TimeAt(c, m) <= b.timestamp
        /\ EpochAt(c, m) \in Nat /\ EpochAt(c, m) <= EpochAt(c, m + 1)
    BY <2>1, <2>3, NextTime
  <2>5. EpochAt(c, m + 1) \in Nat
    BY <2>1, Times, OracleAssumption DEF EpochAt
  <2>6. S[m] \in SeatedNodes(TimeAt(c, m)) /\ S[m + 1].oracle.duration = InitialDuration
    BY <2>1, CourseSeated
  <2>7. S[m + 1] = Prepared(S[m], b)
    BY <2>1, <2>3 DEF Course
  <2>8. EpochAt(c, m + 1) = EpochAt(c, m) => S[m + 1].oracle.members = S[m].oracle.members
    BY <2>4, <2>6, <2>7, PreparedSeated DEF EpochAt
  <2>9. ASSUME NEW a \in 0..(m + 1)
        PROVE  /\ EpochAt(c, a) \in Nat /\ EpochAt(c, a) <= EpochAt(c, m + 1)
               /\ EpochAt(c, a) = EpochAt(c, m + 1)
                    => S[a].oracle.members = S[m + 1].oracle.members
    <3>1. CASE a = m + 1
      BY <2>5, <3>1
    <3>2. CASE a # m + 1
      <4>1. a \in 0..m
        BY <3>2
      <4>2. /\ EpochAt(c, a) \in Nat /\ EpochAt(c, a) <= EpochAt(c, m)
            /\ EpochAt(c, a) = EpochAt(c, m) => S[a].oracle.members = S[m].oracle.members
        BY <2>2, <4>1
      <4>3. EpochAt(c, a) = EpochAt(c, m + 1)
              => EpochAt(c, a) = EpochAt(c, m) /\ EpochAt(c, m + 1) = EpochAt(c, m)
        BY <2>4, <2>5, <4>2
      <4>4. EpochAt(c, a) <= EpochAt(c, m + 1)
        BY <2>4, <2>5, <4>2
      <4>. QED
        BY <2>8, <4>2, <4>3, <4>4
    <3>. QED
      BY <3>1, <3>2
  <2>. QED
    BY <2>9
<1>. HIDE DEF Good
<1>3. j \in Good
  BY <1>0, <1>1, <1>2, NumberInduction
<1>. QED
  BY <1>0, <1>3 DEF Good

\* M has the committee of each epoch of the chain.
Committees(c, S, M) ==
    /\ M \in [Epochs -> SUBSET Validators]
    /\ \A h \in 0..Len(c) : EpochAt(c, h) \in Epochs /\ M[EpochAt(c, h)] = S[h].oracle.members

\* There are such committees on an orderly chain.
LEMMA CommitteesExist ==
  ASSUME NEW c \in Chains, Orderly(c), NEW S, Course(c, S)
  PROVE  \E M : Committees(c, S, M)
<1>. DEFINE At(d) == {h \in 0..Len(c) : EpochAt(c, h) = d}
            M == [d \in Epochs |-> IF At(d) = {} THEN {}
                                   ELSE S[CHOOSE h \in At(d) : TRUE].oracle.members]
<1>0. Len(c) \in Nat
  BY OracleAssumption
<1>1. \A h \in 0..Len(c) : S[h].oracle.members \in SUBSET Validators
  BY DEF Course, NodeState, OracleState
<1>2. \A d \in Epochs : At(d) # {} => (CHOOSE h \in At(d) : TRUE) \in At(d)
  OBVIOUS
<1>3. M \in [Epochs -> SUBSET Validators]
  BY <1>1, <1>2, Zenon
<1>4. ASSUME NEW h \in 0..Len(c)
      PROVE  EpochAt(c, h) \in Epochs /\ M[EpochAt(c, h)] = S[h].oracle.members
  <2>1. EpochAt(c, h) \in Epochs
    BY Times DEF EpochAt
  <2>2. h \in At(EpochAt(c, h))
    OBVIOUS
  <2>3. PICK i \in 0..Len(c) : /\ EpochAt(c, i) = EpochAt(c, h)
                               /\ M[EpochAt(c, h)] = S[i].oracle.members
    BY <1>2, <2>1, <2>2, Zenon
  <2>. HIDE DEF M
  <2>4. i \in 0..h \/ h \in 0..i
    BY <1>0
  <2>5. S[i].oracle.members = S[h].oracle.members
    BY <2>3, <2>4, OneCommittee
  <2>. QED
    BY <2>1, <2>3, <2>5
<1>. HIDE DEF M
<1>. QED
  BY <1>3, <1>4 DEF Committees

---------------------------------------------------------------------------
(* Agreement on SOV prices *)

\* The votes y has counted are from the committees M of their epochs, and a finalized price
\* has reached the threshold of the committee of its epoch.
Elected(y, M) ==
    \A d \in Epochs :
        /\ \A v \in Validators : y.oracle.votes[d].sov[v] # NoPrice => v \in M[d]
        /\ Finalized(y.oracle, d) =>
             Cardinality({v \in Validators : y.oracle.votes[d].sov[v] = y.oracle.prices[d].sov})
               >= threshold(M[d])

\* y has the committee of epoch e.
Serves(y, e, M) == e \in Epochs => y.oracle.members = M[e]

\* M has a committee for every epoch.
Seating(M) == M \in [Epochs -> SUBSET Validators]

\* w is y once it has dealt with an attestation, and has slashed nobody.
Considered(w, y, a, e, R) ==
    /\ y \in NodeState /\ a \in Sendable /\ R \in SUBSET Reasons
    /\ w = Attest(y, a, e, R) /\ w.slashed = {}

\* w is y once it has applied block b, x before the block's attestations, and has slashed nobody.
Applied(w, x, y, b) ==
    /\ y \in NodeState /\ WellFormed(b)
    /\ x = Prepared(y, b) /\ w = ApplyBlock(y, b) /\ w.slashed = {}

\* An attestation for which nobody is slashed leaves the votes elected, as long as the node has
\* the committee of the running epoch.
LEMMA AttestElected ==
  ASSUME NEW M, NEW y, NEW a, NEW e, NEW R, NEW w,
         Seating(M), Considered(w, y, a, e, R), Elected(y, M), Serves(y, e, M)
  PROVE  Elected(w, M) /\ w.oracle.members = y.oracle.members
<1>. /\ M \in [Epochs -> SUBSET Validators]
     /\ y \in NodeState /\ a \in Sendable /\ R \in SUBSET Reasons
     /\ w = Attest(y, a, e, R) /\ w.slashed = {}
  BY DEF Seating, Considered
<1>0. /\ a.signer \in Validators /\ a.epoch \in Epochs /\ a.sov \in Prices
      /\ a.cbe \in CbePrices \cup {NoPrice}
  BY AttestationParts
<1>2. y.oracle \in OracleState
  BY DEF NodeState
<1>3. CASE w = y
  BY <1>3
<1>4. ASSUME NEW r \in Reasons, w = slash_oracle_validator(y, a.signer, r)
      PROVE  FALSE
  <2>1. slash_oracle_validator(y, a.signer, r).slashed = y.slashed \cup {<<a.signer, r>>}
    BY <1>0, SlashedNode
  <2>2. slash_oracle_validator(y, a.signer, r).slashed = {}
    BY <1>4
  <2>. QED
    BY <2>1, <2>2, Zenon
<1>5. CASE /\ e \in Epochs
           /\ w = [y EXCEPT !.oracle = Count(y.oracle, a, e)]
           /\ \/ Finalized(y.oracle, e)
              \/ y.oracle.votes[e].sov[a.signer] = a.sov
              \/ a.signer \in y.oracle.members
  <2>1. PICK V \in EpochState, P \in PriceRecord : CountedAs(y.oracle, a, e, V, P)
    BY <1>2, <1>5, CountedVotes
  <2>2. PICK z : z = CountedIn(y, e, V, P) /\ DiffersBy(z, y, e, V, P)
    BY <1>5, CountedNode
  <2>3. w = z
    BY <1>5, <2>1, <2>2 DEF CountedAs, CountedIn
  <2>4. z.oracle.members = y.oracle.members
    BY <2>2 DEF DiffersBy
  <2>5. /\ y.oracle.votes \in [Epochs -> EpochState] /\ y.oracle.votes[e] \in EpochState
        /\ y.oracle.prices \in [Epochs -> PriceRecord]
    BY <1>2, <1>5 DEF OracleState
  <2>6. /\ z.oracle.votes[e] = V /\ z.oracle.prices[e] = P
        /\ \A d \in Epochs \ {e} : /\ z.oracle.votes[d] = y.oracle.votes[d]
                                   /\ z.oracle.prices[d] = y.oracle.prices[d]
    BY <1>5, <2>2, <2>5 DEF DiffersBy
  <2>7. y.oracle.votes[e].sov \in [Validators -> Prices \cup {NoPrice}]
    BY <2>5 DEF EpochState
  <2>8. a.sov # NoPrice
    BY <1>0, OracleAssumption
  <2>9. ASSUME NEW v \in Validators, V.sov[v] # NoPrice PROVE v \in M[e]
    <3>1. V.sov[v] = y.oracle.votes[e].sov[v] \/ (v = a.signer /\ ~ Finalized(y.oracle, e))
      BY <1>0, <2>1, <2>7, Zenon DEF CountedAs
    <3>2. y.oracle.votes[e].sov[v] # NoPrice => v \in M[e]
      BY <1>5, Zenon DEF Elected
    <3>. QED
      BY <1>5, <2>8, <2>9, <3>1, <3>2 DEF Serves
  <2>10. ASSUME Finalized(z.oracle, e)
         PROVE  Cardinality({v \in Validators : V.sov[v] = P.sov}) >= threshold(M[e])
    <3>1. P.sov # NoPrice
      BY <2>6, <2>10 DEF Finalized
    <3>2. CASE Finalized(y.oracle, e)
      <4>1. V.sov = y.oracle.votes[e].sov /\ P.sov = y.oracle.prices[e].sov
        BY <2>1, <3>2, Zenon DEF CountedAs
      <4>. QED
        BY <1>5, <3>2, <4>1 DEF Elected
    <3>3. CASE ~ Finalized(y.oracle, e)
      <4>1. P # y.oracle.prices[e]
        BY <3>1, <3>3 DEF Finalized
      <4>2. Cardinality({v \in Validators : V.sov[v] = a.sov}) >= threshold(y.oracle.members)
        BY <2>1, <3>3, <4>1, Zenon DEF CountedAs
      <4>3. P = [sov |-> a.sov, cbe |-> V.winningCbe]
        BY <2>1, <3>3, <4>1, Zenon DEF CountedAs
      <4>4. P.sov = a.sov
        BY <4>3, Zenon
      <4>. QED
        BY <1>5, <4>2, <4>4 DEF Serves
    <3>. QED
      BY <3>2, <3>3, Zenon
  <2>11. ASSUME NEW d \in Epochs
         PROVE  /\ \A v \in Validators : z.oracle.votes[d].sov[v] # NoPrice => v \in M[d]
                /\ Finalized(z.oracle, d) =>
                     Cardinality({v \in Validators :
                                    z.oracle.votes[d].sov[v] = z.oracle.prices[d].sov})
                       >= threshold(M[d])
    <3>1. CASE d = e
      BY <2>6, <2>9, <2>10, <3>1, Zenon
    <3>2. CASE d # e
      BY <2>6, <3>2, Zenon DEF Elected, Finalized
    <3>. QED
      BY <3>1, <3>2, Zenon
  <2>12. Elected(z, M)
    BY <2>11, Zenon DEF Elected
  <2>. QED
    BY <2>3, <2>4, <2>12
<1>6. "conflicting_signer" \in Reasons /\ "deviation_band" \in Reasons
  BY DEF Reasons
<1>. QED
  BY <1>3, <1>4, <1>5, <1>6, AttestCases

\* The same for the attestations of a block.
LEMMA BlockElected ==
  ASSUME NEW M, NEW nd, NEW b, NEW x, NEW w,
         Seating(M), Applied(w, x, nd, b), Elected(nd, M),
         Serves(x, epoch_id(Updated(nd, b), b.timestamp), M)
  PROVE  Elected(w, M) /\ w.oracle.members = x.oracle.members
<1>. /\ nd \in NodeState /\ WellFormed(b)
     /\ x = Prepared(nd, b) /\ w = ApplyBlock(nd, b) /\ w.slashed = {}
  BY DEF Applied
<1>2. /\ x \in NodeState
      /\ x.oracle.votes = nd.oracle.votes /\ x.oracle.prices = nd.oracle.prices
  BY PreparedNode, UpdatedState
<1>3. Elected(x, M)
  BY <1>2, Zenon DEF Elected, Finalized
<1>. DEFINE Good == {y \in NodeState :
                       y.slashed = {} => Elected(y, M) /\ y.oracle.members = x.oracle.members}
            e == epoch_id(Updated(nd, b), b.timestamp)
<1>4. b.attestations \in Seq(Sendable) /\ InBlock \in SUBSET Reasons
  BY DEF WellFormed, InBlock, Reasons
<1>5. Serves(x, e, M)
  OBVIOUS
<1>. HIDE DEF e
<1>6. ASSUME NEW y \in Good, NEW i \in DOMAIN b.attestations
      PROVE  Attest(y, b.attestations[i], e, InBlock) \in Good
  <2>1. PICK a \in Sendable : a = b.attestations[i]
    BY <1>4
  <2>2. PICK z : z = Attest(y, a, e, InBlock)
    OBVIOUS
  <2>3. y \in NodeState /\ (y.slashed = {} => Elected(y, M) /\ y.oracle.members = x.oracle.members)
    OBVIOUS
  <2>4. z \in NodeState /\ y.slashed \subseteq z.slashed
    BY <1>4, <2>2, <2>3, AttestCompanion, Zenon DEF Companion
  <2>5. ASSUME z.slashed = {} PROVE Elected(z, M) /\ z.oracle.members = x.oracle.members
    <3>1. Elected(y, M) /\ y.oracle.members = x.oracle.members
      BY <2>3, <2>4, <2>5
    <3>2. Serves(y, e, M)
      BY <1>5, <3>1 DEF Serves
    <3>3. Elected(z, M) /\ z.oracle.members = y.oracle.members
      <4>1. Considered(z, y, a, e, InBlock)
        BY <1>4, <2>2, <2>3, <2>5, Zenon DEF Considered
      <4>. QED
        BY <3>1, <3>2, <4>1, AttestElected
    <3>. QED
      BY <3>1, <3>3, Zenon
  <2>6. z \in Good
    BY <2>4, <2>5, Zenon
  <2>. QED
    BY <2>1, <2>2, <2>6, Zenon
<1>7. x \in Good
  BY <1>2, <1>3
<1>. HIDE DEF Good
<1>8. Attested(x, b.attestations, e) \in Good
  BY <1>4, <1>6, <1>7, AttestationInduction, Zenon
<1>9. w = Attested(x, b.attestations, e)
  BY BlockParts DEF e
<1>. QED
  BY <1>8, <1>9 DEF Good

\* A node that has not restarted and slashed nobody follows course S and its votes are from
\* committees M.
Follows(y, S, M) ==
    ~ y.restarted /\ y.slashed = {} => SameSeats(S[y.height], y) /\ Elected(y, M)

\* The inductive invariant behind SovAgreement.
AgreementInv ==
    /\ SeatedInv
    /\ Orderly(chain) =>
         \E S, M : /\ Course(chain, S) /\ Committees(chain, S, M)
                   /\ \A n \in Nodes : Follows(node[n], S, M)

\* A fresh node follows every course.
LEMMA InitAgreement ==
  Init => AgreementInv
<1>. SUFFICES ASSUME Init PROVE AgreementInv
  OBVIOUS
<1>1. SeatedInv /\ chain \in Chains
  BY InitSeated DEF Init
<1>2. ASSUME Orderly(chain), NEW S, Course(chain, S), NEW M, Committees(chain, S, M)
      PROVE  \A n \in Nodes : Follows(node[n], S, M)
  <2>1. \A n \in Nodes : node[n] = FreshNode
    BY DEF Init
  <2>2. FreshNode.height = 0 /\ S[0] = FreshNode
    BY <1>2 DEF FreshNode, Course
  <2>3. FreshNode.oracle = Bootstrap
    BY DEF FreshNode
  <2>4. \A e \in Epochs : /\ Bootstrap.votes[e] = NoVotes
                          /\ Bootstrap.prices[e] = [sov |-> NoPrice, cbe |-> NoPrice]
    BY DEF Bootstrap
  <2>5. \A v \in Validators : NoVotes.sov[v] = NoPrice
    BY DEF NoVotes
  <2>6. Elected(FreshNode, M)
    BY <2>3, <2>4, <2>5 DEF Elected, Finalized
  <2>7. SameSeats(FreshNode, FreshNode)
    BY DEF SameSeats
  <2>. QED
    BY <2>1, <2>2, <2>6, <2>7 DEF Follows
<1>3. ASSUME Orderly(chain)
      PROVE  \E S, M : /\ Course(chain, S) /\ Committees(chain, S, M)
                       /\ \A n \in Nodes : Follows(node[n], S, M)
  <2>1. PICK S : Course(chain, S)
    BY <1>1, CourseExists
  <2>2. PICK M : Committees(chain, S, M)
    BY <1>1, <1>3, <2>1, CommitteesExist
  <2>. QED
    BY <1>2, <1>3, <2>1, <2>2
<1>. QED
  BY <1>1, <1>3 DEF AgreementInv

\* On an orderly chain a node that follows the course has the committee of the running epoch.
LEMMA CourseCommittee ==
  ASSUME NEW c \in Chains, Orderly(c), NEW S, Course(c, S), NEW M, Committees(c, S, M),
         NEW h \in 0..Len(c), NEW y, SameSeats(S[h], y)
  PROVE  /\ epoch_id(y.oracle, TimeAt(c, h)) = EpochAt(c, h)
         /\ y.oracle.members = M[EpochAt(c, h)]
<1>1. S[h].oracle.duration = InitialDuration
  BY CourseSeated
<1>2. y.oracle.duration = InitialDuration /\ y.oracle.members = S[h].oracle.members
  BY <1>1 DEF SameSeats
<1>. QED
  BY <1>2 DEF epoch_id, EpochAt, Committees

\* A block takes a node that follows the course one height further on it.
LEMMA BlockFollows ==
  ASSUME NEW c \in Chains, Orderly(c), NEW S, Course(c, S), NEW M, Committees(c, S, M),
         NEW y \in NodeState, y.height < Len(c), Follows(y, S, M),
         NEW b, b = c[y.height + 1]
  PROVE  Follows(ApplyBlock(y, b), S, M)
<1>0. y \in NodeState /\ y.height \in Nat /\ Len(c) \in Nat
  BY OracleAssumption, Zenon DEF NodeState
<1>1. PICK h \in 0..Len(c) : h = y.height /\ h < Len(c) /\ h + 1 \in 0..Len(c) /\ b = c[h + 1]
  BY <1>0
<1>2. WellFormed(b) /\ TimeAt(c, h + 1) = b.timestamp
  BY <1>1, NextTime
<1>3. PICK x \in NodeState : /\ x = Prepared(y, b) /\ x.height = h + 1
                             /\ x.restarted = y.restarted /\ x.oracle = Updated(y, b)
                             /\ x.slashed = y.slashed
  BY <1>0, <1>1, <1>2, PreparedNode, Zenon
<1>4. PICK z \in NodeState : z = ApplyBlock(y, b) /\ Companion(x, z)
  BY <1>0, <1>2, <1>3, BlockCompanion
<1>5. z.height = h + 1 /\ z.restarted = y.restarted /\ y.slashed \subseteq z.slashed
  BY <1>3, <1>4 DEF Companion
<1>6. ASSUME ~ y.restarted, z.slashed = {} PROVE SameSeats(S[h + 1], z) /\ Elected(z, M)
  <2>1. SameSeats(S[h], y) /\ Elected(y, M)
    BY <1>1, <1>5, <1>6 DEF Follows
  <2>2. S[h] \in NodeState /\ S[h + 1] = Prepared(S[h], b)
    BY <1>1 DEF Course
  <2>3. SameSeats(S[h + 1], x)
    BY <1>0, <1>2, <1>3, <2>1, <2>2, PreparedSame
  <2>4. /\ epoch_id(x.oracle, TimeAt(c, h + 1)) = EpochAt(c, h + 1)
        /\ x.oracle.members = M[EpochAt(c, h + 1)]
    <3>1. PICK k \in 0..Len(c) : k = h + 1
      BY <1>1
    <3>2. SameSeats(S[k], x)
      BY <2>3, <3>1
    <3>3. epoch_id(x.oracle, TimeAt(c, k)) = EpochAt(c, k) /\ x.oracle.members = M[EpochAt(c, k)]
      BY <3>2, CourseCommittee
    <3>. QED
      BY <3>1, <3>3, Zenon
  <2>5. Serves(x, epoch_id(Updated(y, b), b.timestamp), M)
    BY <1>2, <1>3, <2>4, Zenon DEF Serves
  <2>6. Seating(M)
    BY DEF Seating, Committees
  <2>7. Elected(z, M) /\ z.oracle.members = x.oracle.members
    <3>1. Applied(z, x, y, b)
      BY <1>0, <1>2, <1>3, <1>4, <1>6, Zenon DEF Applied
    <3>. QED
      BY <2>1, <2>5, <2>6, <3>1, BlockElected
  <2>8. SameSeats(S[h + 1], z)
    BY <1>4, <2>3, <2>7, Zenon DEF SameSeats, Companion, Steady
  <2>. QED
    BY <2>7, <2>8
<1>. QED
  BY <1>4, <1>5, <1>6 DEF Follows

\* A message leaves it on the course.
LEMMA MessageFollows ==
  ASSUME NEW c \in Chains, Orderly(c), NEW S, Course(c, S), NEW M, Committees(c, S, M),
         NEW y \in NodeState, y.height \in 0..Len(c), Follows(y, S, M),
         NEW a \in Sendable, NEW e, e = epoch_id(y.oracle, TimeAt(c, y.height)),
         NEW R \in SUBSET Reasons
  PROVE  Follows(Attest(y, a, e, R), S, M)
<1>1. PICK d : d = e
  OBVIOUS
<1>2. Seating(M)
  BY DEF Seating, Committees
<1>3. PICK z \in NodeState : z = Attest(y, a, d, R) /\ Companion(y, z)
  BY AttestCompanion
<1>4. z.height = y.height /\ z.restarted = y.restarted /\ y.slashed \subseteq z.slashed
  BY <1>3 DEF Companion
<1>5. ASSUME ~ y.restarted, z.slashed = {} PROVE SameSeats(S[y.height], z) /\ Elected(z, M)
  <2>1. SameSeats(S[y.height], y) /\ Elected(y, M)
    BY <1>4, <1>5 DEF Follows
  <2>2. y.oracle.members = M[d]
    BY <1>1, <2>1, CourseCommittee
  <2>3. Elected(z, M) /\ z.oracle.members = y.oracle.members
    <3>1. Serves(y, d, M)
      BY <2>2 DEF Serves
    <3>2. Considered(z, y, a, d, R)
      BY <1>3, <1>5 DEF Considered
    <3>. QED
      BY <1>2, <2>1, <3>1, <3>2, AttestElected
  <2>4. SameSeats(S[y.height], z)
    BY <1>3, <2>1, <2>3, Zenon DEF SameSeats, Companion, Steady
  <2>. QED
    BY <2>3, <2>4
<1>. QED
  BY <1>1, <1>3, <1>4, <1>5, Zenon DEF Follows

\* Every step leaves the nodes on the course.
LEMMA NextAgreement ==
  ASSUME AgreementInv, [Next]_vars
  PROVE  AgreementInv'
<1>0. /\ SeatedInv /\ SeatedInv'
      /\ chain \in Chains /\ node \in [Nodes -> NodeState]
      /\ \A n \in Nodes : node[n].height \in 0..Len(chain)
  BY NextSeated DEF AgreementInv, SeatedInv, SoundInv, SoundNodes
<1>1. chain' = chain
  BY Zenon DEF Next, NewBlock, Receive, Consume, Prepare, Produce, Restart, vars, inputs
<1>2. (Orderly(chain))' = Orderly(chain)
  BY <1>1 DEF Orderly
<1>3. ASSUME Orderly(chain)
      PROVE  \E S, M : /\ Course(chain, S) /\ Committees(chain, S, M)
                       /\ \A n \in Nodes : Follows(node'[n], S, M)
  <2>1. PICK S, M : /\ Course(chain, S) /\ Committees(chain, S, M)
                    /\ \A n \in Nodes : Follows(node[n], S, M)
    BY <1>3 DEF AgreementInv
  <2>3. ASSUME NEW n \in Nodes, NEW z, Follows(z, S, M), node' = [node EXCEPT ![n] = z]
        PROVE  \A k \in Nodes : Follows(node'[k], S, M)
    <3>1. \A k \in Nodes : node'[k] = IF k = n THEN z ELSE node[k]
      BY <1>0, <2>3
    <3>. QED
      BY <2>1, <2>3, <3>1
  <2>4. ASSUME NEW n \in Nodes, NewBlock(n)
        PROVE  \E z : Follows(z, S, M) /\ node' = [node EXCEPT ![n] = z]
    <3>1. node[n] \in NodeState /\ node[n].height < Len(chain)
      BY <1>0, <2>4 DEF NewBlock
    <3>2. PICK b : b = chain[node[n].height + 1]
      OBVIOUS
    <3>4. Follows(ApplyBlock(node[n], b), S, M)
      BY <1>0, <1>3, <2>1, <3>1, <3>2, BlockFollows
    <3>5. node' = [node EXCEPT ![n] = ApplyBlock(node[n], b)]
      BY <1>0, <2>4, <3>2 DEF NewBlock
    <3>. QED
      BY <3>4, <3>5, Zenon
  <2>5. ASSUME NEW n \in Nodes, Receive(n) \/ Consume(n) \/ Prepare(n) \/ Produce(n)
        PROVE  \E z : Follows(z, S, M) /\ node' = [node EXCEPT ![n] = z]
    <3>1. PICK e : e = Epoch(node[n])
      OBVIOUS
    <3>2. e = epoch_id(node[n].oracle, TimeAt(chain, node[n].height))
      BY <3>1 DEF Epoch, Timestamp, TimeAt
    <3>3. PICK z : /\ node' = [node EXCEPT ![n] = z]
                   /\ \/ Idle(node[n], z)
                      \/ \E a \in Messages, R \in SUBSET Reasons :
                            Idle(Attest(node[n], a, e, R), z)
      BY <1>0, <2>5, <3>1, TaskStep, Zenon
    <3>4. ASSUME NEW a \in Messages, NEW R \in SUBSET Reasons
          PROVE  Follows(Attest(node[n], a, e, R), S, M)
      <4>1. a \in Sendable /\ node[n] \in NodeState
        BY <1>0 DEF Messages
      <4>. QED
        BY <1>0, <1>3, <2>1, <3>2, <4>1, MessageFollows, Zenon
    <3>5. PICK w : Idle(w, z) /\ Follows(w, S, M)
      BY <2>1, <3>3, <3>4, Zenon
    <3>6. Follows(z, S, M)
      BY <3>5, Zenon DEF Idle, Follows, SameSeats, Elected
    <3>. QED
      BY <3>3, <3>6, Zenon
  <2>6. ASSUME NEW n \in Nodes, Restart(n)
        PROVE  \E z : Follows(z, S, M) /\ node' = [node EXCEPT ![n] = z]
    <3>1. PICK z : z = [FreshNode EXCEPT !.height = node[n].height, !.restarted = TRUE]
      OBVIOUS
    <3>2. z.restarted
      BY <3>1 DEF FreshNode
    <3>. QED
      BY <2>6, <3>1, <3>2, Zenon DEF Restart, Follows
  <2>7. CASE Next
    <3>1. PICK n \in Nodes : \/ NewBlock(n)
                             \/ Receive(n) \/ Consume(n) \/ Prepare(n) \/ Produce(n)
                             \/ Restart(n)
      BY <2>7 DEF Next
    <3>2. \E z : Follows(z, S, M) /\ node' = [node EXCEPT ![n] = z]
      BY <2>4, <2>5, <2>6, <3>1
    <3>. QED
      BY <2>1, <2>3, <3>2
  <2>8. CASE UNCHANGED vars
    BY <2>1, <2>8 DEF vars
  <2>. QED
    BY <2>7, <2>8
<1>. QED
  BY <1>0, <1>1, <1>2, <1>3, Zenon DEF AgreementInv

\* Two thirds of a committee and two thirds of it share a member.
LEMMA CommitteesOverlap ==
  ASSUME NEW C, IsFiniteSet(C), NEW U \in SUBSET C, NEW W \in SUBSET C,
         Cardinality(U) >= threshold(C), Cardinality(W) >= threshold(C)
  PROVE  U \cap W # {}
<1>1. Cardinality(C) \in Nat /\ Cardinality(U) \in Nat /\ Cardinality(W) \in Nat
  BY FS_CardinalityType, FS_Subset
<1>2. Cardinality(U) + Cardinality(W) > Cardinality(C)
  BY <1>1 DEF threshold
<1>. QED
  BY <1>2, FS_MajoritiesIntersect

\* SovAgreement: on every chain in the order of its timestamps on which no proposal changes the
\* epoch length, for any committees and any number of nodes, whatever the order, loss and
\* repetition of messages and whether signed or not, nodes that have neither restarted nor
\* slashed agree on every SOV price, if every validator attests one price.
THEOREM NodesAgreeOnPrices ==
  Spec => [](Orderly(chain) => SovAgreement)
<1>1. AgreementInv => (Orderly(chain) => SovAgreement)
  <2>. SUFFICES ASSUME AgreementInv, Orderly(chain), OneEach, NEW m \in Nodes, NEW n \in Nodes,
                       ~ node[m].restarted, ~ node[n].restarted,
                       node[m].slashed = {}, node[n].slashed = {}, NEW e \in Epochs,
                       Finalized(node[m].oracle, e), Finalized(node[n].oracle, e)
                PROVE  node[m].oracle.prices[e].sov = node[n].oracle.prices[e].sov
    BY DEF SovAgreement
  <2>1. PICK S, M : Committees(chain, S, M) /\ \A k \in Nodes : Follows(node[k], S, M)
    BY DEF AgreementInv
  <2>2. Elected(node[m], M) /\ Elected(node[n], M)
    BY <2>1 DEF Follows
  <2>. DEFINE Votes(k) == {v \in Validators :
                             node[k].oracle.votes[e].sov[v] = node[k].oracle.prices[e].sov}
  <2>3. /\ Votes(m) \in SUBSET M[e] /\ Cardinality(Votes(m)) >= threshold(M[e])
        /\ Votes(n) \in SUBSET M[e] /\ Cardinality(Votes(n)) >= threshold(M[e])
    BY <2>2, Zenon DEF Elected, Finalized
  <2>4. IsFiniteSet(M[e])
    BY <2>1, FS_Subset, OracleAssumption, Zenon DEF Committees
  <2>5. Votes(m) \cap Votes(n) # {}
    <3>. HIDE DEF Votes
    <3>. QED
      BY <2>3, <2>4, CommitteesOverlap
  <2>6. PICK v \in Validators :
           /\ node[m].oracle.votes[e].sov[v] = node[m].oracle.prices[e].sov
           /\ node[n].oracle.votes[e].sov[v] = node[n].oracle.prices[e].sov
    BY <2>5
  <2>7. Sound(node[m], attested, claimed) /\ Sound(node[n], attested, claimed)
    BY Zenon DEF AgreementInv, SeatedInv, SoundInv, SoundNodes
  <2>8. /\ node[m].oracle.prices[e].sov \in attested[v]
        /\ node[n].oracle.prices[e].sov \in attested[v]
    BY <2>6, <2>7, Zenon DEF Sound, Finalized
  <2>9. attested[v] \in SUBSET Prices /\ Cardinality(attested[v]) = 1
    BY Zenon DEF AgreementInv, SeatedInv, SoundInv, Given, OneEach
  <2>. QED
    BY <2>8, <2>9, TwoPrices
<1>2. AgreementInv /\ [Next]_vars => AgreementInv'
  BY NextAgreement
<1>. QED
  BY <1>1, <1>2, InitAgreement, PTL DEF Spec
=============================================================================
