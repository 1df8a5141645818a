-------------------------- MODULE AccountingProofs --------------------------
(***************************************************************************)
(* What executing a block does to the sums of the state trees, for every   *)
(* block and every state whose entries are numbers: transactions that use  *)
(* different entries move SOV without losing or creating any, mints and    *)
(* the recorded supply apart; and the native outputs grow by the block     *)
(* reward alone.                                                           *)
(***************************************************************************)
EXTENDS BlockExecutionProofs

(***************************************************************************)
(* What a block does to the SOV balances and to the supply                 *)
(***************************************************************************)

\* The balances with the writes of r add up to this much, and the supply is this.
SovWith(s, r) == SumOver(ApplyBatch(s.token_balances, r.w["token_balances"]), Addresses)

SupplyWith(s, r) == ApplyBatch(s.token_supply, r.w["token_supply"])[SOV]

\* The sums are numbers.
LEMMA SovNumbers ==
  ASSUME NEW s, Typed(s), NEW r, BatchOK(r)
  PROVE  SovWith(s, r) \in Int /\ SupplyWith(s, r) \in Int
<1>1. "token_balances" \in StateTrees /\ "token_supply" \in StateTrees
  BY DEF StateTrees
<1>2. /\ ApplyBatch(s.token_balances, r.w["token_balances"]) \in [Addresses -> Int]
      /\ ApplyBatch(s.token_supply, r.w["token_supply"]) \in [{SOV} -> Int]
  BY <1>1 DEF ApplyBatch, Typed, BatchOK
<1>3. PICK f \in [Addresses -> Int] : f = ApplyBatch(s.token_balances, r.w["token_balances"])
  BY <1>2
<1>4. SumOver(f, Addresses) \in Int
  BY SumInt, TxsAssumption
<1>. QED
  BY <1>2, <1>3, <1>4 DEF SovWith, SupplyWith

\* The first write of a balance.
LEMMA PutBalance ==
  ASSUME NEW s, Typed(s), NEW r, BatchOK(r), NEW a \in Addresses, NEW v \in Int,
         a \notin DOMAIN r.w["token_balances"],
         NEW p, p = Put(r, "token_balances", a, v)
  PROVE  /\ BatchOK(p) /\ p.ok = r.ok
         /\ SovWith(s, p) = SovWith(s, r) + v - s.token_balances[a]
         /\ p.w["token_supply"] = r.w["token_supply"]
         /\ DOMAIN p.w["token_balances"] = DOMAIN r.w["token_balances"] \cup {a}
<1>1. "token_balances" \in StateTrees /\ "token_supply" \in StateTrees
  BY DEF StateTrees
<1>2. /\ BatchOK(p) /\ p.ok = r.ok /\ p.w["token_supply"] = r.w["token_supply"]
      /\ p.w["token_balances"] = Insert(r.w["token_balances"], a, v)
  BY <1>1, PutOK, PutShape DEF BatchOK
<1>3. PICK w : w = r.w["token_balances"]
  OBVIOUS
<1>4. /\ DOMAIN Insert(w, a, v) = DOMAIN w \cup {a}
      /\ Insert(w, a, v)[a] = v
      /\ \A k \in DOMAIN w : k # a => Insert(w, a, v)[k] = w[k]
  BY DEF Insert
<1>5. PICK bal \in [Addresses -> Int] : bal = s.token_balances
  BY DEF Typed
<1>6. \A k \in DOMAIN w : w[k] \in Int
  BY <1>1, <1>3 DEF BatchOK
<1>7. PICK f, g : f = ApplyBatch(bal, w) /\ g = ApplyBatch(bal, Insert(w, a, v))
  OBVIOUS
<1>8. /\ \A y \in Addresses : f[y] \in Int /\ g[y] \in Int
      /\ \A y \in Addresses \ {a} : f[y] = g[y]
      /\ f[a] = bal[a] /\ g[a] = v
  BY <1>3, <1>4, <1>6, <1>7 DEF ApplyBatch
<1>9. SumOver(g, Addresses) = SumOver(f, Addresses) + g[a] - f[a]
  BY <1>8, SumChange, TxsAssumption
<1>10. SovWith(s, p) = SumOver(g, Addresses) /\ SovWith(s, r) = SumOver(f, Addresses)
  BY <1>2, <1>3, <1>5, <1>7 DEF SovWith
<1>. QED
  BY <1>2, <1>3, <1>4, <1>5, <1>8, <1>9, <1>10

\* A credit adds its amount.
LEMMA CreditBalance ==
  ASSUME NEW s, Typed(s), NEW r, BatchOK(r), NEW a, NEW amount \in Int,
         amount # 0 => a \in Addresses /\ a \notin DOMAIN r.w["token_balances"],
         NEW p, p = CreditToken(s, r, a, amount)
  PROVE  /\ BatchOK(p) /\ p.ok = r.ok
         /\ SovWith(s, p) = SovWith(s, r) + amount
         /\ p.w["token_supply"] = r.w["token_supply"]
         /\ DOMAIN p.w["token_balances"] \subseteq DOMAIN r.w["token_balances"] \cup {a}
<1>1. CASE amount = 0
  BY <1>1, SovNumbers DEF CreditToken
<1>2. CASE amount # 0
  <2>1. PICK x \in Int : x = s.token_balances[a]
    BY <1>2 DEF Typed
  <2>2. PICK v \in Int : v = x + amount /\ p = Put(r, "token_balances", a, v)
    BY <1>2, <2>1 DEF CreditToken
  <2>3. /\ BatchOK(p) /\ p.ok = r.ok
        /\ SovWith(s, p) = SovWith(s, r) + v - s.token_balances[a]
        /\ p.w["token_supply"] = r.w["token_supply"]
        /\ DOMAIN p.w["token_balances"] = DOMAIN r.w["token_balances"] \cup {a}
    BY <1>2, <2>2, PutBalance
  <2>. QED
    BY <2>1, <2>2, <2>3, SovNumbers
<1>. QED
  BY <1>1, <1>2

\* A debit that does not fail takes its amount.
LEMMA DebitBalance ==
  ASSUME NEW s, Typed(s), NEW r, BatchOK(r), NEW a \in Addresses, NEW amount \in Int,
         a \notin DOMAIN r.w["token_balances"],
         NEW p, p = DebitToken(s, r, a, amount)
  PROVE  /\ BatchOK(p)
         /\ p.ok => SovWith(s, p) = SovWith(s, r) - amount
         /\ p.w["token_supply"] = r.w["token_supply"]
         /\ DOMAIN p.w["token_balances"] \subseteq DOMAIN r.w["token_balances"] \cup {a}
<1>1. PICK x \in Int : x = s.token_balances[a]
  BY DEF Typed
<1>2. CASE amount = 0
  BY <1>2, SovNumbers DEF DebitToken
<1>3. CASE amount # 0 /\ x < amount
  <2>1. p = Fail(r)
    BY <1>1, <1>3 DEF DebitToken
  <2>. QED
    BY <2>1, FailOK, FailShape DEF BatchOK
<1>4. CASE amount # 0 /\ ~ (x < amount)
  <2>2. PICK v \in Int : v = x - amount /\ p = Put(r, "token_balances", a, v)
    BY <1>1, <1>4 DEF DebitToken
  <2>3. /\ BatchOK(p) /\ p.ok = r.ok
        /\ SovWith(s, p) = SovWith(s, r) + v - s.token_balances[a]
        /\ p.w["token_supply"] = r.w["token_supply"]
        /\ DOMAIN p.w["token_balances"] = DOMAIN r.w["token_balances"] \cup {a}
    BY <2>2, PutBalance
  <2>. QED
    BY <1>1, <2>2, <2>3, SovNumbers
<1>. QED
  BY <1>2, <1>3, <1>4

\* Native transfers and coinbases leave the balances and the supply alone.
LEMMA PutAllBalances ==
  ASSUME NEW s, NEW r, Batch(r), NEW f, NEW p, p = PutAll(r, "utxos", f)
  PROVE  /\ Batch(p) /\ p.ok = r.ok
         /\ SovWith(s, p) = SovWith(s, r) /\ SupplyWith(s, p) = SupplyWith(s, r)
<1>1. "token_balances" \in StateTrees /\ "token_supply" \in StateTrees
  BY DEF StateTrees
<1>2. /\ Batch(p) /\ p.ok = r.ok
      /\ p.w["token_balances"] = r.w["token_balances"] /\ p.w["token_supply"] = r.w["token_supply"]
  BY <1>1, PutAllShape
<1>. QED
  BY <1>2 DEF SovWith, SupplyWith

\* The balances move with the supply.
SovKept(s, r) == SovWith(s, r) - SupplyWith(s, r)

\* A token transfer that does not fail moves SOV between three accounts.
LEMMA TransferKept ==
  ASSUME NEW s, Typed(s), NEW r, BatchOK(r), NEW tx, tx.type = "TokenTransfer",
         WellFormedTx(tx), tx.from # tx.to, Fee(tx) > 0 => FeeSink \notin {tx.from, tx.to},
         \A k \in DOMAIN r.w["token_balances"] : <<"token_balances", k>> \notin Footprint(tx),
         NEW p, p = TokenTransfer(s, r, tx)
  PROVE  p.ok => SovKept(s, p) = SovKept(s, r)
<1>1. PICK fee \in Nat : fee = (tx.amount * FeeBps) \div 10000
  <2>1. tx.amount \in Nat /\ FeeBps \in Nat
    BY TxsAssumption DEF WellFormedTx
  <2>2. PICK m \in Nat : m = tx.amount * FeeBps
    BY <2>1
  <2>. QED
    BY <2>2
<1>2. Footprint(tx) = {<<"token_nonces", tx.from>>} \cup
          {<<"token_balances", a>> : a \in {tx.from, tx.to} \cup (IF fee > 0 THEN {FeeSink} ELSE {})}
  BY <1>1 DEF Footprint
<1>3. /\ tx.from \notin DOMAIN r.w["token_balances"] /\ tx.to \notin DOMAIN r.w["token_balances"]
      /\ fee # 0 => FeeSink \notin DOMAIN r.w["token_balances"] \cup {tx.from, tx.to}
  BY <1>1, <1>2 DEF Fee
<1>4. PICK from \in Addresses, to \in Addresses, amount \in Int, rest \in Int :
           from = tx.from /\ to = tx.to /\ amount = tx.amount /\ rest = amount - fee
  <2>1. tx.from \in Addresses /\ tx.to \in Addresses /\ tx.amount \in Int /\ tx.amount - fee \in Int
    BY DEF WellFormedTx
  <2>. QED
    BY <2>1
<1>5. PICK debited, credited, paid, n :
         /\ debited = DebitToken(s, r, from, amount)
         /\ credited = CreditToken(s, debited, to, rest)
         /\ paid = CreditToken(s, credited, FeeSink, fee)
         /\ n = s.token_nonces[from] + 1
  OBVIOUS
<1>6. p = Fail(r) \/ p = Put(paid, "token_nonces", from, n)
  BY <1>1, <1>4, <1>5 DEF TokenTransfer
<1>7. /\ BatchOK(debited)
      /\ debited.ok => SovWith(s, debited) = SovWith(s, r) - amount
      /\ debited.w["token_supply"] = r.w["token_supply"]
      /\ DOMAIN debited.w["token_balances"] \subseteq DOMAIN r.w["token_balances"] \cup {from}
  BY <1>3, <1>4, <1>5, DebitBalance
<1>8. /\ BatchOK(credited) /\ credited.ok = debited.ok
      /\ SovWith(s, credited) = SovWith(s, debited) + rest
      /\ credited.w["token_supply"] = r.w["token_supply"]
      /\ DOMAIN credited.w["token_balances"] \subseteq DOMAIN r.w["token_balances"] \cup {from, to}
  <2>1. to \notin DOMAIN debited.w["token_balances"]
    BY <1>3, <1>4, <1>7
  <2>2. /\ BatchOK(credited) /\ credited.ok = debited.ok
        /\ SovWith(s, credited) = SovWith(s, debited) + rest
        /\ credited.w["token_supply"] = debited.w["token_supply"]
        /\ DOMAIN credited.w["token_balances"] \subseteq DOMAIN debited.w["token_balances"] \cup {to}
    BY <1>5, <1>7, <2>1, CreditBalance
  <2>. QED
    BY <1>7, <2>2
<1>9. /\ BatchOK(paid) /\ paid.ok = credited.ok
      /\ SovWith(s, paid) = SovWith(s, credited) + fee
      /\ paid.w["token_supply"] = r.w["token_supply"]
  <2>1. fee # 0 => FeeSink \in Addresses /\ FeeSink \notin DOMAIN credited.w["token_balances"]
    BY <1>3, <1>4, <1>8, TxsAssumption
  <2>2. fee \in Int
    OBVIOUS
  <2>3. /\ BatchOK(paid) /\ paid.ok = credited.ok
        /\ SovWith(s, paid) = SovWith(s, credited) + fee
        /\ paid.w["token_supply"] = credited.w["token_supply"]
    BY <1>5, <1>8, <2>1, <2>2, CreditBalance
  <2>. QED
    BY <1>8, <2>3
<1>10. CASE p = Fail(r)
  BY <1>10, FailShape DEF BatchOK
<1>11. CASE p = Put(paid, "token_nonces", from, n)
  <2>1. /\ "token_balances" \in StateTrees /\ "token_supply" \in StateTrees
        /\ "token_nonces" \in StateTrees
    BY DEF StateTrees
  <2>2. /\ p.ok = paid.ok /\ p.w["token_balances"] = paid.w["token_balances"]
        /\ p.w["token_supply"] = paid.w["token_supply"]
    BY <1>9, <1>11, <2>1, PutShape DEF BatchOK
  <2>3. SovWith(s, p) = SovWith(s, paid) /\ SupplyWith(s, p) = SupplyWith(s, r)
    BY <1>9, <2>2 DEF SovWith, SupplyWith
  <2>4. SovWith(s, r) \in Int /\ SupplyWith(s, r) \in Int
    BY SovNumbers
  <2>5. debited.ok => SovWith(s, p) = SovWith(s, r)
    BY <1>4, <1>7, <1>8, <1>9, <2>3, <2>4
  <2>6. p.ok = debited.ok
    BY <1>8, <1>9, <2>2
  <2>. QED
    BY <2>3, <2>5, <2>6 DEF SovKept
<1>. QED
  BY <1>6, <1>10, <1>11

\* A mint adds to both.
LEMMA MintKept ==
  ASSUME NEW s, Typed(s), NEW r, BatchOK(r), NEW a \in Addresses, NEW amount \in Int,
         a \notin DOMAIN r.w["token_balances"], SOV \notin DOMAIN r.w["token_supply"],
         NEW p, p = MintSov(s, r, a, amount)
  PROVE  SovKept(s, p) = SovKept(s, r)
<1>1. PICK c : c = CreditToken(s, r, a, amount)
  OBVIOUS
<1>2. /\ BatchOK(c) /\ SovWith(s, c) = SovWith(s, r) + amount
      /\ c.w["token_supply"] = r.w["token_supply"]
  BY <1>1, CreditBalance
<1>3. PICK x \in Int, v \in Int : x = s.token_supply[SOV] /\ v = x + amount
  BY DEF Typed
<1>4. p = Put(c, "token_supply", SOV, v)
  BY <1>1, <1>3 DEF MintSov
<1>5. "token_balances" \in StateTrees /\ "token_supply" \in StateTrees
  BY DEF StateTrees
<1>6. /\ p.w["token_balances"] = c.w["token_balances"]
      /\ p.w["token_supply"] = Insert(r.w["token_supply"], SOV, v)
  BY <1>2, <1>4, <1>5, PutShape DEF BatchOK
<1>7. DOMAIN s.token_supply = {SOV}
  BY DEF Typed
<1>8. SupplyWith(s, r) = x
  BY <1>3, <1>7 DEF SupplyWith, ApplyBatch
<1>9. SupplyWith(s, p) = v
  BY <1>6, <1>7 DEF SupplyWith, ApplyBatch, Insert
<1>10. SovWith(s, p) = SovWith(s, c) /\ SovWith(s, r) \in Int
  BY <1>6, SovNumbers DEF SovWith
<1>. QED
  BY <1>2, <1>3, <1>8, <1>9, <1>10 DEF SovKept

\* The transactions of a block that touch different accounts keep balances and supply in step.
LEMMA StageTxKept ==
  ASSUME NEW s, Typed(s), NEW r, BatchOK(r), NEW tx, WellFormedTx(tx),
         tx.type = "TokenTransfer"
            => tx.from # tx.to /\ (Fee(tx) > 0 => FeeSink \notin {tx.from, tx.to}),
         \A t \in StateTrees : \A k \in DOMAIN r.w[t] : <<t, k>> \notin Footprint(tx),
         NEW p, p = StageTx(s, r, tx)
  PROVE  p.ok => SovKept(s, p) = SovKept(s, r)
<1>1. "token_balances" \in StateTrees /\ "token_supply" \in StateTrees
  BY DEF StateTrees
<1>2. CASE ~ r.ok
  BY <1>2 DEF StageTx
<1>3. CASE p = Fail(r)
  BY <1>3, FailShape DEF BatchOK
<1>4. CASE r.ok /\ tx.type = "Transfer"
  <2>1. p = NativeTransfer(s, r, tx)
    BY <1>4 DEF StageTx
  <2>2. PICK f, g : p = Fail(r) \/ p = CollectFee(PutAll(PutAll(r, "utxos", f), "utxos", g), tx.fee)
    BY <2>1, NativeOutcome
  <2>3. PICK c, d : c = PutAll(r, "utxos", f) /\ d = PutAll(c, "utxos", g)
    OBVIOUS
  <2>4. Batch(r)
    BY DEF BatchOK
  <2>5. Batch(c) /\ SovWith(s, c) = SovWith(s, r) /\ SupplyWith(s, c) = SupplyWith(s, r)
    BY <2>3, <2>4, PutAllBalances
  <2>6. Batch(d) /\ SovWith(s, d) = SovWith(s, r) /\ SupplyWith(s, d) = SupplyWith(s, r)
    BY <2>3, <2>5, PutAllBalances
  <2>7. CollectFee(d, tx.fee).w = d.w
    BY <2>6, CollectShape
  <2>8. p = CollectFee(d, tx.fee) => SovKept(s, p) = SovKept(s, r)
    BY <2>6, <2>7 DEF SovKept, SovWith, SupplyWith
  <2>. QED
    BY <1>3, <2>2, <2>3, <2>8
<1>5. CASE r.ok /\ tx.type = "TokenTransfer"
  <2>1. p = TokenTransfer(s, r, tx)
    BY <1>5 DEF StageTx
  <2>2. \A k \in DOMAIN r.w["token_balances"] : <<"token_balances", k>> \notin Footprint(tx)
    BY <1>1
  <2>. QED
    BY <1>5, <2>1, <2>2, TransferKept
<1>6. CASE r.ok /\ tx.type \in {"TokenMint", "WalletRegistration"}
  <2>1. p = Fail(r) \/ p = r \/ p = MintSov(s, r, tx.to, tx.amount)
    BY <1>6 DEF StageTx
  <2>2. PICK a \in Addresses, amount \in Int : a = tx.to /\ amount = tx.amount
    BY <1>6 DEF WellFormedTx
  <2>3. Footprint(tx) = {<<"token_balances", a>>, <<"token_supply", SOV>>}
    BY <1>6, <2>2 DEF Footprint
  <2>4. a \notin DOMAIN r.w["token_balances"] /\ SOV \notin DOMAIN r.w["token_supply"]
    BY <1>1, <2>3
  <2>5. p = MintSov(s, r, a, amount) => SovKept(s, p) = SovKept(s, r)
    BY <2>4, MintKept
  <2>. QED
    BY <1>3, <2>1, <2>2, <2>5
<1>7. CASE r.ok /\ tx.type \notin {"Transfer", "TokenTransfer", "TokenMint", "WalletRegistration"}
  BY <1>7 DEF StageTx
<1>. QED
  BY <1>2, <1>4, <1>5, <1>6, <1>7

\* T is the course of staging the n transactions q, of numbers, over s; each writes
\* entries that the ones before it have not written.
StagedAlong(T, s, q, n) ==
    /\ T[0] = Staging
    /\ \A m \in 0 .. n : BatchOK(T[m]) /\ Within(T[m], Used(q, m))
    /\ \A m \in 0 .. n - 1 :
         /\ T[m + 1] = StageTx(s, T[m], q[m + 1])
         /\ \A t \in StateTrees : \A k \in DOMAIN T[m].w[t] : <<t, k>> \notin Footprint(q[m + 1])

\* A block whose transactions use different entries is staged like that.
LEMMA StagedCourse ==
  ASSUME NEW s, Typed(s), NEW b \in Blocks, Disjoint(b.txs), NEW n, n = Len(b.txs)
  PROVE  \E T : StagedAlong(T, s, b.txs, n) /\ T[n] = StageTxs(s, b.txs)
<1>1. PICK q : q = b.txs
  OBVIOUS
<1>2. n \in Nat /\ DOMAIN q = 1..n /\ (\A i \in 1..n : WellFormedTx(q[i])) /\ Disjoint(q)
  BY <1>1, TxsAssumption
<1>3. PICK T : Course(T, Over(s), Staging, q, n) /\ T[n] = StageTxs(s, q)
  BY <1>2, StageCourse
<1>4. T[0] = Staging
  BY <1>3 DEF Course
<1>5. ASSUME NEW m \in 0 .. n - 1 PROVE T[m + 1] = StageTx(s, T[m], q[m + 1])
  <2>1. m + 1 \in 1..n /\ (m + 1) - 1 = m
    BY <1>2
  <2>2. T[m + 1] = FoldStep(Over(s), T[m], q[m + 1])
    BY <1>3, <2>1 DEF Course
  <2>. QED
    BY <2>2 DEF FoldStep, Over
<1>. DEFINE Good == {m \in Nat : m <= n => BatchOK(T[m]) /\ Within(T[m], Used(q, m))}
<1>6. 0 \in Good
  <2>1. \A t \in StateTrees : DOMAIN Staging.w[t] = {}
    BY DEF Staging
  <2>. QED
    BY <1>4, <2>1, StagingOK DEF Within
<1>7. ASSUME NEW m \in Nat, m \in Good PROVE m + 1 \in Good
  <2>. SUFFICES ASSUME m + 1 <= n PROVE BatchOK(T[m + 1]) /\ Within(T[m + 1], Used(q, m + 1))
    OBVIOUS
  <2>1. m \in 0 .. n - 1 /\ m + 1 \in 1..n /\ m <= n
    BY <1>2
  <2>2. BatchOK(T[m]) /\ Within(T[m], Used(q, m)) /\ WellFormedTx(q[m + 1])
    BY <1>2, <1>7, <2>1
  <2>3. Used(q, m) \subseteq Used(q, m + 1) /\ Footprint(q[m + 1]) \subseteq Used(q, m + 1)
    BY DEF Used
  <2>4. Within(T[m], Used(q, m + 1)) /\ Batch(T[m])
    BY <2>2, <2>3 DEF Within, BatchOK
  <2>5. T[m + 1] = StageTx(s, T[m], q[m + 1])
    BY <1>5, <2>1
  <2>. QED
    BY <2>2, <2>3, <2>4, <2>5, StageTxOK, StageTxWithin
<1>8. \A m \in Nat : m \in Good
  <2>. HIDE DEF Good
  <2>. QED
    BY <1>6, <1>7, SetNatInduction
<1>9. \A m \in 0 .. n : BatchOK(T[m]) /\ Within(T[m], Used(q, m))
  BY <1>2, <1>8
<1>10. ASSUME NEW m \in 0 .. n - 1, NEW t \in StateTrees, NEW k \in DOMAIN T[m].w[t]
       PROVE  <<t, k>> \notin Footprint(q[m + 1])
  <2>1. m \in 0 .. n /\ m + 1 \in DOMAIN q
    BY <1>2
  <2>2. <<t, k>> \in Used(q, m)
    BY <1>9, <2>1 DEF Within
  <2>3. PICK i \in 1..m : <<t, k>> \in Footprint(q[i])
    BY <2>2 DEF Used
  <2>4. i \in DOMAIN q /\ i # m + 1
    BY <1>2
  <2>5. Footprint(q[i]) \cap Footprint(q[m + 1]) = {}
    BY <1>2, <2>1, <2>4, Zenon DEF Disjoint
  <2>. QED
    BY <2>3, <2>5
<1>11. StagedAlong(T, s, q, n)
  BY <1>4, <1>5, <1>9, <1>10 DEF StagedAlong
<1>. QED
  BY <1>1, <1>3, <1>11

\* The balances and the supply of a state.
SovGap(s) == SumOver(s.token_balances, Addresses) - s.token_supply[SOV]

\* A block changes the sum of the balances and the supply by the same amount.
LEMMA BlockKeepsSov ==
  ASSUME NEW s, Typed(s), NEW b \in Blocks, Separate(b.txs), StageBlock(s, b).ok
  PROVE  SovKept(s, StageBlock(s, b)) = SovGap(s)
<1>1. PICK n, q : n = Len(b.txs) /\ q = b.txs
  BY Zenon
<1>2. n \in Nat /\ DOMAIN q = 1..n /\ (\A i \in 1..n : WellFormedTx(q[i])) /\ Separate(q)
  BY <1>1, TxsAssumption
<1>3. PICK T : StagedAlong(T, s, q, n) /\ T[n] = StageTxs(s, q)
  BY <1>1, <1>2, StagedCourse DEF Separate
<1>. DEFINE Good == {m \in Nat : m <= n => (T[m].ok => SovKept(s, T[m]) = SovGap(s))}
<1>4. 0 \in Good
  <2>1. T[0] = Staging
    BY <1>3 DEF StagedAlong
  <2>2. DOMAIN Staging.w["token_balances"] = {} /\ DOMAIN Staging.w["token_supply"] = {}
    BY DEF Staging, StateTrees
  <2>3. PICK f, g, w, x : /\ f = s.token_balances /\ g = s.token_supply
                         /\ w = Staging.w["token_balances"] /\ x = Staging.w["token_supply"]
    OBVIOUS
  <2>4. ApplyBatch(f, w) = f /\ ApplyBatch(g, x) = g
    <3>1. f = [k \in Addresses |-> f[k]] /\ g = [k \in {SOV} |-> g[k]]
      BY <2>3 DEF Typed
    <3>. QED
      BY <2>2, <2>3, <3>1 DEF ApplyBatch
  <2>. QED
    BY <2>1, <2>3, <2>4 DEF SovKept, SovWith, SupplyWith, SovGap
<1>5. ASSUME NEW m \in Nat, m \in Good PROVE m + 1 \in Good
  <2>. SUFFICES ASSUME m + 1 <= n PROVE T[m + 1].ok => SovKept(s, T[m + 1]) = SovGap(s)
    OBVIOUS
  <2>1. m \in 0 .. n - 1 /\ m \in 0 .. n /\ m + 1 \in DOMAIN q /\ m <= n
    BY <1>2
  <2>2. PICK r, tx, p : r = T[m] /\ tx = q[m + 1] /\ p = T[m + 1]
    OBVIOUS
  <2>3. /\ BatchOK(r) /\ p = StageTx(s, r, tx)
        /\ \A t \in StateTrees : \A k \in DOMAIN r.w[t] : <<t, k>> \notin Footprint(tx)
    BY <1>3, <2>1, <2>2 DEF StagedAlong
  <2>4. /\ WellFormedTx(tx)
        /\ tx.type = "TokenTransfer"
             => tx.from # tx.to /\ (Fee(tx) > 0 => FeeSink \notin {tx.from, tx.to})
    BY <1>2, <2>1, <2>2 DEF Separate
  <2>5. p.ok => SovKept(s, p) = SovKept(s, r)
    BY <2>3, <2>4, StageTxKept
  <2>6. p.ok => r.ok
    BY <2>3 DEF StageTx
  <2>7. r.ok => SovKept(s, r) = SovGap(s)
    BY <1>5, <2>1, <2>2
  <2>. QED
    BY <2>2, <2>5, <2>6, <2>7
<1>6. n \in Good
  <2>. HIDE DEF Good
  <2>. QED
    BY <1>2, <1>4, <1>5, SetNatInduction
<1>7. T[n].ok => SovKept(s, T[n]) = SovGap(s)
  BY <1>2, <1>6
<1>8. Batch(T[n])
  BY <1>2, <1>3 DEF StagedAlong, BatchOK
<1>9. PICK z : z = StageBlock(s, b)
  OBVIOUS
<1>10. \/ z = Fail(Staging)
       \/ z = T[n]
       \/ T[n].ok /\ \E tx : z = ApplyCoinbase(T[n], tx)
  BY <1>1, <1>3, <1>9 DEF StageBlock
<1>11. ASSUME T[n].ok, NEW tx, z = ApplyCoinbase(T[n], tx) PROVE SovKept(s, z) = SovGap(s)
  <2>1. z = Fail(T[n]) \/ \E f : z = PutAll(T[n], "utxos", f)
    BY <1>11, CoinbaseOutcome
  <2>2. ~ Fail(T[n]).ok
    BY <1>8, FailShape
  <2>3. PICK f : z = PutAll(T[n], "utxos", f)
    BY <1>9, <2>1, <2>2
  <2>4. SovWith(s, z) = SovWith(s, T[n]) /\ SupplyWith(s, z) = SupplyWith(s, T[n])
    BY <1>8, <2>3, PutAllBalances
  <2>. QED
    BY <1>7, <1>11, <2>4 DEF SovKept
<1>12. ~ Fail(Staging).ok
  BY StagingOK, FailShape DEF BatchOK
<1>. QED
  BY <1>7, <1>9, <1>10, <1>11, <1>12

(***************************************************************************)
(* What a block does to the native outputs                                 *)
(***************************************************************************)

\* Equal shares and the remainder are the whole.
LEMMA SharesSum ==
  ASSUME NEW total \in Nat, NEW n \in Nat \ {0}
  PROVE  /\ \A i \in 1..n : Shares(total, n)[i] \in Int
         /\ SumOver(Shares(total, n), 1..n) = total
<1>1. PICK c \in Int, d \in Int : c = total \div n /\ d = total % n /\ c * n + d = total
  <2>1. total \div n \in Int /\ total % n \in Int /\ (total \div n) * n + (total % n) = total
    OBVIOUS
  <2>. QED
    BY <2>1
<1>2. PICK f, g : f = [i \in 1..n |-> c] /\ g = Shares(total, n)
  BY Zenon
<1>3. \A i \in 1..n : g[i] = c + (IF i = 1 THEN d ELSE 0)
  BY <1>1, <1>2 DEF Shares
<1>4. /\ \A i \in 1..n : f[i] \in Int /\ g[i] \in Int
      /\ \A i \in (1..n) \ {1} : f[i] = g[i]
      /\ f[1] = c /\ g[1] = c + d /\ 1 \in 1..n
  BY <1>2, <1>3
<1>5. IsFiniteSet(1..n) /\ Cardinality(1..n) = n
  BY FS_Interval
<1>6. SumOver(f, 1..n) = c * n
  BY <1>2, <1>5, SumConstant
<1>7. SumOver(g, 1..n) = SumOver(f, 1..n) + g[1] - f[1]
  BY <1>4, <1>5, SumChange
<1>8. c * n \in Int
  OBVIOUS
<1>. QED
  BY <1>1, <1>2, <1>4, <1>6, <1>7, <1>8

\* The native value with the writes of r, and the fees on their way to the coinbase.
NativeWith(s, r) == SumOver(ApplyBatch(s.utxos, r.w["utxos"]), Outpoints) + r.fees

\* First writes of some outputs K of f.
LEMMA PutOutputs ==
  ASSUME NEW u, u \in [Outpoints -> Int], NEW w, \A k \in DOMAIN w : w[k] \in Int,
         NEW f, DOMAIN f \in SUBSET Outpoints, \A k \in DOMAIN f : f[k] \in Int,
         \A k \in DOMAIN f : k \notin DOMAIN w
  PROVE  SumOver(ApplyBatch(u, Join(w, f)), Outpoints)
           = SumOver(ApplyBatch(u, w), Outpoints) + SumOver(f, DOMAIN f) - SumOver(u, DOMAIN f)
<1>1. PICK K, g, h : K = DOMAIN f /\ g = ApplyBatch(u, w) /\ h = ApplyBatch(u, Join(w, f))
  OBVIOUS
<1>2. /\ DOMAIN Join(w, f) = DOMAIN w \cup K
      /\ \A k \in DOMAIN w \cup K : Join(w, f)[k] = IF k \in K THEN f[k] ELSE w[k]
  BY <1>1 DEF Join
<1>3. /\ \A k \in Outpoints : g[k] = IF k \in DOMAIN w THEN w[k] ELSE u[k]
      /\ \A k \in Outpoints : h[k] = IF k \in DOMAIN w \cup K THEN Join(w, f)[k] ELSE u[k]
  BY <1>1, <1>2 DEF ApplyBatch
<1>4. /\ \A k \in Outpoints : g[k] \in Int /\ h[k] \in Int
      /\ \A k \in Outpoints \ K : g[k] = h[k]
      /\ \A k \in K : g[k] = u[k] /\ h[k] = f[k]
  BY <1>1, <1>2, <1>3
<1>5. K \in SUBSET Outpoints /\ IsFiniteSet(K) /\ IsFiniteSet(Outpoints)
  BY <1>1, FS_Subset, TxsAssumption
<1>6. SumOver(h, Outpoints) = SumOver(g, Outpoints) + SumOver(h, K) - SumOver(g, K)
  BY <1>4, <1>5, SumChangePart
<1>7. SumOver(h, K) = SumOver(f, K) /\ SumOver(g, K) = SumOver(u, K)
  BY <1>4, <1>5, SumEqual
<1>. QED
  BY <1>1, <1>6, <1>7

\* Nothing is worth nothing.
LEMMA SumZero ==
  ASSUME NEW f, NEW S, IsFiniteSet(S), \A x \in S : f[x] = 0
  PROVE  SumOver(f, S) = 0
<1>1. SumOver(f, S) = 0 * Cardinality(S)
  BY SumConstant
<1>2. Cardinality(S) \in Nat
  BY FS_CardinalityType
<1>. QED
  BY <1>1, <1>2

\* An accepted native transfer hands its inputs to its outputs and to the fees.
LEMMA NativeKept ==
  ASSUME NEW s, Typed(s), NEW r, BatchOK(r), NEW tx, tx.type = "Transfer", WellFormedTx(tx),
         ~ Rejected(s, tx), \A o \in Outputs(tx) : s.utxos[o] = 0,
         \A k \in DOMAIN r.w["utxos"] : <<"utxos", k>> \notin Footprint(tx),
         NEW p, p = NativeTransfer(s, r, tx)
  PROVE  /\ NativeWith(s, p) = NativeWith(s, r)
         /\ p.fees = r.fees + tx.fee
         /\ p.w["utxos"] = Join(Join(r.w["utxos"], Spent(tx)), Paid(s, tx))
         /\ DOMAIN Spent(tx) = tx.inputs /\ DOMAIN Paid(s, tx) = Outputs(tx)
         /\ tx.inputs \cap Outputs(tx) = {}
<1>1. PICK n \in Nat \ {0}, total \in Nat, fee \in Int, in \in Int :
         /\ n = tx.outputs /\ total = Available(s, tx) /\ fee = tx.fee
         /\ in = SumOver(s.utxos, tx.inputs) /\ total = in - fee
  <2>1. Available(s, tx) \in Int /\ tx.fee \in Int /\ tx.outputs \in Nat
    BY NativeAmounts DEF WellFormedTx
  <2>2. tx.outputs # 0 /\ ~(Available(s, tx) < tx.outputs)
    BY DEF Rejected
  <2>3. SumOver(s.utxos, tx.inputs) \in Int
    <3>1. tx.inputs \in SUBSET Outpoints /\ \A o \in Outpoints : s.utxos[o] \in Int
      BY DEF WellFormedTx, Typed
    <3>. QED
      BY <3>1, SumInt, TxsAssumption
  <2>4. Available(s, tx) \in Nat /\ tx.outputs \in Nat \ {0}
    BY <2>1, <2>2
  <2>. QED
    BY <2>1, <2>3, <2>4, Zenon DEF Available
<1>2. PICK u, w, f, g : u = s.utxos /\ w = r.w["utxos"] /\ f = Spent(tx) /\ g = Paid(s, tx)
  OBVIOUS
<1>3. Outputs(tx) = {<<tx.id, i>> : i \in 0 .. n - 1}
  BY <1>1 DEF Outputs, Coinbase
<1>4. DOMAIN f = tx.inputs /\ DOMAIN g = Outputs(tx) /\ \A o \in tx.inputs : f[o] = 0
  BY <1>1, <1>2, <1>3 DEF Spent, Paid
<1>5. tx.inputs \in SUBSET Outpoints /\ Outputs(tx) \in SUBSET Outpoints
  BY DEF WellFormedTx
<1>6. tx.inputs \cap Outputs(tx) = {}
  BY DEF Rejected
<1>7. /\ u \in [Outpoints -> Int] /\ \A k \in DOMAIN w : w[k] \in Int
      /\ \A k \in tx.inputs \cup Outputs(tx) : k \notin DOMAIN w
  <2>1. "utxos" \in StateTrees
    BY DEF StateTrees
  <2>2. \A k \in tx.inputs \cup Outputs(tx) : <<"utxos", k>> \in Footprint(tx)
    BY DEF Footprint
  <2>. QED
    BY <1>2, <2>1, <2>2, Zenon DEF Typed, BatchOK
<1>8. PICK v : v = Join(w, f)
  OBVIOUS
<1>9. DOMAIN v = DOMAIN w \cup tx.inputs /\ \A k \in DOMAIN v : v[k] \in Int
  BY <1>4, <1>7, <1>8 DEF Join
<1>10. SumOver(ApplyBatch(u, v), Outpoints) = SumOver(ApplyBatch(u, w), Outpoints) - in
  <2>1. SumOver(ApplyBatch(u, v), Outpoints)
          = SumOver(ApplyBatch(u, w), Outpoints) + SumOver(f, DOMAIN f) - SumOver(u, DOMAIN f)
    BY <1>4, <1>5, <1>7, <1>8, PutOutputs
  <2>2. SumOver(f, DOMAIN f) = 0
    BY <1>4, <1>5, SumZero, FS_Subset, TxsAssumption
  <2>3. SumOver(u, DOMAIN f) = in
    BY <1>1, <1>2, <1>4
  <2>4. SumOver(ApplyBatch(u, w), Outpoints) \in Int
    <3>1. PICK h : h = ApplyBatch(u, w)
      OBVIOUS
    <3>2. \A o \in Outpoints : h[o] \in Int
      BY <1>7, <3>1 DEF ApplyBatch
    <3>. QED
      BY <3>1, <3>2, SumInt, TxsAssumption
  <2>. QED
    BY <2>1, <2>2, <2>3, <2>4
<1>11. SumOver(g, Outputs(tx)) = total /\ \A k \in DOMAIN g : g[k] \in Int
  <2>1. PICK h : h = Shares(total, n)
    OBVIOUS
  <2>2. (\A i \in 1..n : h[i] \in Int) /\ SumOver(h, 1..n) = total
    BY <2>1, SharesSum
  <2>3. \A i \in 0 .. n - 1 : g[<<tx.id, i>>] = h[i + 1]
    BY <1>1, <1>2, <2>1, Zenon DEF Paid
  <2>4. SumOver(g, Outputs(tx)) = SumOver(h, 1..n)
    <3>1. Carries(g, Outputs(tx), tx.id, h, n)
      BY <1>3, <2>2, <2>3 DEF Carries
    <3>. QED
      BY <3>1, SumOutputs
  <2>5. \A k \in DOMAIN g : g[k] \in Int
    BY <1>3, <1>4, <2>2, <2>3
  <2>. QED
    BY <1>3, <2>2, <2>4, <2>5
<1>12. SumOver(ApplyBatch(u, Join(v, g)), Outpoints) = SumOver(ApplyBatch(u, v), Outpoints) + total
  <2>1. SumOver(ApplyBatch(u, Join(v, g)), Outpoints)
          = SumOver(ApplyBatch(u, v), Outpoints) + SumOver(g, DOMAIN g) - SumOver(u, DOMAIN g)
    <3>1. \A k \in DOMAIN g : k \notin DOMAIN v
      BY <1>4, <1>6, <1>7, <1>9
    <3>. QED
      BY <1>4, <1>5, <1>7, <1>9, <1>11, <3>1, PutOutputs
  <2>2. SumOver(u, DOMAIN g) = 0
    BY <1>2, <1>4, <1>5, SumZero, FS_Subset, TxsAssumption
  <2>3. SumOver(ApplyBatch(u, v), Outpoints) \in Int
    <3>1. PICK h : h = ApplyBatch(u, v)
      OBVIOUS
    <3>2. \A o \in Outpoints : h[o] \in Int
      BY <1>7, <1>9, <3>1 DEF ApplyBatch
    <3>. QED
      BY <3>1, <3>2, SumInt, TxsAssumption
  <2>. QED
    BY <1>4, <1>11, <2>1, <2>2, <2>3
<1>13. p = CollectFee(PutAll(PutAll(r, "utxos", f), "utxos", g), fee)
  BY <1>1, <1>2, NativeOutcome
<1>14. p.fees = r.fees + fee /\ p.w["utxos"] = Join(v, g)
  <2>1. "utxos" \in StateTrees /\ Batch(r)
    BY DEF StateTrees, BatchOK
  <2>2. PICK c : c = PutAll(r, "utxos", f)
    OBVIOUS
  <2>3. Batch(c) /\ c.fees = r.fees /\ c.w["utxos"] = v
    BY <1>2, <1>8, <2>1, <2>2, PutAllShape
  <2>4. PICK d : d = PutAll(c, "utxos", g)
    OBVIOUS
  <2>5. Batch(d) /\ d.fees = r.fees /\ d.w["utxos"] = Join(v, g)
    BY <2>1, <2>3, <2>4, PutAllShape
  <2>. QED
    BY <1>13, <2>2, <2>4, <2>5, CollectShape
<1>15. NativeWith(s, p) = NativeWith(s, r)
  <2>1. SumOver(ApplyBatch(u, w), Outpoints) \in Int /\ r.fees \in Int
    <3>1. PICK h : h = ApplyBatch(u, w)
      OBVIOUS
    <3>2. \A o \in Outpoints : h[o] \in Int
      BY <1>7, <3>1 DEF ApplyBatch
    <3>. QED
      BY <3>1, <3>2, SumInt, TxsAssumption DEF BatchOK
  <2>2. NativeWith(s, p) = SumOver(ApplyBatch(u, Join(v, g)), Outpoints) + (r.fees + fee)
    BY <1>2, <1>14 DEF NativeWith
  <2>3. NativeWith(s, r) = SumOver(ApplyBatch(u, w), Outpoints) + r.fees
    BY <1>2 DEF NativeWith
  <2>. QED
    BY <1>1, <1>10, <1>12, <2>1, <2>2, <2>3
<1>. QED
  BY <1>1, <1>2, <1>4, <1>6, <1>8, <1>14, <1>15

\* r and p agree on the native outputs and fees.
SameNative(p, r) == Batch(p) /\ p.w["utxos"] = r.w["utxos"] /\ p.fees = r.fees

\* Token transactions leave the native outputs alone.
LEMMA TokensLeaveNative ==
  ASSUME NEW s, NEW r, Batch(r), NEW tx, tx.type # "Transfer"
  PROVE  SameNative(StageTx(s, r, tx), r)
<1>1. /\ "token_balances" \in StateTrees /\ "token_supply" \in StateTrees
      /\ "token_nonces" \in StateTrees /\ "utxos" \in StateTrees
  BY DEF StateTrees
<1>2. SameNative(r, r)
  BY DEF SameNative
<1>3. ASSUME NEW p, SameNative(p, r) PROVE SameNative(Fail(p), r)
  BY <1>3, FailShape DEF SameNative
<1>4. ASSUME NEW p, SameNative(p, r), NEW t \in StateTrees \ {"utxos"}, NEW k, NEW v
      PROVE  SameNative(Put(p, t, k, v), r)
  <2>1. PICK c : c = Put(p, t, k, v)
    OBVIOUS
  <2>2. Batch(c) /\ c.fees = p.fees /\ c.w["utxos"] = p.w["utxos"]
    BY <1>1, <1>4, <2>1, PutShape DEF SameNative
  <2>3. SameNative(c, r)
    BY <1>4, <2>2 DEF SameNative
  <2>. QED
    BY <2>1, <2>3
<1>5. ASSUME NEW p, SameNative(p, r), NEW a, NEW amount
      PROVE  /\ SameNative(DebitToken(s, p, a, amount), r)
             /\ SameNative(CreditToken(s, p, a, amount), r)
  BY <1>1, <1>3, <1>4, <1>5 DEF DebitToken, CreditToken
<1>6. SameNative(MintSov(s, r, tx.to, tx.amount), r)
  BY <1>1, <1>2, <1>4, <1>5 DEF MintSov
<1>7. SameNative(TokenTransfer(s, r, tx), r)
  <2>1. ASSUME NEW x, NEW y, NEW z
        PROVE  SameNative(Put(CreditToken(s, CreditToken(s, DebitToken(s, r, tx.from, tx.amount),
                                            tx.to, x), FeeSink, y), "token_nonces", tx.from, z), r)
    BY <1>1, <1>2, <1>4, <1>5
  <2>. QED
    BY <1>2, <1>3, <2>1 DEF TokenTransfer
<1>. QED
  BY <1>2, <1>3, <1>6, <1>7 DEF StageTx

\* Staging the first m of the transactions q has moved native value, and has written
\* the inputs of the transfers, which are empty now, and their outputs.
NativeStaged(s, r, q, m) ==
    /\ NativeWith(s, r) = SumOver(s.utxos, Outpoints)
    /\ \A i \in 1 .. m : q[i].type = "Transfer"
         => /\ ~ Rejected(s, q[i])
            /\ \A o \in q[i].inputs : o \in DOMAIN r.w["utxos"] /\ r.w["utxos"][o] = 0
    /\ \A o \in DOMAIN r.w["utxos"] : \E i \in 1 .. m :
         /\ q[i].type = "Transfer"
         /\ o \in q[i].inputs \/ o \in Outputs(q[i])
         /\ r.w["utxos"][o] # 0 => o \in Outputs(q[i])
    /\ (\A i \in 1 .. m : q[i].type = "Transfer" => q[i].fee = 0) => r.fees = 0

\* One more transaction.
LEMMA NativeStagedMore ==
  ASSUME NEW s, Typed(s), NEW r, BatchOK(r), NEW q, NEW m \in Nat, NativeStaged(s, r, q, m),
         NEW tx, tx = q[m + 1], WellFormedTx(tx),
         \A t \in StateTrees : \A k \in DOMAIN r.w[t] : <<t, k>> \notin Footprint(tx),
         tx.type = "Transfer" /\ ~ Rejected(s, tx) => \A o \in Outputs(tx) : s.utxos[o] = 0,
         NEW p, p = StageTx(s, r, tx)
  PROVE  r.ok /\ p.ok => NativeStaged(s, p, q, m + 1)
<1>. SUFFICES ASSUME r.ok, p.ok PROVE NativeStaged(s, p, q, m + 1)
  OBVIOUS
<1>1. CASE tx.type # "Transfer"
  <2>1. p.w["utxos"] = r.w["utxos"] /\ p.fees = r.fees
    BY <1>1, TokensLeaveNative DEF SameNative, BatchOK
  <2>2. NativeWith(s, p) = NativeWith(s, r)
    BY <2>1 DEF NativeWith
  <2>3. \A i \in 1 .. m + 1 : i \in 1 .. m \/ i = m + 1
    OBVIOUS
  <2>4. \A i \in 1 .. m : i \in 1 .. m + 1
    OBVIOUS
  <2>. QED
    BY <1>1, <2>1, <2>2, <2>3, <2>4 DEF NativeStaged
<1>2. CASE tx.type = "Transfer"
  <2>1. p = NativeTransfer(s, r, tx)
    BY <1>2 DEF StageTx
  <2>2. ~ Rejected(s, tx)
    BY <2>1, NativeOutcome, FailShape DEF BatchOK
  <2>3. \A k \in DOMAIN r.w["utxos"] : <<"utxos", k>> \notin Footprint(tx)
    BY Zenon DEF StateTrees
  <2>4. /\ NativeWith(s, p) = NativeWith(s, r)
        /\ p.fees = r.fees + tx.fee
        /\ p.w["utxos"] = Join(Join(r.w["utxos"], Spent(tx)), Paid(s, tx))
        /\ DOMAIN Spent(tx) = tx.inputs /\ DOMAIN Paid(s, tx) = Outputs(tx)
        /\ tx.inputs \cap Outputs(tx) = {}
    BY <1>2, <2>1, <2>2, <2>3, NativeKept
  <2>5. PICK w, v : w = r.w["utxos"] /\ v = p.w["utxos"]
    OBVIOUS
  <2>6. /\ DOMAIN v = DOMAIN w \cup tx.inputs \cup Outputs(tx)
        /\ \A o \in tx.inputs : v[o] = 0
        /\ \A o \in DOMAIN w : o \notin tx.inputs \cup Outputs(tx) => v[o] = w[o]
    <3>1. PICK a, c, d : a = Spent(tx) /\ c = Paid(s, tx) /\ d = Join(w, a)
      OBVIOUS
    <3>2. /\ DOMAIN a = tx.inputs /\ DOMAIN c = Outputs(tx) /\ v = Join(d, c)
          /\ \A o \in tx.inputs : a[o] = 0
      BY <2>4, <2>5, <3>1 DEF Spent
    <3>3. /\ DOMAIN d = DOMAIN w \cup tx.inputs
          /\ \A o \in tx.inputs : d[o] = 0
          /\ \A o \in DOMAIN w : o \notin tx.inputs => d[o] = w[o]
      BY <3>1, <3>2 DEF Join
    <3>4. /\ DOMAIN v = DOMAIN d \cup Outputs(tx)
          /\ \A o \in DOMAIN d : o \notin Outputs(tx) => v[o] = d[o]
      BY <3>2 DEF Join
    <3>5. \A o \in tx.inputs : o \in DOMAIN d /\ o \notin Outputs(tx)
      BY <2>4, <3>3
    <3>. QED
      BY <3>3, <3>4, <3>5
  <2>7. \A o \in DOMAIN w : o \notin tx.inputs \cup Outputs(tx)
    BY <1>2, <2>3, <2>5 DEF Footprint
  <2>8. ASSUME NEW i \in 1 .. m + 1, q[i].type = "Transfer"
        PROVE  ~ Rejected(s, q[i]) /\ \A o \in q[i].inputs : o \in DOMAIN v /\ v[o] = 0
    <3>1. CASE i = m + 1
      BY <2>2, <2>6, <3>1
    <3>2. CASE i # m + 1
      <4>1. i \in 1 .. m
        BY <3>2
      <4>2. ~ Rejected(s, q[i]) /\ \A o \in q[i].inputs : o \in DOMAIN w /\ w[o] = 0
        BY <2>5, <2>8, <4>1 DEF NativeStaged
      <4>. QED
        BY <2>6, <2>7, <4>2
    <3>. QED
      BY <3>1, <3>2, Zenon
  <2>9. ASSUME NEW o \in DOMAIN v
        PROVE  \E i \in 1 .. m + 1 : /\ q[i].type = "Transfer"
                                     /\ o \in q[i].inputs \/ o \in Outputs(q[i])
                                     /\ v[o] # 0 => o \in Outputs(q[i])
    <3>1. CASE o \in tx.inputs \cup Outputs(tx)
      <4>1. m + 1 \in 1 .. m + 1
        OBVIOUS
      <4>2. v[o] # 0 => o \in Outputs(tx)
        BY <2>6, <3>1
      <4>. QED
        BY <1>2, <3>1, <4>1, <4>2
    <3>2. CASE o \notin tx.inputs \cup Outputs(tx)
      <4>1. o \in DOMAIN w /\ v[o] = w[o]
        BY <2>6, <3>2
      <4>2. PICK i \in 1 .. m : /\ q[i].type = "Transfer"
                                /\ o \in q[i].inputs \/ o \in Outputs(q[i])
                                /\ w[o] # 0 => o \in Outputs(q[i])
        BY <2>5, <4>1 DEF NativeStaged
      <4>3. i \in 1 .. m + 1
        OBVIOUS
      <4>. QED
        BY <4>1, <4>2, <4>3
    <3>. QED
      BY <3>1, <3>2
  <2>10. (\A i \in 1 .. m + 1 : q[i].type = "Transfer" => q[i].fee = 0) => p.fees = 0
    <3>. SUFFICES ASSUME \A i \in 1 .. m + 1 : q[i].type = "Transfer" => q[i].fee = 0
                  PROVE  p.fees = 0
      OBVIOUS
    <3>1. tx.fee = 0 /\ \A i \in 1 .. m : q[i].type = "Transfer" => q[i].fee = 0
      BY <1>2
    <3>2. r.fees = 0
      BY <3>1 DEF NativeStaged
    <3>. QED
      BY <2>4, <3>1, <3>2
  <2>11. NativeWith(s, p) = SumOver(s.utxos, Outpoints)
    BY <2>4 DEF NativeStaged
  <2>. QED
    BY <2>5, <2>8, <2>9, <2>10, <2>11, Zenon DEF NativeStaged
<1>. QED
  BY <1>1, <1>2

\* The transactions of a block.
LEMMA StagedNative ==
  ASSUME NEW s, Typed(s), NEW b \in Blocks, Disjoint(b.txs), NEW n, n = Len(b.txs),
         NEW r, r = StageTxs(s, b.txs),
         \A i \in DOMAIN b.txs : b.txs[i].type = "Transfer" /\ ~ Rejected(s, b.txs[i])
            => \A o \in Outputs(b.txs[i]) : s.utxos[o] = 0
  PROVE  BatchOK(r) /\ (r.ok => NativeStaged(s, r, b.txs, n))
<1>1. PICK q : q = b.txs
  OBVIOUS
<1>2. n \in Nat /\ DOMAIN q = 1..n /\ (\A i \in 1..n : WellFormedTx(q[i]))
  BY <1>1, TxsAssumption
<1>3. PICK T : StagedAlong(T, s, q, n) /\ T[n] = r
  BY <1>1, StagedCourse
<1>. DEFINE Good == {m \in Nat : m <= n => (T[m].ok => NativeStaged(s, T[m], q, m))}
<1>4. 0 \in Good
  <2>1. T[0] = Staging
    BY <1>3 DEF StagedAlong
  <2>2. DOMAIN Staging.w["utxos"] = {} /\ Staging.fees = 0
    BY DEF Staging, StateTrees
  <2>3. PICK f, w : f = s.utxos /\ w = Staging.w["utxos"]
    OBVIOUS
  <2>4. ApplyBatch(f, w) = f /\ SumOver(f, Outpoints) \in Int
    <3>1. f = [k \in Outpoints |-> f[k]] /\ \A k \in Outpoints : f[k] \in Int
      BY <2>3 DEF Typed
    <3>2. ApplyBatch(f, w) = f
      BY <2>2, <2>3, <3>1 DEF ApplyBatch
    <3>. QED
      BY <3>1, <3>2, SumInt, TxsAssumption
  <2>5. NativeWith(s, Staging) = SumOver(s.utxos, Outpoints)
    BY <2>2, <2>3, <2>4 DEF NativeWith
  <2>6. NativeStaged(s, Staging, q, 0)
    BY <2>2, <2>5 DEF NativeStaged
  <2>. QED
    BY <2>1, <2>6
<1>5. ASSUME NEW m \in Nat, m \in Good PROVE m + 1 \in Good
  <2>. SUFFICES ASSUME m + 1 <= n PROVE T[m + 1].ok => NativeStaged(s, T[m + 1], q, m + 1)
    OBVIOUS
  <2>1. m \in 0 .. n - 1 /\ m \in 0 .. n /\ m + 1 \in DOMAIN q /\ m <= n
    BY <1>2
  <2>2. PICK c, tx, p : c = T[m] /\ tx = q[m + 1] /\ p = T[m + 1]
    OBVIOUS
  <2>3. /\ BatchOK(c) /\ p = StageTx(s, c, tx)
        /\ \A t \in StateTrees : \A k \in DOMAIN c.w[t] : <<t, k>> \notin Footprint(tx)
    BY <1>3, <2>1, <2>2 DEF StagedAlong
  <2>4. /\ WellFormedTx(tx)
        /\ tx.type = "Transfer" /\ ~ Rejected(s, tx) => \A o \in Outputs(tx) : s.utxos[o] = 0
    BY <1>1, <1>2, <2>1, <2>2
  <2>5. p.ok => c.ok
    BY <2>3 DEF StageTx
  <2>6. c.ok => NativeStaged(s, c, q, m)
    BY <1>5, <2>1, <2>2
  <2>7. ASSUME NativeStaged(s, c, q, m), c.ok, p.ok PROVE NativeStaged(s, p, q, m + 1)
    BY <2>2, <2>3, <2>4, <2>7, NativeStagedMore
  <2>. QED
    BY <2>2, <2>5, <2>6, <2>7
<1>6. n \in Good
  <2>. HIDE DEF Good
  <2>. QED
    BY <1>2, <1>4, <1>5, SetNatInduction
<1>7. BatchOK(T[n])
  BY <1>2, <1>3 DEF StagedAlong
<1>. QED
  BY <1>1, <1>2, <1>3, <1>6, <1>7

\* A transaction of the blocks q created the output o.
CreatedBy(o, q) == \E h \in DOMAIN q : \E i \in DOMAIN q[h].txs : o \in Outputs(q[h].txs[i])

\* The blocks q, at heights 1, 2, ..., account for the outputs u: their rewards add up to
\* them, they created them, and emptied the inputs of their transfers.
NativeLaw(u, q) ==
    /\ SumOver(u, Outpoints) = BlockReward * Cardinality({h \in DOMAIN q : HasCoinbase(q[h])})
    /\ \A o \in Outpoints : u[o] # 0 => CreatedBy(o, q)
    /\ \A h \in DOMAIN q : \A i \in DOMAIN q[h].txs : q[h].txs[i].type = "Transfer"
         => \A o \in q[h].txs[i].inputs : u[o] = 0 /\ CreatedBy(o, q)

\* The blocks q are a chain of length n.
ChainOf(q, n) ==
    n \in Nat /\ DOMAIN q = 1 .. n /\ \A h \in 1 .. n : q[h] \in Blocks /\ q[h].height = h

\* What has outputs.
LEMMA OutputsOf ==
  ASSUME NEW tx, NEW o \in Outputs(tx)
  PROVE  tx.type \in {"Transfer", Coinbase} /\ o[1] = tx.id
<1>1. CASE tx.type \notin {"Transfer", Coinbase}
  <2>1. Outputs(tx) = {<<tx.id, i>> : i \in 0 .. 0 - 1}
    BY <1>1 DEF Outputs
  <2>. QED
    BY <2>1
<1>2. CASE tx.type \in {"Transfer", Coinbase}
  <2>1. \E i : o = <<tx.id, i>>
    BY DEF Outputs
  <2>. QED
    BY <1>2, <2>1
<1>. QED
  BY <1>1, <1>2

\* What an accepted transaction of the next block creates has not been created before.
LEMMA NewOutputs ==
  ASSUME Sound(Blocks), NEW s, NEW q, NEW n, ChainOf(q, n), NativeLaw(s.utxos, q),
         NEW b \in Blocks, b.height = n + 1, NEW i \in DOMAIN b.txs,
         b.txs[i].type = "Transfer" => ~ Rejected(s, b.txs[i]),
         NEW o \in Outputs(b.txs[i])
  PROVE  ~ CreatedBy(o, q)
<1>. SUFFICES ASSUME CreatedBy(o, q) PROVE FALSE
  OBVIOUS
<1>0. PICK h \in DOMAIN q : \E j \in DOMAIN q[h].txs : o \in Outputs(q[h].txs[j])
  BY DEF CreatedBy
<1>1. PICK j \in DOMAIN q[h].txs : o \in Outputs(q[h].txs[j])
  BY <1>0
<1>2. PICK a \in Blocks : a = q[h] /\ a.height = h
  BY <1>1 DEF ChainOf
<1>3. PICK x, y : x = a.txs[j] /\ y = b.txs[i]
  OBVIOUS
<1>4. /\ x.type \in {"Transfer", Coinbase} /\ y.type \in {"Transfer", Coinbase}
      /\ x.id = y.id
  BY <1>1, <1>2, <1>3, OutputsOf
<1>5. x = y /\ (x.type = Coinbase => a.height = b.height)
  BY <1>1, <1>2, <1>3, <1>4 DEF Sound
<1>6. a.height # b.height
  BY <1>1, <1>2 DEF ChainOf
<1>7. x.type = "Transfer" /\ ~ Rejected(s, x)
  BY <1>3, <1>4, <1>5, <1>6
<1>8. \A k \in x.inputs : s.utxos[k] = 0
  BY <1>1, <1>2, <1>3, <1>7 DEF NativeLaw
<1>. QED
  BY <1>7, <1>8 DEF Rejected

\* What a block without or with a coinbase writes.
LEMMA BlockOutcome ==
  ASSUME NEW s, NEW b \in Blocks, NEW r, r = StageTxs(s, b.txs), Batch(r),
         NEW z, z = StageBlock(s, b), z.ok
  PROVE  /\ r.ok
         /\ \/ ~ HasCoinbase(b) /\ z = r
            \/ /\ HasCoinbase(b) /\ 1 \in DOMAIN b.txs /\ b.txs[1].type = Coinbase
               /\ z = PutAll(r, "utxos", CoinPaid(r.fees, b.txs[1]))
               /\ SumOver(CoinAmount(r.fees, b.txs[1]), 1 .. Len(b.txs[1].recipients))
                    = BlockReward + r.fees
<1>1. ~ Fail(Staging).ok /\ ~ Fail(r).ok
  BY StagingOK, FailShape DEF BatchOK
<1>2. \/ z = Fail(Staging)
      \/ z = r /\ (~ r.ok \/ ~ HasCoinbase(b))
      \/ /\ r.ok /\ HasCoinbase(b) /\ 1 \in DOMAIN b.txs /\ b.txs[1].type = Coinbase
         /\ z = ApplyCoinbase(r, b.txs[1])
  BY DEF StageBlock, HasCoinbase
<1>3. \/ z = r /\ ~ HasCoinbase(b) /\ r.ok
      \/ /\ r.ok /\ HasCoinbase(b) /\ 1 \in DOMAIN b.txs /\ b.txs[1].type = Coinbase
         /\ z = ApplyCoinbase(r, b.txs[1])
  BY <1>1, <1>2
<1>. QED
  BY <1>1, <1>3, CoinbaseOutcome

\* The transactions that the state s lets pass create outputs that have no value in s.
FreshOutputs(s, b) ==
    \A i \in DOMAIN b.txs : (b.txs[i].type = "Transfer" => ~ Rejected(s, b.txs[i]))
        => \A o \in Outputs(b.txs[i]) : s.utxos[o] = 0

\* The outputs v a block writes: only outputs of its transactions gain value, the inputs
\* of its transfers are empty, and the value grows by the reward.
HandsOn(s, b, v) ==
    /\ \A o \in DOMAIN v : v[o] # 0 => \E i \in DOMAIN b.txs : o \in Outputs(b.txs[i])
    /\ \A i \in DOMAIN b.txs : b.txs[i].type = "Transfer"
         => /\ ~ Rejected(s, b.txs[i])
            /\ \A o \in b.txs[i].inputs : o \in DOMAIN v /\ v[o] = 0
    /\ SumOver(ApplyBatch(s.utxos, v), Outpoints)
         = SumOver(s.utxos, Outpoints) + (IF HasCoinbase(b) THEN BlockReward ELSE 0)

\* A block hands native value on.
LEMMA BlockNative ==
  ASSUME Sound(Blocks), NEW s, Typed(s), NEW b \in Blocks, FreshOutputs(s, b),
         NEW z, z = StageBlock(s, b), z.ok, NEW v, v = z.w["utxos"]
  PROVE  HandsOn(s, b, v)
<1>. USE DEF HandsOn, FreshOutputs
<1>1. PICK n, q, r : n = Len(b.txs) /\ q = b.txs /\ r = StageTxs(s, q)
  BY Zenon
<1>2. n \in Nat /\ DOMAIN q = 1..n /\ \A i \in 1..n : WellFormedTx(q[i])
  BY <1>1, TxsAssumption
<1>3. Disjoint(b.txs)
  BY DEF Sound
<1>4. BatchOK(r) /\ (r.ok => NativeStaged(s, r, q, n))
  BY <1>1, <1>3, StagedNative, Zenon
<1>5. Batch(r)
  BY <1>4, Zenon DEF BatchOK
<1>6. /\ r.ok
      /\ \/ ~ HasCoinbase(b) /\ z = r
         \/ /\ HasCoinbase(b) /\ 1 \in DOMAIN q /\ q[1].type = Coinbase
            /\ z = PutAll(r, "utxos", CoinPaid(r.fees, q[1]))
            /\ SumOver(CoinAmount(r.fees, q[1]), 1 .. Len(q[1].recipients)) = BlockReward + r.fees
  BY <1>1, <1>5, BlockOutcome
<1>7. PICK w, u : w = r.w["utxos"] /\ u = s.utxos
  BY Zenon
<1>8. PICK fees \in Int, sum \in Int, with \in Int :
        /\ fees = r.fees /\ sum = SumOver(u, Outpoints)
        /\ with = SumOver(ApplyBatch(u, w), Outpoints) /\ with + fees = sum
  <2>1. u \in [Outpoints -> Int] /\ \A k \in DOMAIN w : w[k] \in Int
    BY <1>4, <1>7 DEF Typed, BatchOK, StateTrees
  <2>2. PICK g : g = ApplyBatch(u, w)
    OBVIOUS
  <2>3. \A k \in Outpoints : g[k] \in Int /\ u[k] \in Int
    BY <2>1, <2>2 DEF ApplyBatch
  <2>4. SumOver(g, Outpoints) \in Int /\ SumOver(u, Outpoints) \in Int
    BY <2>3, SumInt, TxsAssumption
  <2>5. r.fees \in Int
    BY <1>4 DEF BatchOK
  <2>6. SumOver(g, Outpoints) + r.fees = SumOver(u, Outpoints)
    BY <1>4, <1>6, <1>7, <2>2, Zenon DEF NativeStaged, NativeWith
  <2>. QED
    BY <2>2, <2>4, <2>5, <2>6, Zenon
<1>9. /\ \A i \in DOMAIN q : q[i].type = "Transfer"
           => ~ Rejected(s, q[i]) /\ \A o \in q[i].inputs : o \in DOMAIN w /\ w[o] = 0
      /\ \A o \in DOMAIN w : \E i \in DOMAIN q :
           /\ q[i].type = "Transfer"
           /\ o \in q[i].inputs \/ o \in Outputs(q[i])
           /\ w[o] # 0 => o \in Outputs(q[i])
      /\ (\A i \in DOMAIN q : q[i].type = "Transfer" => q[i].fee = 0) => fees = 0
  BY <1>2, <1>4, <1>6, <1>7, <1>8, Zenon DEF NativeStaged
<1>10. CASE ~ HasCoinbase(b)
  <2>1. v = w
    BY <1>6, <1>7, <1>10
  <2>2. fees = 0
    BY <1>1, <1>9, <1>10 DEF Sound
  <2>. QED
    BY <1>1, <1>7, <1>8, <1>9, <1>10, <2>1, <2>2
<1>11. CASE HasCoinbase(b)
  <2>1. PICK tx, f, h : tx = q[1] /\ f = CoinPaid(fees, tx) /\ h = CoinAmount(fees, tx)
    OBVIOUS
  <2>2. /\ 1 \in DOMAIN q /\ tx.type = Coinbase /\ WellFormedTx(tx)
        /\ z = PutAll(r, "utxos", f)
        /\ SumOver(h, 1 .. Len(tx.recipients)) = BlockReward + fees
    BY <1>2, <1>6, <1>8, <1>11, <2>1, Zenon
  <2>3. v = Join(w, f)
    BY <1>5, <1>7, <2>2, PutAllShape DEF StateTrees
  <2>4. PICK l \in Nat : l = Len(tx.recipients)
    BY <2>2 DEF WellFormedTx
  <2>5. Outputs(tx) = {<<tx.id, i>> : i \in 0 .. l - 1}
    BY <2>2, <2>4 DEF Outputs, Coinbase
  <2>6. {<<tx.id, i - 1>> : i \in 1 .. l} = {<<tx.id, i>> : i \in 0 .. l - 1}
    <3>1. \A i \in 0 .. l - 1 : i + 1 \in 1 .. l /\ (i + 1) - 1 = i
      OBVIOUS
    <3>2. \A i \in 1 .. l : i - 1 \in 0 .. l - 1
      OBVIOUS
    <3>. QED
      BY <3>1, <3>2
  <2>7. DOMAIN f = Outputs(tx) /\ \A i \in 0 .. l - 1 : f[<<tx.id, i>>] = h[i + 1]
    <3>1. f = [o \in Outputs(tx) |-> h[o[2] + 1]]
      BY <2>1, <2>4, <2>5, <2>6 DEF CoinPaid
    <3>. QED
      BY <2>5, <3>1
  <2>8. (\A i \in 1 .. l : h[i] \in Int) /\ (\A o \in DOMAIN f : f[o] \in Int)
    BY <2>1, <2>2, <2>4, CoinAmounts
  <2>9. Carries(f, Outputs(tx), tx.id, h, l)
    BY <2>5, <2>7, <2>8 DEF Carries
  <2>10. SumOver(f, Outputs(tx)) = BlockReward + fees /\ IsFiniteSet(Outputs(tx))
    BY <2>2, <2>4, <2>9, SumOutputs
  <2>11. \A o \in Outputs(tx) : u[o] = 0
    BY <1>1, <1>7, <2>1, <2>2 DEF Coinbase
  <2>12. \A o \in Outputs(tx) : o \notin DOMAIN w
    <3>. SUFFICES ASSUME NEW o \in Outputs(tx), o \in DOMAIN w PROVE FALSE
      OBVIOUS
    <3>1. PICK i \in DOMAIN q : q[i].type = "Transfer" /\ (o \in q[i].inputs \/ o \in Outputs(q[i]))
      BY <1>9
    <3>2. CASE o \in q[i].inputs
      <4>1. u[o] # 0
        BY <1>7, <1>9, <3>1, <3>2 DEF Rejected
      <4>. QED
        BY <2>11, <4>1
    <3>3. CASE o \in Outputs(q[i])
      <4>1. q[i].id = tx.id
        BY <3>3, OutputsOf
      <4>2. q[i] = tx
        BY <1>1, <2>1, <2>2, <3>1, <4>1, Zenon DEF Sound
      <4>. QED
        BY <2>2, <3>1, <4>2, Zenon DEF Coinbase
    <3>. QED
      BY <3>1, <3>2, <3>3
  <2>13. DOMAIN v = DOMAIN w \cup Outputs(tx) /\ \A o \in DOMAIN w : v[o] = w[o]
    BY <2>3, <2>7, <2>12, Zenon DEF Join
  <2>14. SumOver(ApplyBatch(u, v), Outpoints) = sum + BlockReward
    <3>1. u \in [Outpoints -> Int] /\ \A k \in DOMAIN w : w[k] \in Int
      BY <1>4, <1>7 DEF Typed, BatchOK, StateTrees
    <3>2. DOMAIN f \in SUBSET Outpoints
      BY <2>2, <2>7 DEF WellFormedTx
    <3>3. SumOver(ApplyBatch(u, Join(w, f)), Outpoints)
            = SumOver(ApplyBatch(u, w), Outpoints) + SumOver(f, DOMAIN f) - SumOver(u, DOMAIN f)
      BY <2>7, <2>8, <2>12, <3>1, <3>2, PutOutputs
    <3>4. SumOver(u, Outputs(tx)) = 0
      BY <2>10, <2>11, SumZero
    <3>5. BlockReward \in Int
      BY TxsAssumption
    <3>. QED
      BY <1>8, <2>3, <2>7, <2>10, <3>3, <3>4, <3>5
  <2>15. ASSUME NEW o \in DOMAIN v, v[o] # 0 PROVE \E i \in DOMAIN q : o \in Outputs(q[i])
    BY <1>9, <2>1, <2>2, <2>13, <2>15, Zenon
  <2>16. ASSUME NEW i \in DOMAIN q, q[i].type = "Transfer"
         PROVE  ~ Rejected(s, q[i]) /\ \A o \in q[i].inputs : o \in DOMAIN v /\ v[o] = 0
    BY <1>9, <2>13, <2>16
  <2>. QED
    BY <1>1, <1>7, <1>8, <1>11, <2>14, <2>15, <2>16, Zenon
<1>. QED
  BY <1>10, <1>11, Zenon

\* Q is the chain q of length n with the block b on top.
OneMoreBlock(Q, q, n, b) ==
    DOMAIN Q = 1 .. n + 1 /\ Q[n + 1] = b /\ \A h \in 1 .. n : Q[h] = q[h]

\* One more block with a coinbase, or not.
LEMMA OneMoreCoinbase ==
  ASSUME NEW q, NEW n, ChainOf(q, n), NEW b, NEW Q, OneMoreBlock(Q, q, n, b),
         NEW c, c = Cardinality({h \in DOMAIN q : HasCoinbase(q[h])})
  PROVE  /\ c \in Nat
         /\ Cardinality({h \in DOMAIN Q : HasCoinbase(Q[h])}) = IF HasCoinbase(b) THEN c + 1 ELSE c
<1>1. PICK A, B : A = {h \in DOMAIN q : HasCoinbase(q[h])} /\ B = {h \in DOMAIN Q : HasCoinbase(Q[h])}
  BY Zenon
<1>2. n \in Nat /\ DOMAIN q = 1 .. n /\ DOMAIN Q = 1 .. n + 1 /\ Q[n + 1] = b
  BY DEF ChainOf, OneMoreBlock
<1>3. A \subseteq 1 .. n /\ n + 1 \notin A
  BY <1>1, <1>2
<1>4. B = IF HasCoinbase(b) THEN A \cup {n + 1} ELSE A
  <2>1. \A h \in 1 .. n + 1 : h \in 1 .. n \/ h = n + 1
    BY <1>2
  <2>2. \A h \in 1 .. n : h \in 1 .. n + 1 /\ Q[h] = q[h]
    BY <1>2 DEF OneMoreBlock
  <2>3. n + 1 \in 1 .. n + 1
    BY <1>2
  <2>. QED
    BY <1>1, <1>2, <2>1, <2>2, <2>3
<1>5. IsFiniteSet(A)
  <2>1. IsFiniteSet(1 .. n)
    BY <1>2, FS_Interval
  <2>. QED
    BY <1>3, <2>1, FS_Subset, Zenon
<1>6. Cardinality(A) \in Nat /\ Cardinality(A \cup {n + 1}) = Cardinality(A) + 1
  BY <1>3, <1>5, FS_CardinalityType, FS_AddElement
<1>. QED
  BY <1>1, <1>4, <1>6

\* The next block keeps the law.
LEMMA NativeLawMore ==
  ASSUME Sound(Blocks), NEW s, Typed(s), NEW q, NEW n, ChainOf(q, n), NativeLaw(s.utxos, q),
         NEW b \in Blocks, b.height = n + 1, NEW Q, OneMoreBlock(Q, q, n, b),
         NEW z, z = StageBlock(s, b), z.ok
  PROVE  NativeLaw(ApplyBatch(s.utxos, z.w["utxos"]), Q)
<1>1. PICK v, u, g : v = z.w["utxos"] /\ u = s.utxos /\ g = ApplyBatch(u, v)
  OBVIOUS
<1>2. /\ n \in Nat /\ DOMAIN q = 1 .. n /\ (\A h \in 1 .. n : q[h] \in Blocks)
      /\ DOMAIN Q = 1 .. n + 1 /\ Q[n + 1] = b /\ (\A h \in 1 .. n : Q[h] = q[h])
  BY DEF ChainOf, OneMoreBlock
<1>3. \A i \in DOMAIN b.txs : WellFormedTx(b.txs[i])
  BY TxsAssumption
<1>4. ASSUME NEW i \in DOMAIN b.txs, b.txs[i].type = "Transfer" => ~ Rejected(s, b.txs[i]),
             NEW o \in Outputs(b.txs[i])
      PROVE  ~ CreatedBy(o, q) /\ o \in Outpoints /\ u[o] = 0
  <2>1. ~ CreatedBy(o, q)
    BY <1>4, NewOutputs
  <2>2. o \in Outpoints
    <3>1. b.txs[i].type \in {"Transfer", Coinbase}
      BY OutputsOf
    <3>. QED
      BY <1>3, <3>1 DEF WellFormedTx
  <2>. QED
    BY <1>1, <2>1, <2>2 DEF NativeLaw
<1>5. /\ \A o \in DOMAIN v : v[o] # 0 => \E i \in DOMAIN b.txs : o \in Outputs(b.txs[i])
      /\ \A i \in DOMAIN b.txs : b.txs[i].type = "Transfer"
           => /\ ~ Rejected(s, b.txs[i])
              /\ \A o \in b.txs[i].inputs : o \in DOMAIN v /\ v[o] = 0
      /\ SumOver(g, Outpoints)
           = SumOver(u, Outpoints) + (IF HasCoinbase(b) THEN BlockReward ELSE 0)
  <2>1. FreshOutputs(s, b)
    BY <1>1, <1>4, Zenon DEF FreshOutputs
  <2>2. HandsOn(s, b, v)
    BY <1>1, <2>1, BlockNative, Zenon
  <2>. QED
    BY <1>1, <2>2, Zenon DEF HandsOn
<1>6. ASSUME NEW i \in DOMAIN b.txs, NEW o \in Outputs(b.txs[i])
      PROVE  ~ CreatedBy(o, q)
  BY <1>4, <1>5, Zenon
<1>7. \A o : CreatedBy(o, q) => CreatedBy(o, Q)
  <2>. SUFFICES ASSUME NEW o, CreatedBy(o, q) PROVE CreatedBy(o, Q)
    OBVIOUS
  <2>1. PICK h \in 1 .. n : \E i \in DOMAIN q[h].txs : o \in Outputs(q[h].txs[i])
    BY <1>2, Zenon DEF CreatedBy
  <2>2. h \in DOMAIN Q /\ Q[h] = q[h]
    BY <1>2
  <2>. QED
    BY <2>1, <2>2, Zenon DEF CreatedBy
<1>8. \A i \in DOMAIN b.txs : \A o \in Outputs(b.txs[i]) : CreatedBy(o, Q)
  <2>1. n + 1 \in DOMAIN Q
    BY <1>2
  <2>. QED
    BY <1>2, <2>1, Zenon DEF CreatedBy
<1>9. DOMAIN u = Outpoints /\ \A o \in Outpoints : g[o] = IF o \in DOMAIN v THEN v[o] ELSE u[o]
  BY <1>1, Zenon DEF Typed, ApplyBatch
<1>10. ASSUME NEW o \in Outpoints, g[o] # 0 PROVE CreatedBy(o, Q)
  <2>1. CASE o \in DOMAIN v
    BY <1>5, <1>8, <1>9, <1>10, <2>1, Zenon
  <2>2. CASE o \notin DOMAIN v
    <3>1. u[o] # 0
      BY <1>9, <1>10, <2>2
    <3>2. CreatedBy(o, q)
      BY <1>1, <3>1 DEF NativeLaw
    <3>. QED
      BY <1>7, <3>2
  <2>. QED
    BY <2>1, <2>2
<1>11. ASSUME NEW h \in DOMAIN Q, NEW i \in DOMAIN Q[h].txs, Q[h].txs[i].type = "Transfer",
              NEW o \in Q[h].txs[i].inputs
       PROVE  g[o] = 0 /\ CreatedBy(o, Q)
  <2>1. CASE h \in 1 .. n
    <3>1. Q[h] = q[h] /\ q[h] \in Blocks /\ h \in DOMAIN q
      BY <1>2, <2>1
    <3>2. u[o] = 0 /\ CreatedBy(o, q)
      BY <1>1, <1>11, <3>1, Zenon DEF NativeLaw
    <3>3. o \in Outpoints
      BY <1>11, <3>1, TxsAssumption, Zenon DEF WellFormedTx
    <3>4. o \in DOMAIN v => v[o] = 0
      BY <1>5, <1>6, <3>2, Zenon
    <3>. QED
      BY <1>7, <1>9, <3>2, <3>3, <3>4
  <2>2. CASE h = n + 1
    <3>1. Q[h] = b /\ i \in DOMAIN b.txs
      BY <1>2, <2>2
    <3>2. ~ Rejected(s, b.txs[i]) /\ o \in DOMAIN v /\ v[o] = 0
      BY <1>5, <1>11, <3>1, Zenon
    <3>3. o \in Outpoints
      BY <1>3, <1>11, <3>1 DEF WellFormedTx
    <3>4. u[o] # 0
      BY <1>1, <1>11, <3>1, <3>2 DEF Rejected
    <3>5. CreatedBy(o, q)
      BY <1>1, <3>3, <3>4, Zenon DEF NativeLaw
    <3>. QED
      BY <1>7, <1>9, <3>2, <3>3, <3>5, Zenon
  <2>3. h \in 1 .. n \/ h = n + 1
    BY <1>2
  <2>. QED
    BY <2>1, <2>2, <2>3, Zenon
<1>12. SumOver(g, Outpoints) = BlockReward * Cardinality({h \in DOMAIN Q : HasCoinbase(Q[h])})
  <2>1. PICK c \in Nat : /\ c = Cardinality({h \in DOMAIN q : HasCoinbase(q[h])})
                         /\ Cardinality({h \in DOMAIN Q : HasCoinbase(Q[h])})
                              = IF HasCoinbase(b) THEN c + 1 ELSE c
    BY OneMoreCoinbase
  <2>2. SumOver(u, Outpoints) = BlockReward * c
    BY <1>1, <2>1 DEF NativeLaw
  <2>3. BlockReward \in Nat
    BY TxsAssumption
  <2>4. BlockReward * (c + 1) = BlockReward * c + BlockReward /\ BlockReward * c \in Nat
    BY <2>3
  <2>. QED
    BY <1>5, <2>1, <2>2, <2>3, <2>4
<1>13. NativeLaw(g, Q)
  BY <1>10, <1>11, <1>12, Zenon DEF NativeLaw
<1>. QED
  BY <1>1, <1>13
=============================================================================
