--------------------------- MODULE BlockExecution ---------------------------
(***************************************************************************)
(* What BlockExecutor::apply_block_inner writes for a block                *)
(* (lib-blockchain/src/execution/executor.rs, tx_apply.rs).                *)
(*                                                                         *)
(* A Sled tree is a function from its keys to numbers in which 0 stands    *)
(* for an absent key: set_token_balance(0) and set_token_nonce(0) remove   *)
(* the key, delete_utxo removes an output and no output has amount 0.  A   *)
(* batch is a partial function on the keys of each tree.  Every read of    *)
(* the executor goes to the committed trees s, never to the batch r.w that *)
(* the block has staged so far.                                            *)
(*                                                                         *)
(* One token (SOV) is modelled; u128 overflow is out of reach of the       *)
(* amounts the chain can hold and left out.                                *)
(***************************************************************************)
EXTENDS Integers, Sequences, FiniteSets, FiniteSetsExt, SequencesExt, Sums

CONSTANTS
    Blocks,      \* every block any node may offer
    Addresses,   \* wallet addresses, FeeSink among them
    Outpoints,   \* transaction outputs
    FeeSink,     \* fee_sink_address, not the zero address
    FeeBps,      \* SOV_FEE_RATE_BPS, 100 in the code
    BlockReward  \* fee_model.block_reward

StateTrees == {"utxos", "token_balances", "token_nonces", "token_supply"}

SOV == "SOV"

Coinbase == "Coinbase"

\* The outputs a transaction creates.
Outputs(tx) ==
    LET n == CASE tx.type = "Transfer" -> tx.outputs
               [] tx.type = Coinbase   -> Len(tx.recipients)
               [] OTHER                -> 0
    IN  {<<tx.id, i>> : i \in 0 .. n - 1}

\* The addresses, amounts and outputs of a transaction.
WellFormedTx(tx) ==
    /\ tx.type = "Transfer" => tx.inputs \subseteq Outpoints /\ tx.outputs \in Nat /\ tx.fee \in Nat
    /\ tx.type = Coinbase => Len(tx.recipients) \in Nat
    /\ tx.type \in {"Transfer", Coinbase} => Outputs(tx) \subseteq Outpoints
    /\ tx.type = "TokenTransfer" => tx.from \in Addresses
    /\ tx.type \in {"TokenTransfer", "TokenMint", "WalletRegistration"}
         => tx.to \in Addresses /\ tx.amount \in Nat

ASSUME TxsAssumption ==
    /\ FeeSink \in Addresses /\ FeeBps \in Nat /\ BlockReward \in Nat
    /\ IsFiniteSet(Addresses) /\ IsFiniteSet(Outpoints)
    /\ \A b \in Blocks :
         /\ Len(b.txs) \in Nat /\ DOMAIN b.txs = 1 .. Len(b.txs)
         /\ \A i \in DOMAIN b.txs : WellFormedTx(b.txs[i])

\* The outcome of staging: the writes so far and the fees of native transfers.
Staging == [ok |-> TRUE, fees |-> 0, w |-> [t \in StateTrees |-> <<>>]]

Fail(r) == [r EXCEPT !.ok = FALSE]

Insert(f, k, v) == [j \in DOMAIN f \cup {k} |-> IF j = k THEN v ELSE f[j]]

\* Fault: a write replaces the batch of its tree.
put_last(r, tree, k, v) == [r EXCEPT !.w[tree] = Insert(<<>>, k, v)]

Put(r, tree, k, v) == [r EXCEPT !.w[tree] = Insert(@, k, v)]

\* Tree::apply_batch on one tree.
ApplyBatch(tree, batch) ==
    [k \in DOMAIN tree |-> IF k \in DOMAIN batch THEN batch[k] ELSE tree[k]]

\* The writes of a function on keys, all into one tree.
PutAll(r, tree, f) ==
    [r EXCEPT !.w[tree] = [k \in DOMAIN @ \cup DOMAIN f |->
                             IF k \in DOMAIN f THEN f[k] ELSE @[k]]]

DebitToken(s, r, a, amount) ==
    IF amount = 0 THEN r
    ELSE IF s.token_balances[a] < amount THEN Fail(r)
    ELSE Put(r, "token_balances", a, s.token_balances[a] - amount)

CreditToken(s, r, a, amount) ==
    IF amount = 0 THEN r
    ELSE Put(r, "token_balances", a, s.token_balances[a] + amount)

\* A mint credits the recipient and advances the recorded SOV supply.
MintSov(s, r, a, amount) ==
    Put(CreditToken(s, r, a, amount),
        "token_supply", SOV, s.token_supply[SOV] + amount)

\* Fault: the fee is debited and credited to nobody.
transfer_burning_fee(s, r, tx) ==
    LET fee      == (tx.amount * FeeBps) \div 10000
        debited  == DebitToken(s, r, tx.from, tx.amount)
        credited == CreditToken(s, debited, tx.to, tx.amount - fee)
    IN  IF tx.amount = 0 \/ tx.nonce # s.token_nonces[tx.from] THEN Fail(r)
        ELSE Put(credited, "token_nonces", tx.from, s.token_nonces[tx.from] + 1)

\* validate_tx_stateful, apply_token_transfer and increment_token_nonce.
TokenTransfer(s, r, tx) ==
    LET fee      == (tx.amount * FeeBps) \div 10000
        debited  == DebitToken(s, r, tx.from, tx.amount)
        credited == CreditToken(s, debited, tx.to, tx.amount - fee)
        paid     == CreditToken(s, credited, FeeSink, fee)
    IN  IF tx.amount = 0 \/ tx.nonce # s.token_nonces[tx.from] THEN Fail(r)
        ELSE Put(paid, "token_nonces", tx.from, s.token_nonces[tx.from] + 1)

\* Equal shares, the remainder going to the first.
Shares(total, n) == [i \in 1 .. n |-> (total \div n) + (IF i = 1 THEN total % n ELSE 0)]

\* Fault: the fees of native transfers are not passed to the coinbase.
collect_no_fee(r, fee) == r

\* The fees of the block so far, for its coinbase.
CollectFee(r, fee) == [r EXCEPT !.fees = @ + fee]

\* The outputs share inputs - fee.
NativeTransfer(s, r, tx) ==
    LET inputs    == SumOver(s.utxos, tx.inputs)
        available == inputs - tx.fee
        share     == Shares(available, tx.outputs)
        outputs   == [o \in {<<tx.id, i>> : i \in 0 .. tx.outputs - 1} |-> share[o[2] + 1]]
        spent     == [o \in tx.inputs |-> 0]
    IN  IF \/ tx.inputs = {} \/ tx.outputs = 0
           \/ \E o \in tx.inputs : s.utxos[o] = 0
           \/ available < tx.outputs
        THEN Fail(r)
        ELSE CollectFee(PutAll(PutAll(r, "utxos", spent), "utxos", outputs), tx.fee)

\* apply_coinbase: the reward is shared by the outputs that are not the fee
\* sink's, which receives the fees of the block's native transfers.
ApplyCoinbase(r, tx) ==
    LET n       == Len(tx.recipients)
        isSink(i) == r.fees > 0 /\ tx.recipients[i] = FeeSink
        rewards == {i \in 1 .. n : ~isSink(i)}
        count   == IF r.fees > 0 THEN n - 1 ELSE n
        amount  == [i \in 1 .. n |->
                      IF isSink(i) THEN r.fees
                      ELSE IF count = 0 THEN 0
                      ELSE (BlockReward \div count)
                             + (IF i = Min(rewards) THEN BlockReward % count ELSE 0)]
    IN  IF \/ n = 0
           \/ r.fees > 0 /\ rewards = 1 .. n
           \/ count > 0 /\ BlockReward < count
           \/ SumOver(amount, 1 .. n) # BlockReward + r.fees
        THEN Fail(r)
        ELSE PutAll(r, "utxos", [o \in {<<tx.id, i - 1>> : i \in 1 .. n} |-> amount[o[2] + 1]])

\* apply_transaction; the identity transactions change nothing here, nor does the
\* coinbase in the pass over the other transactions.
StageTx(s, r, tx) ==
    IF ~ r.ok THEN r
    ELSE CASE tx.type = "Transfer"      -> NativeTransfer(s, r, tx)
           [] tx.type = "TokenTransfer" -> TokenTransfer(s, r, tx)
           [] tx.type = "TokenMint"     ->
                 IF tx.amount = 0 THEN Fail(r) ELSE MintSov(s, r, tx.to, tx.amount)
           [] tx.type = "WalletRegistration" ->
                 IF tx.amount = 0 THEN r ELSE MintSov(s, r, tx.to, tx.amount)
           [] OTHER -> r

StageTxs(s, txs) == FoldLeft(LAMBDA r, tx : StageTx(s, r, tx), Staging, txs)

\* At most one coinbase, in front; it is staged last, with the block's fees.
StageBlock(s, b) ==
    LET coinbases == {i \in DOMAIN b.txs : b.txs[i].type = Coinbase}
        staged    == StageTxs(s, b.txs)
    IN  IF ~ (coinbases \subseteq {1}) THEN Fail(Staging)
        ELSE IF coinbases = {} \/ ~ staged.ok THEN staged
        ELSE ApplyCoinbase(staged, b.txs[1])

\* The state after all batches of a block have been applied.
After(s, r) == [t \in StateTrees |-> ApplyBatch(s[t], r.w[t])]

\* The state a sequence of blocks leads to.
Replay(s, blocks) == FoldLeft(LAMBDA st, b : After(st, StageBlock(st, b)), s, blocks)

(***************************************************************************)
(* Reference semantics: the transactions of a block one after another,     *)
(* each seeing what the ones before it wrote.                              *)
(***************************************************************************)
OneByOne(s, txs) ==
    FoldLeft(LAMBDA p, tx : LET r == StageTx(p.s, Staging, tx)
                            IN  [ok |-> p.ok /\ r.ok, s |-> After(p.s, r)],
             [ok |-> TRUE, s |-> [t \in StateTrees |-> s[t]]], txs)

\* The entries of the trees a transaction reads or writes.
Footprint(tx) ==
    CASE tx.type = "Transfer"      -> {<<"utxos", o>> : o \in tx.inputs \cup Outputs(tx)}
      [] tx.type = "TokenTransfer" ->
            {<<"token_nonces", tx.from>>} \cup
            {<<"token_balances", a>> : a \in {tx.from, tx.to}
                \cup (IF (tx.amount * FeeBps) \div 10000 > 0 THEN {FeeSink} ELSE {})}
      [] tx.type \in {"TokenMint", "WalletRegistration"} ->
            {<<"token_balances", tx.to>>, <<"token_supply", SOV>>}
      [] OTHER -> {}

Disjoint(txs) ==
    \A i, j \in DOMAIN txs : i # j => Footprint(txs[i]) \cap Footprint(txs[j]) = {}

\* The fee of a token transfer.
Fee(tx) == (tx.amount * FeeBps) \div 10000

\* A block whose transactions touch different entries, and whose transfers credit
\* neither the account they debit nor one account twice.
Separate(txs) ==
    /\ Disjoint(txs)
    /\ \A i \in DOMAIN txs : txs[i].type = "TokenTransfer"
         => /\ txs[i].from # txs[i].to
            /\ Fee(txs[i]) > 0 => FeeSink \notin {txs[i].from, txs[i].to}

HasCoinbase(b) == \E i \in DOMAIN b.txs : b.txs[i].type = Coinbase

\* Blocks whose transactions touch different entries; in which a hash identifies a
\* native transfer or a coinbase, and a coinbase is of one height; and in which no
\* block collects fees of native transfers without a coinbase to hand them on.
Sound(blocks) ==
    /\ \A b \in blocks : Disjoint(b.txs)
    /\ \A a, b \in blocks : \A i \in DOMAIN a.txs, j \in DOMAIN b.txs :
         LET x == a.txs[i]  y == b.txs[j]
         IN  /\ x.type \in {"Transfer", Coinbase} /\ y.type \in {"Transfer", Coinbase}
             /\ x.id = y.id
             => x = y /\ (x.type = Coinbase => a.height = b.height)
    /\ \A b \in blocks : HasCoinbase(b) \/ \A i \in DOMAIN b.txs :
         b.txs[i].type = "Transfer" => b.txs[i].fee = 0
=============================================================================
