--------------------------- MODULE TreasuryKernel ---------------------------
(***************************************************************************)
(* The treasury kernel and the token contract it controls: minting and     *)
(* burning, kernel and user transfers, vesting with cliff and revocation,  *)
(* delayed mint and burn authorizations, weekly UBI claims and the         *)
(* emergency pause (lib-blockchain/src/contracts/treasury_kernel/,         *)
(* contracts/tokens/core.rs).                                              *)
(*                                                                         *)
(* Calls by others than the kernel, governance or a beneficiary return an  *)
(* error and change nothing; they are left out, as are calls that fail     *)
(* their checks.  Credits and debits without a supply change have no       *)
(* caller outside transfer.                                                *)
(*                                                                         *)
(* The token is one like SOV: transfers burn nothing (is_deflationary is   *)
(* false), and holders may call transfer.  A welfare token, which is in    *)
(* kernel_only_mode, takes UserTransfer from the kernel only: it has fewer *)
(* behaviours.                                                             *)
(*                                                                         *)
(* The token contract's maps are keyed by whole public keys.  A holder's   *)
(* key is written with its key material ("full") or with the key id alone  *)
(* ("id"); the two are different keys, and the second sorts first.         *)
(***************************************************************************)
EXTENDS Sums, Sequences

CONSTANTS
    Holders,         \* key ids
    Keys,            \* the keys in use: a holder and a form of its key
    Citizens,        \* the citizen registry: holders that are not revoked
    CitizenSince,    \* citizenship_epoch
    InitialKeys,     \* the keys that hold tokens at the start
    InitialBalance,  \* what each of them holds
    Amounts,         \* amounts of a single operation
    MaxAmount,       \* bound: the largest of them
    Schedules,       \* vesting schedules
    Proposals,       \* DAO proposals that authorize a mint or a burn
    None,            \* no authorization, no revocation
    MintDelay,       \* mint_delay_epochs
    PoolCap,         \* POOL_CAP_PER_EPOCH, 1,000,000 in the code
    MaxSupply,       \* max_supply
    MaxEpoch         \* bound: the last epoch

Epochs == 0..MaxEpoch

\* MintAuthorization and BurnAuthorization.
Authorization == [holder : Holders, amount : Amounts, after : Epochs, consumed : BOOLEAN]

ASSUME InputsAssumption ==
    /\ Citizens \subseteq Holders
    /\ CitizenSince \in [Citizens -> Nat]
    /\ Keys \subseteq Holders \X {"full", "id"}
    /\ \A h \in Holders : <<h, "id">> \in Keys
    /\ InitialKeys \subseteq Keys /\ IsFiniteSet(InitialKeys)
    /\ IsFiniteSet(Proposals)
    /\ InitialBalance \in Nat
    /\ MaxAmount \in Nat
    /\ Amounts \subseteq 1..MaxAmount
    /\ MintDelay \in Nat /\ PoolCap \in Nat /\ MaxSupply \in Nat /\ MaxEpoch \in Nat
    /\ None \notin Nat /\ None \notin Authorization
    /\ Schedules \subseteq [start : Nat, cliff : Nat, end : Nat, total : Nat]

VARIABLES
    epoch,        \* the epoch the caller passes to every operation
    paused,       \* TreasuryKernel.paused
    balance,      \* TokenContract.balances, a function on the keys with an entry
    locked,       \* TokenContract.locked_balances
    supply,       \* TokenContract.total_supply
    locks,        \* VestingState.locks, by creation
    total_locked, \* VestingState.total_locked
    auth,         \* pending_mint_authorizations and pending_burn_authorizations, by
                  \* kind and proposal
    consumed,     \* consumed_authorizations
    claimed,      \* already_claimed, as pairs of citizen and epoch
    distributed,  \* total_distributed
    direct,       \* history: minted less burned by signed TokenMint transactions
    tracked       \* history: distributed by calls without a token contract

vars == <<epoch, paused, balance, locked, supply, locks, total_locked, auth, consumed,
          claimed, distributed, direct, tracked>>

Kinds == {"mint", "burn"}

\* The key built from a key id, without key material.
IdKey(h) == <<h, "id">>

KeysOf(h) == {k \in Keys : k[1] = h}

Init ==
    /\ epoch = 0
    /\ paused = FALSE
    /\ balance = [k \in InitialKeys |-> InitialBalance]
    /\ locked = [k \in Keys |-> 0]
    /\ supply = InitialBalance * Cardinality(InitialKeys)
    /\ locks = <<>>
    /\ total_locked = 0
    /\ auth = [kind \in Kinds |-> [p \in Proposals |-> None]]
    /\ consumed = {}
    /\ claimed = {}
    /\ distributed = [e \in Epochs |-> 0]
    /\ direct = 0
    /\ tracked = 0

Monus(x, y) == IF x > y THEN x - y ELSE 0

(***************************************************************************)
(* Token contract                                                          *)
(***************************************************************************)

balance_of(k) == IF k \in DOMAIN balance THEN balance[k] ELSE 0

available_balance(k) == Monus(balance_of(k), locked[k])

\* balances.insert.
Insert(b, k, x) == [j \in DOMAIN b \cup {k} |-> IF j = k THEN x ELSE b[j]]

Credited(k, x) == Insert(balance, k, balance_of(k) + x)
Debited(k, x)  == Insert(balance, k, balance_of(k) - x)

\* Source first; the target's balance is read after it.
Moved(from, to, x) ==
    IF from = to THEN Insert(balance, from, balance_of(from))
    ELSE Insert(Debited(from, x), to, balance_of(to) + x)

\* mint_kernel_only: refused at the supply limit.
CanMint(x) == supply + x <= MaxSupply

(***************************************************************************)
(* Vesting schedules                                                       *)
(***************************************************************************)

is_valid(s) == s.cliff >= s.start /\ s.end >= s.cliff /\ s.total > 0

vested_amount(s, e) ==
    IF e < s.start THEN 0
    ELSE IF e >= s.end THEN s.total
    ELSE (s.total * (e - s.start)) \div (s.end - s.start)

releasable_amount(s, e) == IF e < s.cliff THEN 0 ELSE vested_amount(s, e)

\* Fault: a revoked lock keeps accruing.
accrue_after_revocation(l, e) == e

\* A revoked lock stops accruing at the epoch of its revocation.
effective_epoch(l, e) == IF l.revoked # None /\ l.revoked < e THEN l.revoked ELSE e

\* Fault: the cliff is not looked at.
available_before_cliff(l, e) ==
    Monus(vested_amount(l.schedule, effective_epoch(l, e)), l.released)

available_to_release(l, e) ==
    Monus(releasable_amount(l.schedule, effective_epoch(l, e)), l.released)

\* What the beneficiary has received of the lock or may receive now.
Entitled(l, e) == l.released + available_to_release(l, e)

\* Fault: a revocation takes back what has vested, too.
return_all(l, e) == Monus(l.schedule.total, l.released)

\* VestingLock.revoke: the amount that goes back.
Returnable(l, e) ==
    LET vested == vested_amount(l.schedule, e)
        rest   == Monus(Monus(l.schedule.total, l.released), Monus(vested, l.released))
        unvested == Monus(l.schedule.total, vested)
    IN  IF rest < unvested THEN rest ELSE unvested

(***************************************************************************)
(* Operations                                                              *)
(***************************************************************************)

Tick ==
    /\ epoch < MaxEpoch
    /\ epoch' = epoch + 1
    /\ UNCHANGED <<paused, balance, locked, supply, locks, total_locked, auth, consumed,
                   claimed, distributed, direct, tracked>>

\* pause and unpause, by governance.
SetPaused(b) ==
    /\ paused' = b
    /\ UNCHANGED <<epoch, balance, locked, supply, locks, total_locked, auth, consumed,
                   claimed, distributed, direct, tracked>>

\* credit with reason Mint, for a signed TokenMint transaction.
Mint(k, x) ==
    /\ ~ paused /\ CanMint(x)
    /\ balance' = Credited(k, x)
    /\ supply' = supply + x
    /\ direct' = direct + x
    /\ UNCHANGED <<epoch, paused, locked, locks, total_locked, auth, consumed, claimed,
                   distributed, tracked>>

\* Fault: the supply is not lowered.
burn_without_supply(x) == supply

Burnt(x) == Monus(supply, x)

\* debit with reason Burn takes locked tokens too.
Burn(k, x) ==
    /\ ~ paused /\ balance_of(k) >= x
    /\ balance' = Debited(k, x)
    /\ supply' = Burnt(x)
    /\ direct' = direct - x
    /\ UNCHANGED <<epoch, paused, locked, locks, total_locked, auth, consumed, claimed,
                   distributed, tracked>>

\* TreasuryKernel::transfer leaves locked tokens alone.
Transfer(from, to, x) ==
    /\ ~ paused /\ available_balance(from) >= x
    /\ balance' = Moved(from, to, x)
    /\ UNCHANGED <<epoch, paused, locked, supply, locks, total_locked, auth, consumed,
                   claimed, distributed, direct, tracked>>

\* TokenContract::transfer by the holder looks at the balance only.
UserTransfer(from, to, x) ==
    /\ balance_of(from) >= x
    /\ balance' = Moved(from, to, x)
    /\ UNCHANGED <<epoch, paused, locked, supply, locks, total_locked, auth, consumed,
                   claimed, distributed, direct, tracked>>

CreateVesting(k, s, revocable) ==
    /\ ~ paused /\ is_valid(s)
    /\ available_balance(k) >= s.total
    /\ locked' = [locked EXCEPT ![k] = @ + s.total]
    /\ locks' = Append(locks, [beneficiary |-> k[1], schedule |-> s, released |-> 0,
                               revocable |-> revocable, revoked |-> None, stranded |-> 0])
    /\ total_locked' = total_locked + s.total
    /\ UNCHANGED <<epoch, paused, balance, supply, auth, consumed, claimed, distributed,
                   direct, tracked>>

\* The lock keeps the key id only; its key is looked up among the balances.
find_beneficiary_key(h) ==
    LET entries == KeysOf(h) \cap DOMAIN balance
        holding == {k \in KeysOf(h) : locked[k] > 0}
        first(S) == IF S = {} \/ IdKey(h) \in S THEN IdKey(h) ELSE CHOOSE k \in S : TRUE
    IN  IF entries # {} THEN first(entries) ELSE first(holding)

\* VestingState.record_release, called when the token operations are done.
total_released(x, done) == IF done THEN Monus(total_locked, x) ELSE total_locked

\* Fault: the release is not recorded in the lock.
release_unrecorded(l, x) == l

\* VestingLock.record_release.
record_release(l, x) == [l EXCEPT !.released = @ + x]

\* release_vested; the pause stops a beneficiary's call at the release.
ReleaseVested(i) ==
    LET k == find_beneficiary_key(locks[i].beneficiary)
        x == available_to_release(locks[i], epoch)
    IN  /\ ~ paused
        /\ x > 0 /\ locked[k] >= x
        /\ locked' = [locked EXCEPT ![k] = @ - x]
        /\ locks' = [locks EXCEPT ![i] = record_release(@, x)]
        /\ total_locked' = total_released(x, TRUE)
        /\ UNCHANGED <<epoch, paused, balance, supply, auth, consumed, claimed, distributed,
                       direct, tracked>>

\* The lock after revoke.  stranded records the part that stays locked because the
\* release that follows failed.
Revoked(l, e, stranded) == [l EXCEPT !.revoked = e, !.stranded = stranded]

\* revoke_vesting marks the lock first.  The release fails while the kernel is
\* paused or too little is locked, the transfer when the tokens were burnt or
\* moved away while locked; neither undoes what came before it.
RevokeVesting(i, to) ==
    LET l        == locks[i]
        k        == find_beneficiary_key(l.beneficiary)
        x        == Returnable(l, epoch)
        releases == ~ paused /\ locked[k] >= x
        returns  == releases /\ Monus(balance_of(k), locked[k] - x) >= x
    IN  /\ l.revocable /\ l.revoked = None
        /\ locks' = [locks EXCEPT ![i] = Revoked(@, epoch, IF releases THEN 0 ELSE x)]
        /\ locked' = IF releases THEN [locked EXCEPT ![k] = @ - x] ELSE locked
        /\ balance' = IF returns /\ x > 0 THEN Moved(k, to, x) ELSE balance
        /\ total_locked' = total_released(x, returns)
        /\ UNCHANGED <<epoch, paused, supply, auth, consumed, claimed, distributed, direct, tracked>>

\* register_mint_authorization and register_burn_authorization.  authorized_at is
\* the epoch the proposal passed; a proposal that is not consumed may be
\* registered anew.
Register(kind, p, h, x, authorized_at, after) ==
    /\ p \notin consumed
    /\ after >= authorized_at + MintDelay
    /\ auth' = [auth EXCEPT ![kind][p] =
                   [holder |-> h, amount |-> x, after |-> after, consumed |-> FALSE]]
    /\ UNCHANGED <<epoch, paused, balance, locked, supply, locks, total_locked, consumed,
                   claimed, distributed, direct, tracked>>

\* Fault: an executed proposal may be executed again.
consume_nothing(p) == consumed

Consume(p) == consumed \cup {p}

\* execute_authorized_mint and execute_authorized_burn: on the holder's id key.
ExecuteAuthorized(kind, p) ==
    LET a == auth[kind][p]
        k == IdKey(a.holder)
    IN  /\ ~ paused /\ p \notin consumed
        /\ a # None /\ ~ a.consumed /\ epoch >= a.after
        /\ \/ /\ kind = "mint" /\ CanMint(a.amount)
              /\ balance' = Credited(k, a.amount)
              /\ supply' = supply + a.amount
           \/ /\ kind = "burn" /\ balance_of(k) >= a.amount
              /\ balance' = Debited(k, a.amount)
              /\ supply' = Burnt(a.amount)
        /\ consumed' = Consume(p)
        /\ auth' = [auth EXCEPT ![kind][p].consumed = TRUE]
        /\ UNCHANGED <<epoch, paused, locked, locks, total_locked, claimed, distributed, direct, tracked>>

\* Fault: the pool has no limit.
distribute_without_cap(x) == TRUE

\* check_pool_capacity.
check_pool_capacity(x) == distributed[epoch] + x <= PoolCap

\* validate_claim, for a citizen of the registry that is not revoked.
validate_claim(c, x) ==
    /\ epoch >= CitizenSince[c]
    /\ <<c, epoch>> \notin claimed
    /\ check_pool_capacity(x)

\* process_ubi_claims_with_minting, one claim; a batch is a run of these steps.
\* The claim is marked before the mint, which may fail at the supply limit, and
\* the pause is not looked at.
ClaimUbi(c, x) ==
    /\ validate_claim(c, x)
    /\ claimed' = claimed \cup {<<c, epoch>>}
    /\ IF CanMint(x)
       THEN /\ balance' = Credited(IdKey(c), x)
            /\ supply' = supply + x
            /\ distributed' = [distributed EXCEPT ![epoch] = @ + x]
       ELSE UNCHANGED <<balance, supply, distributed>>
    /\ UNCHANGED <<epoch, paused, locked, locks, total_locked, auth, consumed, direct, tracked>>

\* process_ubi_claims: without a token contract the claim uses up the citizen's
\* turn and the pool, and mints nothing.
TrackUbi(c, x) ==
    /\ validate_claim(c, x)
    /\ claimed' = claimed \cup {<<c, epoch>>}
    /\ distributed' = [distributed EXCEPT ![epoch] = @ + x]
    /\ tracked' = tracked + x
    /\ UNCHANGED <<epoch, paused, balance, locked, supply, locks, total_locked, auth,
                   consumed, direct>>

Next ==
    \/ Tick
    \/ \E b \in BOOLEAN : SetPaused(b)
    \/ \E k \in Keys, x \in Amounts : Mint(k, x) \/ Burn(k, x)
    \/ \E from, to \in Keys, x \in Amounts : Transfer(from, to, x) \/ UserTransfer(from, to, x)
    \/ \E k \in Keys, s \in Schedules, r \in BOOLEAN : CreateVesting(k, s, r)
    \/ \E i \in DOMAIN locks : ReleaseVested(i)
    \/ \E i \in DOMAIN locks, to \in Keys : RevokeVesting(i, to)
    \/ \E kind \in Kinds, p \in Proposals, h \in Holders, x \in Amounts, after \in Epochs :
           \E at \in 0..epoch : Register(kind, p, h, x, at, after)
    \/ \E kind \in Kinds, p \in Proposals : ExecuteAuthorized(kind, p)
    \/ \E c \in Citizens, x \in Amounts : ClaimUbi(c, x) \/ TrackUbi(c, x)

Spec == Init /\ [][Next]_vars

(***************************************************************************)
(* Properties                                                              *)
(***************************************************************************)

\* The supply counter is the sum of all balances, whatever mints, burns,
\* transfers, revocations and claims have happened.
SupplyIsSum == supply = SumOver(balance, DOMAIN balance)

Executed(kind) ==
    SumOver([p \in Proposals |-> IF auth[kind][p] # None /\ auth[kind][p].consumed
                                 THEN auth[kind][p].amount ELSE 0],
            Proposals)

\* Every token in existence is accounted for once: the initial supply, signed
\* mints and burns, each executed authorization at its registered amount, and the
\* UBI that total_distributed records, less what process_ubi_claims recorded
\* without minting it.
SupplyExplained ==
    supply = InitialBalance * Cardinality(InitialKeys) + direct
             + Executed("mint") - Executed("burn")
             + SumOver(distributed, Epochs) - tracked

\* No lock releases more than its schedule makes releasable by now, or by the
\* epoch of its revocation.
ReleasedWithinVested ==
    \A i \in DOMAIN locks :
        locks[i].released <= releasable_amount(locks[i].schedule, effective_epoch(locks[i], epoch))

Owed(l) ==
    l.stranded - l.released
        + IF l.revoked = None THEN l.schedule.total ELSE vested_amount(l.schedule, l.revoked)

\* What a holder's keys have locked is what the holder's vesting locks still hold:
\* the part not released, less the part that went back at a revocation.
LockedIsOwed ==
    \A h \in Holders :
        SumOver(locked, KeysOf(h))
            = SumOver([i \in DOMAIN locks |-> Owed(locks[i])],
                      {i \in DOMAIN locks : locks[i].beneficiary = h})

\* As long as a holder's tokens are under one key, enough is locked under it for
\* every release that is due: no other lock, revocation or burn has used it up.
DueIsReleasable ==
    \A i \in DOMAIN locks :
        LET h == locks[i].beneficiary
        IN  Cardinality(KeysOf(h) \cap DOMAIN balance) = 1
            => locked[find_beneficiary_key(h)] >= available_to_release(locks[i], epoch)

\* The UBI pool of an epoch is never exceeded, and no more is paid from it than
\* one claim for each citizen that claimed in the epoch.
UbiWithinPool ==
    \A e \in Epochs :
        /\ distributed[e] <= PoolCap
        /\ distributed[e] <= MaxAmount * Cardinality({c \in Citizens : <<c, e>> \in claimed})

\* What a beneficiary has received or may receive of a lock never shrinks, and
\* does not grow any more once the lock is revoked.
EntitlementKept ==
    [][\A i \in DOMAIN locks :
         /\ Entitled(locks'[i], epoch') >= Entitled(locks[i], epoch)
         /\ locks[i].revoked # None => Entitled(locks'[i], epoch') = Entitled(locks[i], epoch)]_vars
=============================================================================
