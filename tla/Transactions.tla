---------------------------- MODULE Transactions ----------------------------
(***************************************************************************)
(* What including a transaction does to the data storage.                  *)
(*                                                                         *)
(* Def gives the transactions.  A simple one updates fee liquidities       *)
(* ("liquidity") or settles a conditional payment ("resolution").  A       *)
(* zether one ("zether") is a sequence of payloads.  Each payload has a    *)
(* ring of keys, every other one a possible sender, and hides in           *)
(* ciphertexts what it changes each balance by: here the numbers, changes. *)
(* Its proof shows that the changes add up to minus fee and burnt value,   *)
(* that receivers do not lose and that the sender can pay from the         *)
(* balances the payload was built on; these are the balances found in      *)
(* view, the state the maker of the transaction saw.                       *)
(* Signatures and the anchor in the chain (ChainKernelHash) are taken as   *)
(* right, sizes of changes (SpaceExtra) as paid for.                       *)
(***************************************************************************)
EXTENDS DataStorage

CONSTANTS
    Def,            \* the transactions: a record for each member of Txs
    PendingWindow,  \* GetPendingStakeWindow
    MinDeadline,    \* the shortest deadline of a conditional payment (10 in the code)
    MinStakingRing, \* the smallest ring of a staking payload (64 in the code)
    RequiredStake   \* GetRequiredStake

ASSUME WindowAssumption == PendingWindow \in Nat \ {0} /\ MinDeadline \in Nat \ {0}

Pow10(n) == <<1, 10, 100>>[n + 1]

IsSender(p, i) == ((i - 1) % 2 = 0) = p.parity
Stakes(p) == p.script \in {"staking", "reward"}

\* The fee of a payload in native units.
PayloadFee(p) == IF p.asset = Native THEN p.fee ELSE (p.fee * p.rate) \div Pow10(p.zeros)

ComputeFee(tx) ==
    CASE tx.kind = "liquidity" -> tx.fee
      [] tx.kind = "resolution" -> 0
      [] tx.kind = "zether" -> FoldLeft(LAMBDA s, p : s + PayloadFee(p), 0, tx.payloads)

-----------------------------------------------------------------------------
(* Validation *)

\* The payloads of each script that are well formed, whatever the state of the chain.
ValidStaking(p) ==
    /\ p.asset = Native /\ p.burn > 0 /\ p.fee = 0
    /\ \A i \in DOMAIN p.register : p.register[i] = None
    /\ Len(p.ring) >= MinStakingRing
ValidStakingReward(p) ==
    /\ p.asset = Native /\ p.burn = 0 /\ p.fee = 0 /\ p.reward > 0
    /\ p.temp \in DOMAIN p.register
    /\ Len(p.ring) >= MinStakingRing
    /\ \A i \in DOMAIN p.register : IsSender(p, i) /\ i # p.temp => p.register[i] = None
ValidSpend(p) == p.asset = Native
ValidAssetCreate(p) == p.asset = Native /\ p.created.supply = 0
ValidSupplyIncrease(p) == p.asset = Native /\ p.value > 0
ValidPlainAccountFund(p) == p.asset = Native /\ p.burn > 0
ValidConditionalPayment(p) ==
    /\ p.deadline >= MinDeadline
    /\ p.burn = 0 /\ p.fee = 0
    /\ p.threshold > 0 /\ p.threshold <= Cardinality(p.multisig)

ValidExtra(p) ==
    CASE p.script = "transfer" -> TRUE
      [] p.script = "staking" -> ValidStaking(p)
      [] p.script = "reward" -> ValidStakingReward(p)
      [] p.script = "spend" -> ValidSpend(p)
      [] p.script = "assetCreate" -> ValidAssetCreate(p)
      [] p.script = "supplyIncrease" -> ValidSupplyIncrease(p)
      [] p.script = "fund" -> ValidPlainAccountFund(p)
      [] p.script = "conditional" -> ValidConditionalPayment(p)

ValidPayload(p) ==
    /\ p.asset = Native => p.rate = 0 /\ p.zeros = 0
    /\ Len(p.ring) >= 2
    /\ IsInjective(p.ring)
    /\ ValidExtra(p)

\* The balance of a ring member that the statement of the payload was made for.
Claimed(view, p, i) ==
    IF p.script = "reward" THEN p.reward
    ELSE IF view.accs[p.asset][p.ring[i]] = None THEN 0 ELSE view.accs[p.asset][p.ring[i]]

\* Proof.Verify: nothing appears or disappears but the fee and the burnt value, receivers
\* do not lose, senders can pay.
ProofHolds(view, p) ==
    /\ FoldLeft(LAMBDA s, c : s + c, 0, p.changes) = -(p.fee + p.burn)
    /\ \A i \in DOMAIN p.ring :
          IF IsSender(p, i)
          THEN p.changes[i] <= 0 /\ (p.changes[i] < 0 => Claimed(view, p, i) + p.changes[i] >= 0)
          ELSE p.changes[i] >= 0

-----------------------------------------------------------------------------
(* Including a payload *)

\* The best provider of fee liquidity pays the native fee from its unclaimed funds, its
\* collector gets the fee in the asset.
ProcessAssetFee(d, p) ==
    LET key == TopLiquidity(d, p.asset)
        Collector(paid) == paid.plain[key].collector
    IN  IF key = None THEN Refused
        ELSE IF d.plain[key] = None \/ d.plain[key].rates[p.asset] < p.rate THEN Refused
        ELSE Then(SubtractUnclaimed(d, key, PayloadFee(p)), LAMBDA paid :
                 IF Collector(paid) = None THEN Refused
                 ELSE Then(GetOrCreateAccount(paid, p.asset, Collector(paid)), LAMBDA x :
                          AddBalance(x, p.asset, Collector(paid), p.fee)))

PayFee(d, p) == IF p.asset = Native THEN d ELSE ProcessAssetFee(d, p)

\* New keys of the ring are registered, then every key gets its account.
RegisterNow(d, p) ==
    LET Register(e, i) ==
            Then(e, LAMBDA x : IF p.register[i] = None THEN x
                               ELSE CreateRegistration(x, p.ring[i], p.register[i].staked,
                                                       p.register[i].spend))
        Open(e, i) ==
            Then(e, LAMBDA x : IF p.register[i] # None /\ p.register[i].new
                               THEN CreateAccount(x, p.asset, p.ring[i])
                               ELSE GetOrCreateAccount(x, p.asset, p.ring[i]))
        all == [i \in DOMAIN p.ring |-> i]
    IN  FoldLeft(Open, FoldLeft(Register, d, all), all)

\* The reward appears on the forger's temporary account, which must be new.
BeforeIncludeTxPayload(d, p) ==
    IF p.script # "reward" THEN d
    ELSE IF p.register[p.temp] = None \/ ~p.register[p.temp].new THEN Refused
    ELSE AddBalance(d, Native, p.ring[p.temp], p.reward)

\* The checks on a sender of the ring.
SenderAllowed(d, view, p, i) ==
    LET key == p.ring[i]
    IN  /\ p.script = "staking" => d.regs[key].staked
        /\ (p.script = "reward" => i = p.temp) => d.accs[p.asset][key] = Claimed(view, p, i)
        /\ ~Stakes(p) /\ d.regs[key].spend # None =>
              p.script = "spend" /\ p.spendKey = d.regs[key].spend

\* One member of the ring.  Staking changes no balance, a reward no sender's; what a staked
\* key receives is a pending stake; a conditional payment is kept for later.
IncludeMember(d, view, p, i, h) ==
    LET key == p.ring[i]
        native == p.asset = Native
    IN  IF \/ d.accs[p.asset][key] = None \/ d.regs[key] = None
           \/ IsSender(p, i) /\ ~SenderAllowed(d, view, p, i) THEN Refused
        ELSE IF p.script = "staking" THEN d
        ELSE IF IsSender(p, i)
             THEN IF p.script = "reward" THEN d ELSE AddBalance(d, p.asset, key, p.changes[i])
        ELSE IF p.script = "conditional" THEN d
        ELSE IF native /\ (d.regs[key].staked \/ p.script = "reward")
             THEN AddPendingStake(d, key, p.changes[i], h + PendingWindow)
        ELSE AddBalance(d, p.asset, key, p.changes[i])

IncludeRing(d, view, p, h) ==
    FoldLeft(LAMBDA e, i : Then(e, LAMBDA x : IncludeMember(x, view, p, i, h)),
             d, [i \in DOMAIN p.ring |-> i])

\* The parts of a conditional payment: the senders' or the receivers' keys and changes.
Parts(p, sender) ==
    LET positions == SelectSeq([i \in DOMAIN p.ring |-> i], LAMBDA i : IsSender(p, i) = sender)
    IN  [j \in DOMAIN positions |->
            [key |-> p.ring[positions[j]], amount |-> p.changes[positions[j]]]]

KeepPayment(d, t, p, h) ==
    IF p.script # "conditional" THEN d
    ELSE AddConditionalPayment(d, h + p.deadline, t,
             [asset |-> p.asset, default |-> p.default, processed |-> FALSE,
              senders |-> Parts(p, TRUE), receivers |-> Parts(p, FALSE),
              threshold |-> p.threshold, multisig |-> p.multisig])

\* Mutant: the last account of the ring goes away, instead of the temporary one.
AfterIncludeTxPayloadLast(d, p) ==
    IF p.script # "reward" THEN d
    ELSE [d EXCEPT !.accs[Native][Last(p.ring)] = None, !.regs[Last(p.ring)] = None]

\* What each script does after the ring.
AssetCreate(d, p) == IF d.asts[p.id] # None THEN Refused ELSE [d EXCEPT !.asts[p.id] = p.created]

AssetSupplyIncrease(d, p) ==
    LET ast == d.asts[p.id]
        opened == GetOrCreateAccount(d, p.id, p.receiver)
        minted == AddSupply(ast, p.value)
    IN  IF \/ ast = None
           \/ ast.supplyKey # p.supplyKey \/ ast.supplyKey = None
           \/ opened = Refused
           \/ minted = Refused THEN Refused
        ELSE [AddBalance(opened, p.id, p.receiver, p.value) EXCEPT !.asts[p.id] = minted]

PlainAccountFund(d, p) ==
    Then(GetOrCreatePlainAccount(d, p.plain),
         LAMBDA x : [x EXCEPT !.plain[p.plain].unclaimed = @ + p.burn])

OpenAccounts(d, p) ==
    FoldLeft(LAMBDA e, k : Then(e, LAMBDA x : GetOrCreateAccount(x, p.asset, k)), d, p.ring)

DropTemporary(d, p) ==
    [d EXCEPT !.accs[Native][p.ring[p.temp]] = None, !.regs[p.ring[p.temp]] = None]

AfterIncludeTxPayload(d, p) ==
    CASE p.script = "assetCreate" -> AssetCreate(d, p)
      [] p.script = "supplyIncrease" -> AssetSupplyIncrease(d, p)
      [] p.script = "fund" -> PlainAccountFund(d, p)
      [] p.script = "conditional" -> OpenAccounts(d, p)
      [] p.script = "reward" -> DropTemporary(d, p)
      [] OTHER -> d

IncludePayload(d, view, t, p, h) ==
    Then(PayFee(d, p),                         LAMBDA paid :
    Then(RegisterNow(paid, p),                 LAMBDA registered :
    Then(BeforeIncludeTxPayload(registered, p), LAMBDA before :
    Then(IncludeRing(before, view, p, h),      LAMBDA changed :
    Then(KeepPayment(changed, t, p, h),        LAMBDA kept : AfterIncludeTxPayload(kept, p))))))

-----------------------------------------------------------------------------
(* Including a transaction *)

IncludeZether(d, view, t, tx, h) ==
    IF \E n \in DOMAIN tx.payloads :
          ~ValidPayload(tx.payloads[n]) \/ ~ProofHolds(view, tx.payloads[n]) THEN Refused
    ELSE FoldLeft(LAMBDA e, p : Then(e, LAMBDA x : IncludePayload(x, view, t, p, h)),
                  d, tx.payloads)

\* The provider pays the fee, may name a new collector, and changes its rates.
UpdateAssetFeeLiquidity(d, tx) ==
    LET acc == d.plain[tx.key]
        PayOwnFee == SubtractUnclaimed([d EXCEPT !.plain[tx.key].nonce = @ + 1], tx.key, tx.fee)
        Name(x) == IF tx.collector = None THEN x
                   ELSE [x EXCEPT !.plain[tx.key].collector = tx.collector]
        Change(e, u) == Then(e, LAMBDA x : UpdateLiquidity(x, tx.key, u.asset, u.rate))
        Close(x) == IF ~HasLiquidities(x.plain[tx.key])
                    THEN [x EXCEPT !.plain[tx.key].collector = None]
                    ELSE IF x.plain[tx.key].collector = None THEN Refused ELSE x
    IN  IF acc = None THEN Refused
        ELSE IF acc.nonce # tx.nonce THEN Refused
        ELSE Then(PayOwnFee, LAMBDA paid :
                 IF \/ paid.plain[tx.key].unclaimed < RequiredFee
                    \/ tx.collector # None /\ d.regs[tx.collector] = None THEN Refused
                 ELSE Then(FoldLeft(Change, Name(paid), tx.updates), Close))

\* Mutant: a settled payment is not marked.
ResolveConditionalPaymentTwice(d, tx, h) ==
    LET height == d.due[tx.payment]
    IN  IF height = None THEN Refused
        ELSE IF height < h + 1 THEN Refused
        ELSE ProceedConditionalPayment(d, tx.resolution, d.payments[height][tx.payment])

\* Enough of the keys named by the payment settle it before its height.
ResolveConditionalPayment(d, tx, h) ==
    LET height == d.due[tx.payment]
        p == d.payments[height][tx.payment]
        settled == ProceedConditionalPayment(d, tx.resolution, p)
    IN  IF height = None THEN Refused
        ELSE IF height < h + 1 \/ p = None THEN Refused
        ELSE IF p.processed THEN Refused
        ELSE IF p.threshold > Cardinality(tx.signers) \/ ~(tx.signers \subseteq p.multisig) THEN Refused
        ELSE Then(settled, LAMBDA x : [x EXCEPT !.payments[height][tx.payment] = Processed])

IncludeTransaction(d, view, t, tx, h) ==
    CASE tx.kind = "zether" -> IncludeZether(d, view, t, tx, h)
      [] tx.kind = "liquidity" -> UpdateAssetFeeLiquidity(d, tx)
      [] tx.kind = "resolution" -> ResolveConditionalPayment(d, tx, h)

-----------------------------------------------------------------------------
(* Including a block *)

IsStakingReward(tx) ==
    /\ tx.kind = "zether"
    /\ Len(tx.payloads) = 2
    /\ tx.payloads[1].script = "staking"
    /\ tx.payloads[2].script = "reward"

\* A block ends with its only staking transaction, which pays the forger no more than the
\* block's reward and fees.
RewardAllowed(txs, last, blockReward) ==
    /\ IsStakingReward(last)
    /\ \A i \in DOMAIN txs : txs[i].kind = "zether" =>
          \A n \in DOMAIN txs[i].payloads : ~Stakes(txs[i].payloads[n])
    /\ last.payloads[1].burn >= RequiredStake
    /\ last.payloads[2].reward <=
          blockReward + FoldLeft(LAMBDA s, tx : s + ComputeFee(tx), 0, txs)

IncludeTransactions(d, names, h, blockReward) ==
    FoldLeft(LAMBDA e, t : Then(e, LAMBDA x : IncludeTransaction(x, d, t, Def[t], h)),
             AddNativeSupply(d, blockReward), names)

\* The transactions names, then the staking transaction, which was made for the state after
\* them; the stakes and the payments of this height; the commit.
IncludeBlock(d, names, last, h, blockReward) ==
    IF ~RewardAllowed([i \in DOMAIN names |-> Def[names[i]]], last, blockReward) THEN Refused
    ELSE Then(IncludeTransactions(d, names, h, blockReward), LAMBDA included :
         Then(IncludeZether(included, included, None, last, h), LAMBDA rewarded :
         Then(ProcessPendingStakes(rewarded, h), LAMBDA staked :
         Then(ProcessConditionalPayments(staked, h), LAMBDA settled : CommitChanges(d, settled)))))
=============================================================================
