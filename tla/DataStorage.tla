---------------------------- MODULE DataStorage ----------------------------
(***************************************************************************)
(* The state of the chain and its elementary changes.                      *)
(*                                                                         *)
(* A data storage is a record of the seven maps of the code, each a        *)
(* function in which None stands for an absent entry:                      *)
(*   regs      registrations: is the key staked, its spend key             *)
(*   plain     plain accounts: nonce, unclaimed funds, fee liquidities     *)
(*   accs      per asset, the balances of the accounts                     *)
(*   pending   per height, the stakes that become balances                 *)
(*   payments  per height, the conditional payments due then               *)
(*   asts      the assets                                                  *)
(*   heaps     per asset, the ranking of its liquidity providers           *)
(* and of the keys that only exist in the store, written when the maps     *)
(* are committed: listed (accounts:assetByIndex), due                      *)
(* (conditionalPayments:all) and tickers (assets:tickers:used).            *)
(*                                                                         *)
(* A balance is an ElGamal ciphertext in the code; here it is the number   *)
(* it hides.  Adding a change to a ciphertext adds the numbers.            *)
(* An operation that returns an error gives Refused.                       *)
(***************************************************************************)
EXTENDS Heap, FiniteSetsExt

CONSTANTS
    Keys,          \* public keys
    Assets,        \* assets other than the native one
    Native,        \* NATIVE_ASSET_FULL
    Txs,           \* names of transactions
    Heights,       \* heights of blocks, 0..n
    RequiredFee,   \* GetRequiredAssetFee
    Identification,\* the identification of each asset
    None,          \* nil
    Refused        \* an error

AllAssets == Assets \cup {Native}

ASSUME NativeAssumption == Native \notin Assets
ASSUME IdentificationAssumption == DOMAIN Identification = AllAssets
ASSUME FeeAssumption == RequiredFee \in Nat

\* The next step of an operation, unless the ones before failed.
Then(d, Op(_)) == IF d = Refused THEN Refused ELSE Op(d)

EmptyStorage ==
    [regs     |-> [k \in Keys |-> None],
     plain    |-> [k \in Keys |-> None],
     accs     |-> [a \in AllAssets |-> [k \in Keys |-> None]],
     pending  |-> [h \in Heights |-> <<>>],
     payments |-> [h \in Heights |-> [t \in Txs |-> None]],
     asts     |-> [a \in AllAssets |-> None],
     heaps    |-> [a \in Assets |-> EmptyHeap(Keys)],
     listed   |-> [k \in Keys |-> <<>>],
     due      |-> [t \in Txs |-> None],
     tickers  |-> {}]

-----------------------------------------------------------------------------
(* Accounts and registrations *)

\* A new account is empty, and only a registered key has one.
CreateAccount(d, asset, key) ==
    IF d.regs[key] = None \/ d.accs[asset][key] # None THEN Refused
    ELSE [d EXCEPT !.accs[asset][key] = 0]

GetOrCreateAccount(d, asset, key) ==
    IF d.regs[key] = None THEN Refused
    ELSE IF d.accs[asset][key] # None THEN d
    ELSE [d EXCEPT !.accs[asset][key] = 0]

AddBalance(d, asset, key, amount) == [d EXCEPT !.accs[asset][key] = @ + amount]

NewPlainAccount ==
    [nonce |-> 0, unclaimed |-> 0, rates |-> [a \in Assets |-> 0], collector |-> None]

GetOrCreatePlainAccount(d, key) ==
    IF d.plain[key] # None THEN d
    ELSE IF d.regs[key] # None THEN Refused
    ELSE [d EXCEPT !.plain[key] = NewPlainAccount]

CreateRegistration(d, key, staked, spend) ==
    IF d.plain[key] # None \/ d.regs[key] # None THEN Refused
    ELSE [d EXCEPT !.regs[key] = [staked |-> staked, spend |-> spend]]

-----------------------------------------------------------------------------
(* Pending stakes *)

AddPendingStake(d, key, amount, height) ==
    IF d.regs[key] = None \/ ~d.regs[key].staked THEN Refused
    ELSE [d EXCEPT !.pending[height] = Append(@, [key |-> key, amount |-> amount])]

\* The stakes of a height become balances; a key without account is an error.
ProcessPendingStakes(d, height) ==
    LET Pay(e, p) ==
            Then(e, LAMBDA x : IF x.accs[Native][p.key] = None THEN Refused
                               ELSE AddBalance(x, Native, p.key, p.amount))
        paid == FoldLeft(Pay, d, d.pending[height])
    IN  Then(paid, LAMBDA x : [x EXCEPT !.pending[height] = <<>>])

-----------------------------------------------------------------------------
(* Conditional payments *)

\* senders and receivers: sequences of [key, amount], of equal length; a sender's amount
\* is what the payment took from it (not positive).
AddConditionalPayment(d, height, tx, payment) ==
    LET all == payment.senders \o payment.receivers
    IN  IF \/ \E i \in DOMAIN all : d.regs[all[i].key] = None \/ d.regs[all[i].key].staked
           \/ d.payments[height][tx] # None
        THEN Refused
        ELSE [d EXCEPT !.payments[height][tx] = payment]

\* The receivers get their amounts, or the senders get theirs back.
ProceedConditionalPayment(d, resolution, payment) ==
    LET parts == IF resolution THEN payment.receivers ELSE payment.senders
        sign == IF resolution THEN 1 ELSE -1
        Pay(e, p) ==
            LET known == IF e.accs[payment.asset][p.key] # None THEN e
                         ELSE [e EXCEPT !.accs[payment.asset][p.key] = 0]
            IN  AddBalance(known, payment.asset, p.key, sign * p.amount)
    IN  IF payment.processed THEN Refused ELSE FoldLeft(Pay, d, parts)

\* What is stored of a payment once it is processed: Serialize drops everything else, and
\* Validate then finds no threshold.
Processed == [processed |-> TRUE, threshold |-> 0]

\* At its height every payment still open is settled by default, and all are deleted.
ProcessConditionalPayments(d, height) ==
    LET Settle(t, e) ==
            LET p == d.payments[height][t]
            IN  IF p = None \/ p.processed THEN e
                ELSE ProceedConditionalPayment(e, p.default, p)
        settled == FoldSet(Settle, d, Txs)
    IN  [settled EXCEPT !.payments[height] = [t \in Txs |-> None]]

-----------------------------------------------------------------------------
(* Assets and fee liquidity *)

AddSupply(ast, amount) ==
    IF ~ast.canMint \/ ast.max - ast.supply < amount THEN Refused
    ELSE [ast EXCEPT !.supply = @ + amount]

AddNativeSupply(d, amount) ==
    LET ast == d.asts[Native]
    IN  IF ast.max - ast.supply < amount THEN Refused
        ELSE [d EXCEPT !.asts[Native].supply = @ + amount]

HasLiquidities(acc) == \E a \in Assets : acc.rates[a] # 0

\* Funds leave a plain account.  Below the required amount it is no provider any more:
\* it is taken out of every ranking and its liquidities are cleared.
SubtractUnclaimed(d, key, amount) ==
    LET acc == d.plain[key]
        left == [acc EXCEPT !.unclaimed = @ - amount]
        cleared == [left EXCEPT !.rates = [a \in Assets |-> 0], !.collector = None]
    IN  IF acc.unclaimed < amount THEN Refused
        ELSE IF HasLiquidities(acc) /\ left.unclaimed < RequiredFee
             THEN [d EXCEPT !.plain[key] = cleared,
                            !.heaps = [a \in Assets |-> IF acc.rates[a] = 0 THEN @[a]
                                                        ELSE DeleteByKey(@[a], key)]]
        ELSE [d EXCEPT !.plain[key] = left]

\* A provider sets its rate for an asset; rate 0 withdraws.  Withdrawing what is not
\* provided is an error, and withdrawing the last clears the collector.
UpdateLiquidity(d, key, asset, rate) ==
    LET acc == d.plain[key]
        old == acc.rates[asset]
        new == [acc EXCEPT !.rates[asset] = rate]
        heap == IF old = 0 THEN d.heaps[asset] ELSE DeleteByKey(d.heaps[asset], key)
    IN  IF rate = 0 /\ old = 0 THEN Refused
        ELSE [d EXCEPT !.plain[key] = IF HasLiquidities(new) THEN new
                                      ELSE [new EXCEPT !.collector = None],
                       !.heaps[asset] = IF rate = 0 THEN heap ELSE Insert(heap, key, rate)]

\* GetTopLiquidity
TopLiquidity(d, asset) ==
    IF d.heaps[asset].array = <<>> THEN None ELSE GetTop(d.heaps[asset]).key

-----------------------------------------------------------------------------
(* Commit and undo *)

AccountsOf(d, key) == {a \in AllAssets : d.accs[a][key] # None}
PaymentsOf(d) == {t \in Txs : \E h \in Heights : d.payments[h][t] # None}
DueAt(d, t) == CHOOSE h \in Heights : d.payments[h][t] # None

\* Mutant: a deleted account cuts the first entry of the list.
EventsFirst(old, d) ==
    LET Listed(k) ==
            LET gone == Cardinality(AccountsOf(old, k) \ AccountsOf(d, k))
            IN  SubSeq(old.listed[k], gone + 1, Len(old.listed[k]))
                    \o SetToSeq(AccountsOf(d, k) \ AccountsOf(old, k))
    IN  [d EXCEPT
           !.listed = [k \in Keys |-> Listed(k)],
           !.due = [t \in Txs |-> IF t \in PaymentsOf(d) THEN DueAt(d, t) ELSE None],
           !.tickers = {Identification[a] : a \in {b \in AllAssets : d.asts[b] # None}}]

\* The keys that StoredEvent and DeletedEvent of the maps write when the maps of d are
\* committed over those of old.  A new account appends its asset to the list of its key,
\* a deleted one cuts the last entry of that list.
Events(old, d) ==
    LET Listed(k) ==
            LET gone == Cardinality(AccountsOf(old, k) \ AccountsOf(d, k))
                kept == SubSeq(old.listed[k], 1, Len(old.listed[k]) - gone)
            IN  kept \o SetToSeq(AccountsOf(d, k) \ AccountsOf(old, k))
    IN  [d EXCEPT
           !.listed = [k \in Keys |-> Listed(k)],
           !.due = [t \in Txs |-> IF t \in PaymentsOf(d) THEN DueAt(d, t) ELSE None],
           !.tickers = {Identification[a] : a \in {b \in AllAssets : d.asts[b] # None}}]

\* The new assets' identifications must be free.
TickersFree(old, d) ==
    LET new == {a \in AllAssets : d.asts[a] # None /\ old.asts[a] = None}
    IN  /\ \A a \in new : Identification[a] \notin old.tickers
        /\ \A a, b \in new : Identification[a] = Identification[b] => a = b

CommitChanges(old, d) == IF TickersFree(old, d) THEN Events(old, d) ELSE Refused

\* ReadTransitionalChangesFromStore writes the recorded entries back with Update, which
\* validates them: a processed payment is not valid.  The maps then are as they were; the
\* store keys follow by their events.
Restorable(d, old) ==
    \A h \in Heights, t \in Txs :
        LET p == old.payments[h][t]
        IN  p # d.payments[h][t] /\ p # None => p.threshold > 0

\* Mutant: the rankings are not taken back.
RestoredUnranked(d, old) ==
    Events(d, [old EXCEPT !.heaps = d.heaps, !.listed = d.listed, !.due = d.due, !.tickers = d.tickers])

Restored(d, old) ==
    Events(d, [old EXCEPT !.listed = d.listed, !.due = d.due, !.tickers = d.tickers])
=============================================================================
