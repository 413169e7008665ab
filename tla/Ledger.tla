------------------------------- MODULE Ledger -------------------------------
(***************************************************************************)
(* The chain as its data storage sees it: blocks of transactions are       *)
(* included at the tip, and taken back one by one when a fork wins.        *)
(*   d      the data storage after the blocks on the chain                 *)
(*   chain  the names of the transactions of each block                    *)
(*   past   what each block found, and what was lost before it             *)
(*   lost   history: per asset, what was burnt for nobody, and for the     *)
(*          native one the part of the rewards the forgers did not take    *)
(***************************************************************************)
EXTENDS Transactions

CONSTANTS
    Start,          \* the data storage of the chain at first
    Forger,         \* the staked key that forges
    Temp,           \* the temporary key its rewards pass through
    Decoy,          \* another registered key, for the rings
    Amounts,        \* the stakes it may show and the rewards it may claim
    BlockReward,    \* GetRewardAt, the same at every height
    MaxBlocks,      \* bound: blocks on the chain
    MaxTxs          \* bound: transactions of a block besides the staking one

VARIABLES d, chain, past, lost

vars == <<d, chain, past, lost>>

Height == Len(chain)
OnChain == UNION {ToSet(chain[i]) : i \in DOMAIN chain}

Init ==
    /\ d = Start
    /\ chain = <<>>
    /\ past = <<>>
    /\ lost = [a \in AllAssets |-> 0]

\* The staking transaction of the forger: it shows a stake and moves the reward from a
\* temporary account, registered for the occasion, to its own.
StakingTx(stake, reward) ==
    LET payload ==
            [asset |-> Native, rate |-> 0, zeros |-> 0, fee |-> 0, parity |-> TRUE]
        staking ==
            [script |-> "staking", ring |-> <<Forger, Decoy>>, changes |-> <<-stake, 0>>,
             burn |-> stake, register |-> <<None, None>>]
        rewarding ==
            [script |-> "reward", ring |-> <<Temp, Forger>>, changes |-> <<-reward, reward>>,
             burn |-> 0, reward |-> reward, temp |-> 1,
             register |-> <<[new |-> TRUE, staked |-> FALSE, spend |-> None], None>>]
    IN  [kind |-> "zether", payloads |-> <<staking @@ payload, rewarding @@ payload>>]

\* What the payloads of a transaction burn without paying anybody.
Burnt(tx, a) ==
    IF tx.kind # "zether" THEN 0
    ELSE FoldLeft(LAMBDA s, p : IF p.asset = a /\ p.script # "fund" THEN s + p.burn ELSE s,
                  0, tx.payloads)

LostBy(names, reward, a) ==
    LET txs == [i \in DOMAIN names |-> Def[names[i]]]
        burnt == FoldLeft(LAMBDA s, tx : s + Burnt(tx, a), 0, txs)
        fees == FoldLeft(LAMBDA s, tx : s + ComputeFee(tx), 0, txs)
    IN  burnt + IF a = Native THEN BlockReward + fees - reward ELSE 0

\* A block that passes every check is included (the blocks of Start are counted as one).
AddBlock(names, stake, reward) ==
    /\ Height < MaxBlocks
    /\ ToSet(names) \cap OnChain = {}
    /\ LET new == IncludeBlock(d, names, StakingTx(stake, reward), Height + 1, BlockReward)
       IN  /\ new # Refused
           /\ d' = new
    /\ chain' = Append(chain, names)
    /\ past' = Append(past, [d |-> d, lost |-> lost])
    /\ lost' = [a \in AllAssets |-> lost[a] + LostBy(names, reward, a)]

\* The last block is taken back.
RemoveBlock ==
    /\ chain # <<>>
    /\ Restorable(d, Last(past).d)
    /\ d' = Restored(d, Last(past).d)
    /\ lost' = Last(past).lost
    /\ chain' = Front(chain)
    /\ past' = Front(past)

Blocks == UNION {{s \in [1..n -> Txs] : IsInjective(s)} : n \in 0..MaxTxs}

Next ==
    \/ \E names \in Blocks, stake, reward \in Amounts : AddBlock(names, stake, reward)
    \/ RemoveBlock

Spec == Init /\ [][Next]_vars

-----------------------------------------------------------------------------
(* Properties *)

\* Balances are never negative and exist only for registered keys; what is pending or
\* locked is due at a height the chain has not reached.
TypeOK ==
    /\ \A a \in AllAssets, k \in Keys :
          d.accs[a][k] # None => d.accs[a][k] \in Nat /\ d.regs[k] # None
    /\ \A k \in Keys : d.plain[k] # None => d.plain[k].unclaimed \in Nat
    /\ \A h \in 0..Height : d.pending[h] = <<>> /\ \A t \in Txs : d.payments[h][t] = None
    /\ lost \in [AllAssets -> Nat]

PendingSum(h) == FoldLeft(LAMBDA s, p : s + p.amount, 0, d.pending[h])
LockedIn(p, a) ==
    IF p = None \/ p.processed \/ p.asset # a THEN 0
    ELSE FoldLeft(LAMBDA s, x : s - x.amount, 0, p.senders)

\* Every unit of an asset's supply is in a balance, a pending stake, an open conditional
\* payment or the unclaimed funds of a plain account, or was given up by its owner: no
\* sequence of blocks, settlements and roll-backs creates or destroys money.
Conservation ==
    \A a \in {b \in AllAssets : d.asts[b] # None} :
        d.asts[a].supply =
            MapThenSumSet(LAMBDA k : d.accs[a][k], {k \in Keys : d.accs[a][k] # None})
          + MapThenSumSet(LAMBDA t : MapThenSumSet(LAMBDA h : LockedIn(d.payments[h][t], a), Heights), Txs)
          + lost[a]
          + IF a # Native THEN 0
            ELSE MapThenSumSet(PendingSum, Heights)
                 + MapThenSumSet(LAMBDA k : d.plain[k].unclaimed, {k \in Keys : d.plain[k] # None})

\* The ranking that picks who pays an asset's fee holds exactly the rates the plain accounts
\* publish, in heap order; a provider can pay the least fee and its collector can be paid.
RankingIsRates ==
    /\ \A a \in Assets :
          /\ Ordered(d.heaps[a]) /\ Indexed(d.heaps[a])
          /\ Content(d.heaps[a]) =
                {<<k, d.plain[k].rates[a]>> :
                    k \in {x \in Keys : d.plain[x] # None /\ d.plain[x].rates[a] # 0}}
    /\ \A k \in Keys : d.plain[k] # None /\ HasLiquidities(d.plain[k]) =>
          /\ d.plain[k].unclaimed >= RequiredFee
          /\ d.plain[k].collector # None
          /\ d.regs[d.plain[k].collector] # None

\* The keys kept in the store beside the maps describe the maps: the list of the assets of
\* an account, the height at which a payment is due, the identifications in use.
StoreKeysDescribeMaps ==
    /\ \A k \in Keys :
          /\ ToSet(d.listed[k]) = AccountsOf(d, k)
          /\ Len(d.listed[k]) = Cardinality(AccountsOf(d, k))
    /\ \A t \in Txs, h \in Heights : (d.due[t] = h) <=> (d.payments[h][t] # None)
    /\ \A a, b \in AllAssets : d.asts[a] # None /\ d.asts[b] # None =>
          (a # b => Identification[a] # Identification[b])

\* A key is a private account or a plain one, never both, and whoever is owed a pending
\* stake or a part of a conditional payment can still receive it when the height comes:
\* settling a height never makes a block invalid.
DuesCanBePaid ==
    /\ \A k \in Keys : d.regs[k] = None \/ d.plain[k] = None
    /\ \A h \in Heights :
          /\ \A i \in DOMAIN d.pending[h] :
                d.accs[Native][d.pending[h][i].key] # None /\ d.regs[d.pending[h][i].key].staked
          /\ \A t \in Txs : LET p == d.payments[h][t]
                            IN  p # None /\ ~p.processed =>
                                  \A i \in DOMAIN p.senders :
                                     d.regs[p.senders[i].key] # None /\ d.regs[p.receivers[i].key] # None

\* Taking back a block gives exactly the state before it, store keys included.
UndoRestores == [][Len(chain') < Len(chain) => d' = Last(past).d]_vars

\* No money is made or lost, and no balance goes below zero (IncludeBlock, the transactions,
\* ProcessPendingStakes, ProcessConditionalPayments).
BooksBalance == TypeOK /\ Conservation

\* The pieces of state that are kept twice agree: rankings with rates, lists and due heights
\* with maps (UpdateLiquidity, saveAssetsCount, the maps' events).
StoreIsConsistent == RankingIsRates /\ StoreKeysDescribeMaps
=============================================================================
