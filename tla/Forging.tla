------------------------------ MODULE Forging ------------------------------
(***************************************************************************)
(* Forging: from a new block of the chain to the next one.  The threads,   *)
(* which only meet on unbuffered channels:                                 *)
(*   - the updater of the chain tells of new blocks: it broadcasts their   *)
(*     accounts (feed) and creates the next work, once the sync started;   *)
(*   - the ticker of the sync, and the listener that creates the first     *)
(*     work when the sync starts;                                          *)
(*   - the distributor gives each work to all workers;                     *)
(*   - the forging wallet keeps the addresses that stake and assigns each  *)
(*     to a worker;                                                        *)
(*   - the decryptor decrypts their balances and tells the worker;         *)
(*   - each worker looks for a timestamp whose kernel meets the target, a  *)
(*     solution;                                                           *)
(*   - the publisher makes a block of a solution;                          *)
(*   - the chain adds the blocks of the publisher, and those of others.    *)
(* A block is its height: tips are never taken back here, and a block      *)
(* stands for its hash and its kernel hash.  All are beyond the second,    *)
(* whose kernel hash is not checked.                                       *)
(***************************************************************************)
EXTENDS BlockchainSync, FiniteSets, Sequences

CONSTANTS
    Keys,           \* public keys of the wallet
    Workers,        \* 1..CPU_THREADS
    Balances,       \* what an account may have
    MinimumStake,   \* GetRequiredStake
    FirstTip, LastTip, OthersTip,  \* the last blocks that are forged, and of others: bounds
    MaxAsks,        \* bounds how often the wallet adds or removes an address
    None

ASSUME ForgingAssumption ==
    /\ Balances \subseteq Nat /\ MinimumStake \in Nat \ {0} /\ IsFiniteSet(Keys)
    /\ {FirstTip, LastTip, OthersTip} \subseteq Nat /\ FirstTip <= LastTip /\ OthersTip <= LastTip
    /\ Workers \subseteq Nat /\ Workers # {} /\ None \notin Nat /\ MaxAsks \in Nat

Tips == FirstTip..LastTip
Block == Tips \cup {None}
Balance == Nat \cup {None}

\* An address of the wallet, and its clone on the way to a worker
ForgingWalletAddress == [bal : Balance, idx : Workers \cup {None}, chain : Block]
Clone == [key : Keys, bal : Balance, idx : Workers, chain : Block]

\* An address of a worker, and a solution
ForgingWorkerThreadAddress == [bal : Balance, amount : Nat, nonce : Block]
ForgingSolution == [tip : Tips, key : Keys, amount : Nat, bal : Balance, nonce : Block]

Ask == [key : Keys, remove : BOOLEAN, bal : Balance]

ASSUME NilAssumption ==
    None \notin ForgingWalletAddress \cup Clone \cup ForgingWorkerThreadAddress \cup ForgingSolution \cup Ask

VARIABLES
    chain,      \* [tip, acc]: the tip, and per tip the balance of each key (None: no account)
    updates,    \* the queue of the updater: the new blocks in order, and whether there is an error
    feed,       \* the updates that the wallet has not heard of
    sync,       \* the state of the sync
    calls,      \* what the updater, the ticker and the listener are about to do
    dist,       \* [work, left]: the work, and who has not got it
    last,       \* lastPrevKernelHash
    addrs,      \* addressesMap: key -> None or [bal, idx, chain]
    load,       \* workersAddresses
    seen,       \* chainHash of the wallet
    todo,       \* the addresses of that block it still has to update
    ask,        \* None, or what AddWallet sends; and how often it still may
    queue,      \* decryptBalancesUpdates: key -> None or a clone
    hand,       \* what the decryptor has in hand
    worker,     \* the workers
    pub         \* the publisher

vars == <<chain, updates, feed, sync, calls, dist, last, addrs, load, seen, todo, ask, queue, hand, worker, pub>>
wallet == <<addrs, load, seen, todo, queue>>

Idle == [at |-> "idle", sol |-> None, tip |-> None]

Init ==
    /\ chain \in {[tip |-> FirstTip, acc |-> [t \in Tips |-> acc]] : acc \in [Keys -> Balances]}
    /\ updates = [done |-> <<>>, failed |-> FALSE] /\ feed = <<>>
    /\ sync = CreateBlockchainSync(FALSE)
    /\ calls = [updater |-> "idle", loaded |-> None, work |-> None, ticker |-> None, listener |-> TRUE]
    /\ dist = [work |-> None, left |-> {}]
    /\ last = None
    /\ addrs = [k \in Keys |-> None] /\ load = [w \in Workers |-> 0] /\ seen = None /\ todo = {}
    /\ ask = [msg |-> None, left |-> MaxAsks]
    /\ queue = [k \in Keys |-> None] /\ hand = None
    /\ worker = [w \in Workers |-> [work |-> None, wallets |-> [k \in Keys |-> None],
                                    staked |-> {}, used |-> {}, sol |-> None]]
    /\ pub = Idle

GetBalance(k) == chain.acc[chain.tip][k]

-----------------------------------------------------------------------------
(* The chain and its updater *)

\* A block of someone else: some accounts change.
NewBlock ==
    /\ chain.tip < OthersTip
    /\ \E acc \in [Keys -> Balances \cup {None}] :
          chain' = [tip |-> chain.tip + 1,
                    acc |-> [t \in Tips |-> IF t > chain.tip THEN acc ELSE chain.acc[t]]]
    /\ updates' = [updates EXCEPT !.done = Append(@, chain.tip + 1)]
    /\ UNCHANGED <<feed, sync, calls, dist, last, wallet, ask, hand, worker, pub>>

\* The updater takes all that is queued: the wallet hears of each success, and the sync
\* counts it.  Of the errors it only matters that there are some.
UpdaterTakes ==
    /\ calls.updater = "idle"
    /\ LET done == updates.done
       IN  \/ /\ done = <<>> /\ updates.failed
              /\ calls' = [calls EXCEPT !.updater = "create", !.loaded = None, !.work = None]
           \/ /\ done # <<>>
              /\ calls' = [calls EXCEPT !.updater = "store", !.loaded = AddBlocksChanged(sync, Len(done)),
                                        !.work = done[Len(done)]]
    /\ feed' = feed \o updates.done
    /\ updates' = [done |-> <<>>, failed |-> FALSE]
    /\ UNCHANGED <<chain, sync, dist, last, wallet, ask, hand, worker, pub>>

UpdaterStores ==
    /\ calls.updater = "store"
    /\ sync' = calls.loaded
    /\ calls' = [calls EXCEPT !.updater = "create", !.loaded = None]
    /\ UNCHANGED <<chain, updates, feed, dist, last, wallet, ask, hand, worker, pub>>

\* createNextBlockForForging, for the last success or, after errors of the publisher's
\* blocks, for the chain as it is now.
CreateWork ==
    /\ calls.updater = "create"
    /\ calls' = IF ~sync.started THEN [calls EXCEPT !.updater = "idle", !.work = None]
                ELSE [calls EXCEPT !.updater = "work", !.work = IF @ = None THEN chain.tip ELSE @]
    /\ UNCHANGED <<chain, updates, feed, sync, dist, last, wallet, ask, hand, worker, pub>>

\* Every two minutes: load, store, and the listener of a sync that started creates a work,
\* when it has not done so before.
TickerLoads ==
    /\ calls.ticker = None
    /\ calls' = [calls EXCEPT !.ticker = ResetBlocksChanged(sync)]
    /\ UNCHANGED <<chain, updates, feed, sync, dist, last, wallet, ask, hand, worker, pub>>

TickerStores ==
    /\ calls.ticker # None
    /\ sync' = calls.ticker
    /\ calls' = [calls EXCEPT !.ticker = None, !.listener = @ /\ ~calls.ticker.started]
    /\ UNCHANGED <<chain, updates, feed, dist, last, wallet, ask, hand, worker, pub>>

\* The distributor receives the work of the updater, or the first one, of the listener.
TakeWork(t) ==
    /\ dist.left = {}
    /\ dist' = [work |-> t, left |-> Workers]
    /\ last' = t

UpdatersWork ==
    /\ calls.updater = "work"
    /\ TakeWork(calls.work)
    /\ calls' = [calls EXCEPT !.updater = "idle", !.work = None]
    /\ UNCHANGED <<chain, updates, feed, sync, wallet, ask, hand, worker, pub>>

FirstWork ==
    /\ ~calls.listener /\ last = None
    /\ TakeWork(chain.tip)
    /\ UNCHANGED <<chain, updates, feed, sync, calls, wallet, ask, hand, worker, pub>>

-----------------------------------------------------------------------------
(* Workers *)

\* computeStakingAmount: what an address stakes for a work; 0 when it is too little.  The
\* nonce is that of the work.
ComputeStakingAmount(a, t) ==
    IF a.bal # None /\ a.bal >= MinimumStake THEN [a EXCEPT !.amount = a.bal, !.nonce = t]
    ELSE [a EXCEPT !.amount = 0]

\* A solution that was not sent is given up.
NewWork(w, t) ==
    LET wallets == [k \in Keys |-> IF w.wallets[k] = None THEN None
                                   ELSE ComputeStakingAmount(w.wallets[k], t)]
    IN  [work |-> t, wallets |-> wallets, used |-> {}, sol |-> None,
         staked |-> {k \in Keys : wallets[k] # None /\ wallets[k].amount > 0}]

\* A new balance.  An address that had its solution stakes again only with more than before,
\* and a balance of another block than the work's waits for the next work.
NewWalletAddress(w, a) ==
    LET k == a.key
        old == IF w.wallets[k] = None THEN 0 ELSE w.wallets[k].amount
        new == [bal |-> a.bal, amount |-> old,
                nonce |-> IF w.wallets[k] = None THEN None ELSE w.wallets[k].nonce]
        comp == ComputeStakingAmount(new, w.work)
        again == k \notin w.used \/ comp.amount > old
        got == [w EXCEPT !.sol = None]
    IN  IF w.work = None \/ a.chain \notin {None, w.work} THEN [got EXCEPT !.wallets[k] = new]
        ELSE IF comp.amount = 0 THEN [got EXCEPT !.wallets[k] = comp, !.staked = @ \ {k}]
        ELSE IF again THEN [got EXCEPT !.wallets[k] = comp, !.staked = @ \cup {k}, !.used = @ \ {k}]
        ELSE [got EXCEPT !.wallets[k] = comp]

RemoveWalletAddr(w, k) ==
    [w EXCEPT !.wallets[k] = None, !.staked = IF w.wallets[k] = None THEN @ ELSE @ \ {k}, !.sol = None]

\* Mutant: a worker does not listen while it has a solution to send.
DistributorSendsIdle(i) ==
    /\ i \in dist.left /\ (\A j \in dist.left : i <= j) /\ worker[i].sol = None
    /\ dist' = [dist EXCEPT !.left = @ \ {i}]
    /\ worker' = [worker EXCEPT ![i] = NewWork(@, dist.work)]
    /\ UNCHANGED <<chain, updates, feed, sync, calls, last, wallet, ask, hand, pub>>

DistributorSends(i) ==
    /\ i \in dist.left /\ \A j \in dist.left : i <= j
    /\ dist' = [dist EXCEPT !.left = @ \ {i}]
    /\ worker' = [worker EXCEPT ![i] = NewWork(@, dist.work)]
    /\ UNCHANGED <<chain, updates, feed, sync, calls, last, wallet, ask, hand, pub>>

\* forge: some timestamp meets the target.  The block gets as much stake as it takes, within
\* what the address stakes and at least the minimum.
FindSolution(i, k) ==
    /\ worker[i].sol = None /\ k \in worker[i].staked
    /\ LET a == worker[i].wallets[k]
       IN  \E n \in MinimumStake..a.amount :
              worker' = [worker EXCEPT ![i].sol = [tip |-> worker[i].work, key |-> k, amount |-> n,
                                                   bal |-> a.bal, nonce |-> a.nonce]]
    /\ UNCHANGED <<chain, updates, feed, sync, calls, dist, last, wallet, ask, hand, pub>>

-----------------------------------------------------------------------------
(* The publisher *)

\* It receives a solution, and drops it when it is not for the last work.
SendSolution(i) ==
    /\ worker[i].sol # None /\ pub.at = "idle"
    /\ worker' = [worker EXCEPT ![i].sol = None, ![i].staked = @ \ {worker[i].sol.key},
                                ![i].used = @ \cup {worker[i].sol.key}]
    /\ pub' = IF last = None \/ worker[i].sol.tip = last THEN [Idle EXCEPT !.at = "build", !.sol = worker[i].sol]
              ELSE pub
    /\ UNCHANGED <<chain, updates, feed, sync, calls, dist, last, wallet, ask, hand>>

\* publishSolution: the staking transaction needs the chain to be where the work was, and
\* the stake in the account; it may also fail otherwise.
Build ==
    /\ pub.at = "build"
    /\ \/ /\ pub.sol.tip = chain.tip /\ GetBalance(pub.sol.key) \in Nat /\ GetBalance(pub.sol.key) >= pub.sol.amount
          /\ pub' = [pub EXCEPT !.at = "send"]
       \/ pub' = Idle
    /\ UNCHANGED <<chain, updates, feed, sync, calls, dist, last, wallet, ask, hand, worker>>

\* AddBlocks, called by forging: the stake is locked.  A block that is refused is an update too.
AddForged ==
    /\ pub.at = "send"
    /\ IF pub.sol.tip = chain.tip /\ chain.tip < LastTip
       THEN /\ chain' = [tip |-> chain.tip + 1,
                         acc |-> [t \in Tips |-> IF t > chain.tip
                                    THEN [chain.acc[chain.tip] EXCEPT ![pub.sol.key] = @ - pub.sol.amount]
                                    ELSE chain.acc[t]]]
            /\ updates' = [updates EXCEPT !.done = Append(@, chain.tip + 1)]
            /\ pub' = [pub EXCEPT !.at = "done", !.tip = chain.tip + 1]
       ELSE /\ updates' = [updates EXCEPT !.failed = TRUE]
            /\ pub' = Idle
            /\ UNCHANGED chain
    /\ UNCHANGED <<feed, sync, calls, dist, last, wallet, ask, hand, worker>>

Published ==
    /\ pub.at = "done"
    /\ last' = pub.tip
    /\ pub' = Idle
    /\ UNCHANGED <<chain, updates, feed, sync, calls, dist, wallet, ask, hand, worker>>

-----------------------------------------------------------------------------
(* The forging wallet *)

\* AddWallet and RemoveWallet read the account and send it.
AddWallet(k, remove) ==
    /\ ask.msg = None /\ ask.left > 0
    /\ ask' = [msg |-> [key |-> k, remove |-> remove, bal |-> GetBalance(k)], left |-> ask.left - 1]
    /\ UNCHANGED <<chain, updates, feed, sync, calls, dist, last, wallet, hand, worker, pub>>

\* updateAccountToForgingWorkers: an address without a worker gets the one with the fewest.
Assign(a) ==
    IF a.idx # None THEN a.idx
    ELSE CHOOSE w \in Workers : \A v \in Workers : load[w] < load[v] \/ (load[w] = load[v] /\ w <= v)

UpdateAccount(k, a) ==
    LET idx == Assign(a)
        new == [a EXCEPT !.idx = idx]
    IN  /\ addrs' = [addrs EXCEPT ![k] = new]
        /\ load' = IF a.idx = None THEN [load EXCEPT ![idx] = @ + 1] ELSE load
        /\ queue' = [queue EXCEPT ![k] = [key |-> k, bal |-> a.bal, idx |-> idx, chain |-> a.chain]]

\* removeAccountFromForgingWorkers: the address stays in the map.
RemoveAccount(k) ==
    /\ IF addrs[k] # None /\ addrs[k].idx # None
       THEN /\ worker' = [worker EXCEPT ![addrs[k].idx] = RemoveWalletAddr(@, k)]
            /\ load' = [load EXCEPT ![addrs[k].idx] = @ - 1]
            /\ addrs' = [addrs EXCEPT ![k].idx = None]
       ELSE UNCHANGED <<worker, load, addrs>>
    /\ UNCHANGED queue

\* runProcessUpdates, for what AddWallet sent: an address that is known is left as it is.
WalletTakesAsk ==
    /\ ask.msg # None /\ todo = {}
    /\ LET m == ask.msg
       IN  IF m.remove \/ m.bal = None THEN RemoveAccount(m.key)
           ELSE IF addrs[m.key] # None THEN UNCHANGED <<worker, addrs, load, queue>>
           ELSE /\ UpdateAccount(m.key, [bal |-> m.bal, idx |-> None, chain |-> seen])
                /\ UNCHANGED worker
    /\ ask' = [ask EXCEPT !.msg = None]
    /\ UNCHANGED <<chain, updates, feed, sync, calls, dist, last, seen, todo, hand, pub>>

\* For a block: the accounts that it changed and the wallet knows, one after the other.  A
\* deleted account is not noticed: the wallet looks for another word than the map stores.
WalletTakesUpdate ==
    /\ feed # <<>> /\ todo = {}
    /\ LET t == Head(feed)
       IN  /\ seen' = t
           /\ todo' = {k \in Keys : addrs[k] # None /\ chain.acc[t][k] \notin {None, chain.acc[t - 1][k]}}
    /\ feed' = Tail(feed)
    /\ UNCHANGED <<chain, updates, sync, calls, dist, last, addrs, load, queue, ask, hand, worker, pub>>

WalletUpdates(k) ==
    /\ k \in todo
    /\ UpdateAccount(k, [addrs[k] EXCEPT !.bal = chain.acc[seen][k], !.chain = seen])
    /\ todo' = todo \ {k}
    /\ UNCHANGED <<chain, updates, feed, sync, calls, dist, last, seen, ask, hand, worker, pub>>

\* runDecryptBalanceAndNotifyWorkers.
DecryptorTakes(k) ==
    /\ hand = None /\ queue[k] # None
    /\ hand' = queue[k]
    /\ queue' = [queue EXCEPT ![k] = None]
    /\ UNCHANGED <<chain, updates, feed, sync, calls, dist, last, addrs, load, seen, todo, ask, worker, pub>>

\* Mutant: a worker that knows the address keeps its balance.
DecryptorSendsAnyway ==
    /\ hand # None
    /\ worker' = [worker EXCEPT ![hand.idx].wallets[hand.key] =
                     IF @ = None THEN [bal |-> hand.bal, amount |-> 0, nonce |-> None] ELSE @]
    /\ hand' = None
    /\ UNCHANGED <<chain, updates, feed, sync, calls, dist, last, wallet, ask, pub>>

DecryptorSends ==
    /\ hand # None
    /\ worker' = [worker EXCEPT ![hand.idx] = NewWalletAddress(@, hand)]
    /\ hand' = None
    /\ UNCHANGED <<chain, updates, feed, sync, calls, dist, last, wallet, ask, pub>>

-----------------------------------------------------------------------------
Updater == UpdaterTakes \/ UpdaterStores \/ CreateWork \/ UpdatersWork
Ticker == TickerLoads \/ TickerStores
Distributor == \E i \in Workers : DistributorSends(i)
Decryptor == (\E k \in Keys : DecryptorTakes(k)) \/ DecryptorSends
WalletThread == WalletTakesAsk \/ WalletTakesUpdate \/ \E k \in Keys : WalletUpdates(k)
Publisher == Build \/ AddForged \/ Published

Next ==
    \/ NewBlock \/ Updater \/ Ticker \/ FirstWork \/ Distributor
    \/ \E i \in Workers : SendSolution(i) \/ \E k \in Keys : FindSolution(i, k)
    \/ Publisher \/ WalletThread \/ Decryptor
    \/ \E k \in Keys, remove \in BOOLEAN : AddWallet(k, remove)

\* Every thread goes on; that blocks are found, by anyone, is not assumed.
Spec ==
    /\ Init /\ [][Next]_vars
    /\ WF_vars(Updater) /\ WF_vars(Ticker) /\ WF_vars(FirstWork) /\ WF_vars(Distributor)
    /\ WF_vars(Decryptor) /\ WF_vars(WalletThread) /\ WF_vars(Publisher)

-----------------------------------------------------------------------------
(* Properties *)

\* The state keeps its shape.  No block of this node locks more stake than the account has,
\* although the balance of the solution may be of an older block.
TypeOK ==
    /\ chain \in [tip : Tips, acc : [Tips -> [Keys -> Balance]]]
    /\ updates \in [done : Seq(Tips), failed : BOOLEAN] /\ feed \in Seq(Tips)
    /\ sync \in SyncData
    /\ calls \in [updater : {"idle", "store", "create", "work"}, loaded : SyncData \cup {None},
                  work : Block, ticker : SyncData \cup {None}, listener : BOOLEAN]
    /\ dist \in [work : Block, left : SUBSET Workers] /\ last \in Block
    /\ addrs \in [Keys -> ForgingWalletAddress \cup {None}] /\ load \in [Workers -> Nat]
    /\ seen \in Block /\ todo \in SUBSET Keys
    /\ ask \in [msg : Ask \cup {None}, left : Nat]
    /\ queue \in [Keys -> Clone \cup {None}] /\ hand \in Clone \cup {None}
    /\ worker \in [Workers -> [work : Block, wallets : [Keys -> ForgingWorkerThreadAddress \cup {None}],
                               staked : SUBSET Keys, used : SUBSET Keys, sol : ForgingSolution \cup {None}]]
    /\ pub \in [at : {"idle", "build", "send", "done"}, sol : ForgingSolution \cup {None}, tip : Block]

\* What a worker stakes fits its work, whatever the order in which works, balances and
\* removals arrive: an address it has, with at least the minimum and the nonce of this work's
\* block, that has not given a solution before; and a solution fits its block.
FitsBlock(sol) == sol.nonce = sol.tip /\ sol.amount >= MinimumStake
FitsWork(w) ==
    /\ \A k \in w.staked : /\ w.work # None /\ w.wallets[k] # None /\ k \notin w.used
                           /\ w.wallets[k].amount >= MinimumStake /\ w.wallets[k].nonce = w.work
    /\ w.sol # None => w.sol.key \in w.staked /\ w.sol.tip = w.work /\ FitsBlock(w.sol)
StakedFitsWork ==
    /\ \A i \in Workers : FitsWork(worker[i])
    /\ pub.sol # None => FitsBlock(pub.sol)

\* An address whose balance is not on its way is known to its worker with the balance the
\* wallet has: an older balance never overtakes a newer one.
Underway(k) == queue[k] # None \/ (hand # None /\ hand.key = k)
LastBalanceWins ==
    \A k \in Keys : addrs[k] # None /\ addrs[k].idx # None /\ ~Underway(k) =>
        LET a == worker[addrs[k].idx].wallets[k] IN a # None /\ a.bal = addrs[k].bal

\* The load of a worker, by which addresses are spread, counts the addresses it has been assigned.
LoadIsCounted ==
    \A i \in Workers : load[i] = Cardinality({k \in Keys : addrs[k] # None /\ addrs[k].idx = i})

\* A work that was created reaches every worker, unless a newer one does: the threads do not
\* wait for each other in a circle.
WorkArrives ==
    \A t \in Tips : (calls.updater = "work" /\ calls.work = t) ~>
                   \A i \in Workers : worker[i].work # None /\ worker[i].work >= t

\* The sync starts when blocks stop coming, and then all workers have a work.
ForgingStarts == <>(\A i \in Workers : worker[i].work # None)

\* Workers stake what their wallets have, wherever works and balances are on their way
\* (forge, runProcessUpdates, runDecryptBalanceAndNotifyWorkers).
ForgingIsSound == TypeOK /\ StakedFitsWork /\ LastBalanceWins /\ LoadIsCounted
=============================================================================
