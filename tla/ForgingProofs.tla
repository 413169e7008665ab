--------------------------- MODULE ForgingProofs ---------------------------
(***************************************************************************)
(* Proofs about Forging, for every wallet, number of workers and length of *)
(* the chain.  To show that an older balance never overtakes a newer one,  *)
(* Mail says what the entry of the queue and the one in the hand of the    *)
(* decryptor hold; to show that no block locks more stake than there is,   *)
(* Handed says what the publisher checked.                                 *)
(***************************************************************************)
EXTENDS Forging, FiniteSetTheorems, SequenceTheorems, WellFoundedInduction, TLAPS

\* What a thread has in hand when it acts on it
Handed ==
    /\ dist.left # {} => dist.work \in Tips
    /\ calls.updater = "store" => calls.loaded \in SyncData
    /\ calls.updater = "work" => calls.work \in Tips
    /\ pub.at # "idle" => pub.sol \in ForgingSolution
    /\ pub.at = "done" => pub.tip \in Tips
    /\ pub.at = "send" => /\ pub.sol.tip <= chain.tip
                          /\ pub.sol.tip = chain.tip => /\ GetBalance(pub.sol.key) \in Nat
                                                        /\ GetBalance(pub.sol.key) >= pub.sol.amount
    /\ \A k \in todo : addrs[k] \in ForgingWalletAddress /\ seen \in Tips

\* An address with a worker; the message for it that says what the wallet has
Assigned(k) == addrs[k] \in ForgingWalletAddress /\ addrs[k].idx \in Workers
Tells(m, a) == m.idx = a.idx /\ m.bal = a.bal

\* The queued entry is of the last update, and so is the one in hand when none is queued.
Mail ==
    /\ \A k \in Keys : queue[k] # None => queue[k].key = k
    /\ \A k \in Keys : queue[k] # None /\ Assigned(k) => Tells(queue[k], addrs[k])
    /\ \A k \in Keys : hand # None /\ hand.key = k /\ queue[k] = None /\ Assigned(k) => Tells(hand, addrs[k])

ForgingInvariant == TypeOK /\ StakedFitsWork /\ Handed /\ Mail /\ LastBalanceWins /\ LoadIsCounted

-----------------------------------------------------------------------------
\* What does not touch the wallet, the decryptor and the workers keeps what is said of them.
LEMMA WalletKept ==
  ASSUME ForgingInvariant, UNCHANGED <<addrs, load, queue, hand, worker>>
  PROVE  Mail' /\ LastBalanceWins' /\ LoadIsCounted'
<1>1. Mail'
  BY DEF ForgingInvariant, Mail, Assigned
<1>2. LastBalanceWins'
  BY DEF ForgingInvariant, LastBalanceWins, Underway
<1>3. LoadIsCounted'
  BY DEF ForgingInvariant, LoadIsCounted
<1>. QED
  BY <1>1, <1>2, <1>3

\* The counters of the sync keep their types.
LEMMA SyncTypes ==
  ASSUME NEW d \in SyncData, NEW n \in Nat
  PROVE  AddBlocksChanged(d, n) \in SyncData /\ ResetBlocksChanged(d) \in SyncData
<1>1. Capped(d.last + n) \in Nat
  BY SyncAssumption DEF Capped, SyncData
<1>. QED
  BY <1>1 DEF AddBlocksChanged, ResetBlocksChanged, SyncData

\* Tips are natural numbers, and nil is none.
LEMMA TipFacts == Tips \subseteq Nat /\ None \notin Tips /\ \A t \in Tips : t >= FirstTip /\ t <= LastTip
BY ForgingAssumption DEF Tips

\* A block of someone else: a solution that waits to be added is for an older tip then.
LEMMA NewBlockInvariant ==
  ASSUME ForgingInvariant, NewBlock
  PROVE  ForgingInvariant'
<1>0. TypeOK /\ StakedFitsWork /\ Handed
  BY DEF ForgingInvariant
<1>1. PICK acc \in [Keys -> Balances \cup {None}] :
         chain' = [tip |-> chain.tip + 1, acc |-> [t \in Tips |-> IF t > chain.tip THEN acc ELSE chain.acc[t]]]
  BY DEF NewBlock
<1>2. /\ chain.tip \in Tips /\ chain.tip \in Nat /\ chain.tip + 1 \in Tips /\ chain.acc \in [Tips -> [Keys -> Balance]]
  <2>1. chain.tip \in Tips /\ chain.acc \in [Tips -> [Keys -> Balance]] /\ chain.tip < OthersTip
    BY <1>0 DEF NewBlock, TypeOK
  <2>2. chain.tip \in Nat /\ OthersTip \in Nat /\ LastTip \in Nat /\ FirstTip \in Nat /\ OthersTip <= LastTip
    BY <2>1, TipFacts, ForgingAssumption
  <2>. QED
    BY <2>1, <2>2 DEF Tips
<1>3. acc \in [Keys -> Balance]
  BY ForgingAssumption DEF Balance
<1>4. chain' \in [tip : Tips, acc : [Tips -> [Keys -> Balance]]]
  BY <1>1, <1>2, <1>3
<1>5. /\ updates' = [updates EXCEPT !.done = Append(@, chain.tip + 1)]
      /\ UNCHANGED <<feed, sync, calls, dist, last, addrs, load, seen, todo, queue, ask, hand, worker, pub>>
  BY DEF NewBlock, wallet
<1>6. TypeOK'
  <2>1. updates' \in [done : Seq(Tips), failed : BOOLEAN]
    <3>1. updates \in [done : Seq(Tips), failed : BOOLEAN] /\ Append(updates.done, chain.tip + 1) \in Seq(Tips)
      BY <1>0, <1>2 DEF TypeOK
    <3>. QED
      BY <1>5, <3>1
  <2>. QED
    BY <1>0, <1>4, <1>5, <2>1 DEF TypeOK
<1>7. StakedFitsWork'
  BY <1>0, <1>5 DEF StakedFitsWork
<1>8. Handed'
  <2>1. chain'.tip = chain.tip + 1
    BY <1>1
  <2>2. pub.at = "send" => pub.sol.tip \in Tips /\ pub.sol.tip <= chain.tip
    BY <1>0 DEF Handed, ForgingSolution
  <2>3. pub.at = "send" => pub.sol.tip < chain'.tip
    <3>1. \A t \in Tips : t <= chain.tip => t < chain.tip + 1
      BY <1>2, TipFacts
    <3>. QED
      BY <2>1, <2>2, <3>1
  <2>. QED
    BY <1>0, <1>2, <1>5, <2>1, <2>2, <2>3, TipFacts DEF Handed
<1>. QED
  BY <1>5, <1>6, <1>7, <1>8, WalletKept DEF ForgingInvariant

\* The updater, the ticker and the distributor hand on tips only.
LEMMA UpdaterInvariant ==
  ASSUME ForgingInvariant, Updater \/ Ticker \/ FirstWork
  PROVE  ForgingInvariant'
<1>0. TypeOK /\ StakedFitsWork /\ Handed
  BY DEF ForgingInvariant
<1>1. UNCHANGED <<chain, addrs, load, seen, todo, queue, ask, hand, worker, pub>>
  BY DEF Updater, Ticker, FirstWork, UpdaterTakes, UpdaterStores, CreateWork, UpdatersWork, TickerLoads, TickerStores, wallet
<1>. DEFINE Calls == [updater : {"idle", "store", "create", "work"}, loaded : SyncData \cup {None},
                      work : Block, ticker : SyncData \cup {None}, listener : BOOLEAN]
            Good == /\ updates' \in [done : Seq(Tips), failed : BOOLEAN] /\ feed' \in Seq(Tips)
                    /\ sync' \in SyncData /\ calls' \in Calls
                    /\ dist' \in [work : Block, left : SUBSET Workers] /\ last' \in Block
                    /\ dist'.left # {} => dist'.work \in Tips
                    /\ calls'.updater = "store" => calls'.loaded \in SyncData
                    /\ calls'.updater = "work" => calls'.work \in Tips
<1>2. /\ updates \in [done : Seq(Tips), failed : BOOLEAN] /\ feed \in Seq(Tips) /\ sync \in SyncData /\ calls \in Calls
      /\ dist \in [work : Block, left : SUBSET Workers] /\ last \in Block /\ chain.tip \in Tips
      /\ dist.left # {} => dist.work \in Tips
      /\ calls.updater = "store" => calls.loaded \in SyncData
      /\ calls.updater = "work" => calls.work \in Tips
  BY <1>0 DEF TypeOK, Handed
<1>3. ASSUME UpdaterTakes PROVE Good
  <2>. DEFINE done == updates.done
  <2>1. done \in Seq(Tips) /\ feed' \in Seq(Tips) /\ updates' \in [done : Seq(Tips), failed : BOOLEAN]
    BY <1>2, <1>3, ConcatProperties DEF UpdaterTakes
  <2>2. UNCHANGED <<sync, dist, last>>
    BY <1>3 DEF UpdaterTakes
  <2>3. CASE done # <<>> /\ calls' = [calls EXCEPT !.updater = "store", !.loaded = AddBlocksChanged(sync, Len(done)),
                                                   !.work = done[Len(done)]]
    <3>1. done[Len(done)] \in Tips /\ Len(done) \in Nat
      BY <2>1, <2>3
    <3>2. AddBlocksChanged(sync, Len(done)) \in SyncData
      BY <1>2, <3>1, SyncTypes
    <3>3. calls' \in Calls /\ calls'.updater = "store" /\ calls'.loaded \in SyncData
      BY <1>2, <2>3, <3>1, <3>2 DEF Block
    <3>. QED
      BY <1>2, <2>1, <2>2, <3>3
  <2>4. CASE calls' = [calls EXCEPT !.updater = "create", !.loaded = None, !.work = None]
    <3>1. calls' \in Calls /\ calls'.updater = "create"
      BY <1>2, <2>4 DEF Block
    <3>. QED
      BY <1>2, <2>1, <2>2, <3>1
  <2>. QED
    BY <1>3, <2>3, <2>4 DEF UpdaterTakes
<1>4. ASSUME UpdaterStores PROVE Good
  <2>1. UNCHANGED <<updates, feed, dist, last>>
    BY <1>4 DEF UpdaterStores
  <2>. QED
    BY <1>2, <1>4, <2>1 DEF UpdaterStores
<1>5. ASSUME CreateWork PROVE Good
  BY <1>2, <1>5 DEF CreateWork, Block
<1>6. ASSUME UpdatersWork PROVE Good
  BY <1>2, <1>6 DEF UpdatersWork, TakeWork, Block
<1>7. ASSUME Ticker PROVE Good
  BY <1>2, <1>7, SyncTypes DEF Ticker, TickerLoads, TickerStores
<1>8. ASSUME FirstWork PROVE Good
  BY <1>2, <1>8 DEF FirstWork, TakeWork, Block
<1>9. Good
  BY <1>3, <1>4, <1>5, <1>6, <1>7, <1>8 DEF Updater
<1>10. TypeOK' /\ StakedFitsWork' /\ Handed'
  BY <1>0, <1>1, <1>9 DEF TypeOK, StakedFitsWork, Handed, GetBalance
<1>. QED
  BY <1>1, <1>10, WalletKept DEF ForgingInvariant

-----------------------------------------------------------------------------
Worker == [work : Block, wallets : [Keys -> ForgingWorkerThreadAddress \cup {None}],
           staked : SUBSET Keys, used : SUBSET Keys, sol : ForgingSolution \cup {None}]

\* A worker that gets its next state knows the balances it knew.
Remembers(w, v) == \A k \in Keys : w.wallets[k] # None => v.wallets[k] # None /\ v.wallets[k].bal = w.wallets[k].bal

\* What an address stakes is its balance or nothing.
LEMMA Staking ==
  ASSUME NEW a \in ForgingWorkerThreadAddress, NEW t \in Tips
  PROVE  LET c == ComputeStakingAmount(a, t)
         IN  /\ c \in ForgingWorkerThreadAddress /\ c # None /\ c.bal = a.bal
             /\ c.amount # 0 => c.amount >= MinimumStake /\ c.nonce = t
<1>. DEFINE c == ComputeStakingAmount(a, t)
<1>1. a.bal \in Nat \cup {None} /\ a.amount \in Nat /\ a.nonce \in Block
  BY DEF ForgingWorkerThreadAddress, Balance
<1>2. CASE a.bal # None /\ a.bal >= MinimumStake
  <2>1. c = [a EXCEPT !.amount = a.bal, !.nonce = t] /\ a.bal \in Nat
    BY <1>1, <1>2 DEF ComputeStakingAmount
  <2>2. c \in ForgingWorkerThreadAddress /\ c.bal = a.bal /\ c.amount = a.bal /\ c.nonce = t
    BY <2>1 DEF ForgingWorkerThreadAddress, Block
  <2>. QED
    BY <1>2, <2>2, NilAssumption
<1>3. CASE ~(a.bal # None /\ a.bal >= MinimumStake)
  <2>1. c = [a EXCEPT !.amount = 0]
    BY <1>3 DEF ComputeStakingAmount
  <2>2. c \in ForgingWorkerThreadAddress /\ c.bal = a.bal /\ c.amount = 0
    BY <2>1 DEF ForgingWorkerThreadAddress
  <2>. QED
    BY <2>2, NilAssumption
<1>. QED
  BY <1>2, <1>3

\* With a new work a worker stakes what fits it.
LEMMA NewWorkFits ==
  ASSUME NEW w \in Worker, NEW t \in Tips
  PROVE  NewWork(w, t) \in Worker /\ FitsWork(NewWork(w, t)) /\ Remembers(w, NewWork(w, t))
<1>. DEFINE wallets == [k \in Keys |-> IF w.wallets[k] = None THEN None ELSE ComputeStakingAmount(w.wallets[k], t)]
            v == NewWork(w, t)
<1>1. w.wallets \in [Keys -> ForgingWorkerThreadAddress \cup {None}]
  BY DEF Worker
<1>2. ASSUME NEW k \in Keys, w.wallets[k] # None
      PROVE  /\ wallets[k] \in ForgingWorkerThreadAddress /\ wallets[k] # None /\ wallets[k].bal = w.wallets[k].bal
             /\ wallets[k].amount # 0 => wallets[k].amount >= MinimumStake /\ wallets[k].nonce = t
  <2>1. w.wallets[k] \in ForgingWorkerThreadAddress
    BY <1>1, <1>2
  <2>. QED
    BY <1>2, <2>1, Staking
<1>3. ASSUME NEW k \in Keys, w.wallets[k] = None PROVE wallets[k] = None
  BY <1>3
<1>4. wallets \in [Keys -> ForgingWorkerThreadAddress \cup {None}]
  BY <1>1, <1>2, <1>3
<1>. HIDE DEF wallets
<1>5. v = [work |-> t, wallets |-> wallets, used |-> {}, sol |-> None,
           staked |-> {k \in Keys : wallets[k] # None /\ wallets[k].amount > 0}]
  BY DEF NewWork, wallets
<1>6. v \in Worker
  BY <1>4, <1>5 DEF Worker, Block
<1>7. v.work = t /\ v.wallets = wallets /\ v.used = {} /\ v.sol = None /\ v.staked = {k \in Keys : wallets[k] # None /\ wallets[k].amount > 0}
  BY <1>5
<1>8. FitsWork(v)
  BY <1>2, <1>3, <1>7, TipFacts DEF FitsWork
<1>9. Remembers(w, v)
  BY <1>2, <1>7 DEF Remembers
<1>. QED
  BY <1>6, <1>8, <1>9

\* A new balance is known afterwards, and staked only when it fits the work.
LEMMA NewWalletAddressFits ==
  ASSUME NEW w \in Worker, FitsWork(w), NEW a \in Clone
  PROVE  LET v == NewWalletAddress(w, a)
         IN  /\ v \in Worker /\ FitsWork(v)
             /\ v.wallets[a.key] # None /\ v.wallets[a.key].bal = a.bal
             /\ \A k \in Keys : k # a.key => v.wallets[k] = w.wallets[k]
<1>. DEFINE k == a.key
            old == IF w.wallets[k] = None THEN 0 ELSE w.wallets[k].amount
            nonce == IF w.wallets[k] = None THEN None ELSE w.wallets[k].nonce
            new == [bal |-> a.bal, amount |-> old, nonce |-> nonce]
            comp == ComputeStakingAmount(new, w.work)
            v == NewWalletAddress(w, a)
<1>1. /\ k \in Keys /\ a.bal \in Balance
      /\ w.wallets \in [Keys -> ForgingWorkerThreadAddress \cup {None}] /\ w.staked \subseteq Keys /\ w.used \subseteq Keys
      /\ w.work \in Tips \cup {None}
  BY DEF Clone, Worker, Block
<1>2. new \in ForgingWorkerThreadAddress /\ new # None /\ new.bal = a.bal /\ new.amount = old /\ new.nonce = nonce
  <2>1. old \in Nat /\ nonce \in Block
    BY <1>1 DEF ForgingWorkerThreadAddress, Block
  <2>2. new \in ForgingWorkerThreadAddress
    BY <1>1, <2>1 DEF ForgingWorkerThreadAddress
  <2>. QED
    BY <2>2, NilAssumption
<1>3. k \in w.staked => old >= MinimumStake /\ nonce = w.work /\ k \notin w.used /\ w.work # None
  BY <1>1 DEF FitsWork
<1>. HIDE DEF new, old, nonce
<1>4. w.work \in Tips => /\ comp \in ForgingWorkerThreadAddress /\ comp # None /\ comp.bal = a.bal
                         /\ comp.amount # 0 => comp.amount >= MinimumStake /\ comp.nonce = w.work
  BY <1>2, Staking
<1>. HIDE DEF comp
<1>5. v = (LET again == k \notin w.used \/ comp.amount > old
               got == [w EXCEPT !.sol = None]
           IN  IF w.work = None \/ a.chain \notin {None, w.work} THEN [got EXCEPT !.wallets[k] = new]
               ELSE IF comp.amount = 0 THEN [got EXCEPT !.wallets[k] = comp, !.staked = @ \ {k}]
               ELSE IF again THEN [got EXCEPT !.wallets[k] = comp, !.staked = @ \cup {k}, !.used = @ \ {k}]
               ELSE [got EXCEPT !.wallets[k] = comp])
  BY DEF NewWalletAddress, comp, new, old, nonce
<1>. HIDE DEF v, k
<1>6. PICK b, s, u : /\ v = [w EXCEPT !.sol = None, !.wallets = [w.wallets EXCEPT ![k] = b], !.staked = s, !.used = u]
                     /\ \/ b = new /\ s = w.staked /\ u = w.used
                        \/ w.work \in Tips /\ b = comp /\ comp.amount = 0 /\ s = w.staked \ {k} /\ u = w.used
                        \/ w.work \in Tips /\ b = comp /\ comp.amount # 0 /\ s = w.staked \cup {k} /\ u = w.used \ {k}
                        \/ w.work \in Tips /\ b = comp /\ comp.amount # 0 /\ k \in w.used /\ s = w.staked /\ u = w.used
  <2>1. CASE w.work = None \/ a.chain \notin {None, w.work}
    <3>1. v = [w EXCEPT !.sol = None, !.wallets = [w.wallets EXCEPT ![k] = new], !.staked = w.staked, !.used = w.used]
      BY <1>5, <2>1 DEF Worker
    <3>. QED
      BY <3>1
  <2>2. CASE ~(w.work = None \/ a.chain \notin {None, w.work}) /\ comp.amount = 0
    <3>1. v = [w EXCEPT !.sol = None, !.wallets = [w.wallets EXCEPT ![k] = comp], !.staked = w.staked \ {k}, !.used = w.used]
      BY <1>5, <2>2 DEF Worker
    <3>. QED
      BY <1>1, <2>2, <3>1
  <2>3. CASE ~(w.work = None \/ a.chain \notin {None, w.work}) /\ comp.amount # 0 /\ (k \notin w.used \/ comp.amount > old)
    <3>1. v = [w EXCEPT !.sol = None, !.wallets = [w.wallets EXCEPT ![k] = comp], !.staked = w.staked \cup {k}, !.used = w.used \ {k}]
      BY <1>5, <2>3 DEF Worker
    <3>. QED
      BY <1>1, <2>3, <3>1
  <2>4. CASE ~(w.work = None \/ a.chain \notin {None, w.work}) /\ comp.amount # 0 /\ ~(k \notin w.used \/ comp.amount > old)
    <3>1. v = [w EXCEPT !.sol = None, !.wallets = [w.wallets EXCEPT ![k] = comp], !.staked = w.staked, !.used = w.used]
      BY <1>5, <2>4 DEF Worker
    <3>. QED
      BY <1>1, <2>4, <3>1
  <2>. QED
    BY <2>1, <2>2, <2>3, <2>4
<1>7. b \in ForgingWorkerThreadAddress /\ b # None /\ b.bal = a.bal /\ s \subseteq Keys /\ u \subseteq Keys
  BY <1>1, <1>2, <1>4, <1>6
<1>8. v.work = w.work /\ v.sol = None /\ v.wallets = [w.wallets EXCEPT ![k] = b] /\ v.staked = s /\ v.used = u
  BY <1>6 DEF Worker
<1>9. v \in Worker
  BY <1>1, <1>6, <1>7 DEF Worker
<1>10. FitsWork(v)
  <2>1. ASSUME NEW j \in s, j # k
        PROVE  v.work # None /\ v.wallets[j] # None /\ j \notin v.used /\ v.wallets[j].amount >= MinimumStake /\ v.wallets[j].nonce = v.work
    BY <1>1, <1>6, <1>7, <1>8, <2>1 DEF FitsWork
  <2>2. ASSUME k \in s
        PROVE  v.work # None /\ v.wallets[k] # None /\ k \notin v.used /\ v.wallets[k].amount >= MinimumStake /\ v.wallets[k].nonce = v.work
    <3>1. v.wallets[k] = b
      BY <1>1, <1>8
    <3>2. CASE b = new /\ s = w.staked /\ u = w.used
      BY <1>2, <1>3, <1>7, <1>8, <2>2, <3>1, <3>2
    <3>3. CASE w.work \in Tips /\ b = comp /\ comp.amount # 0
      BY <1>3, <1>4, <1>6, <1>7, <1>8, <2>2, <3>1, <3>3, TipFacts
    <3>. QED
      BY <1>6, <2>2, <3>2, <3>3
  <2>. QED
    BY <1>8, <2>1, <2>2 DEF FitsWork
<1>. QED
  BY <1>1, <1>7, <1>8, <1>9, <1>10 DEF v, k

\* An address that is removed is not staked.
LEMMA RemoveWalletAddrFits ==
  ASSUME NEW w \in Worker, FitsWork(w), NEW k \in Keys
  PROVE  LET v == RemoveWalletAddr(w, k)
         IN  v \in Worker /\ FitsWork(v) /\ \A x \in Keys : x # k => v.wallets[x] = w.wallets[x]
<1>. DEFINE v == RemoveWalletAddr(w, k)
<1>1. w.wallets \in [Keys -> ForgingWorkerThreadAddress \cup {None}] /\ w.staked \subseteq Keys
  BY DEF Worker
<1>2. PICK s \in SUBSET w.staked : /\ s = (IF w.wallets[k] = None THEN w.staked ELSE w.staked \ {k})
  OBVIOUS
<1>3. k \notin s
  BY <1>2 DEF FitsWork
<1>4. v = [w EXCEPT !.wallets = [w.wallets EXCEPT ![k] = None], !.staked = s, !.sol = None]
  BY <1>2 DEF RemoveWalletAddr, Worker
<1>5. v.work = w.work /\ v.used = w.used /\ v.wallets = [w.wallets EXCEPT ![k] = None] /\ v.staked = s /\ v.sol = None
  BY <1>4 DEF Worker
<1>6. v \in Worker
  <2>1. s \in SUBSET Keys /\ [w.wallets EXCEPT ![k] = None] \in [Keys -> ForgingWorkerThreadAddress \cup {None}]
    BY <1>1
  <2>. QED
    BY <1>4, <2>1 DEF Worker
<1>7. FitsWork(v)
  BY <1>1, <1>3, <1>5 DEF FitsWork
<1>. QED
  BY <1>1, <1>5, <1>6, <1>7

\* The workers of the model have that type.
LEMMA Workshop == TypeOK <=> TypeOK /\ worker \in [Workers -> Worker]
BY DEF TypeOK, Worker

\* A step of a worker that does not forget a balance keeps the invariant, when what it
\* stakes fits its work.
LEMMA WorkerMoved ==
  ASSUME ForgingInvariant, NEW i \in Workers, worker' \in [Workers -> Worker],
         \A j \in Workers : j # i => worker'[j] = worker[j],
         FitsWork(worker'[i]), Remembers(worker[i], worker'[i]),
         pub'.sol # None => FitsBlock(pub'.sol),
         UNCHANGED <<addrs, load, queue, hand>>
  PROVE  StakedFitsWork' /\ Mail' /\ LastBalanceWins' /\ LoadIsCounted'
<1>0. TypeOK /\ StakedFitsWork /\ Mail /\ LastBalanceWins /\ LoadIsCounted
  BY DEF ForgingInvariant
<1>1. StakedFitsWork'
  BY <1>0 DEF StakedFitsWork
<1>2. Mail' /\ LoadIsCounted'
  BY <1>0 DEF Mail, LoadIsCounted, Assigned
<1>3. LastBalanceWins'
  <2>1. ASSUME NEW j \in Workers, NEW k \in Keys, worker[j].wallets[k] # None
        PROVE  worker'[j].wallets[k] # None /\ worker'[j].wallets[k].bal = worker[j].wallets[k].bal
    BY <2>1 DEF Remembers
  <2>2. \A k \in Keys : addrs[k] # None /\ addrs[k].idx # None => addrs[k].idx \in Workers
    BY <1>0 DEF TypeOK, ForgingWalletAddress
  <2>. QED
    BY <1>0, <2>1, <2>2 DEF LastBalanceWins, Underway
<1>. QED
  BY <1>1, <1>2, <1>3

\* The work reaches a worker.
LEMMA DistributorInvariant ==
  ASSUME ForgingInvariant, NEW i \in Workers, DistributorSends(i)
  PROVE  ForgingInvariant'
<1>0. TypeOK /\ StakedFitsWork /\ Handed /\ worker \in [Workers -> Worker]
  BY Workshop DEF ForgingInvariant
<1>1. /\ dist.work \in Tips /\ dist' = [dist EXCEPT !.left = @ \ {i}]
      /\ worker' = [worker EXCEPT ![i] = NewWork(@, dist.work)]
      /\ UNCHANGED <<chain, updates, feed, sync, calls, last, addrs, load, seen, todo, queue, ask, hand, pub>>
  BY <1>0 DEF DistributorSends, Handed, wallet
<1>2. NewWork(worker[i], dist.work) \in Worker /\ FitsWork(NewWork(worker[i], dist.work)) /\ Remembers(worker[i], NewWork(worker[i], dist.work))
  BY <1>0, <1>1, NewWorkFits
<1>3. /\ worker' \in [Workers -> Worker] /\ \A j \in Workers : j # i => worker'[j] = worker[j]
      /\ worker'[i] = NewWork(worker[i], dist.work)
  BY <1>0, <1>1, <1>2
<1>4. TypeOK'
  <2>1. dist' \in [work : Block, left : SUBSET Workers]
    BY <1>0, <1>1 DEF TypeOK
  <2>. QED
    BY <1>0, <1>1, <1>3, <2>1 DEF TypeOK, Worker
<1>5. Handed'
  BY <1>0, <1>1 DEF Handed, TypeOK, GetBalance
<1>6. pub'.sol # None => FitsBlock(pub'.sol)
  BY <1>0, <1>1 DEF StakedFitsWork
<1>. QED
  BY <1>1, <1>2, <1>3, <1>4, <1>5, <1>6, WorkerMoved DEF ForgingInvariant

\* A solution is for the work of the worker, which has its nonce.
LEMMA FindSolutionInvariant ==
  ASSUME ForgingInvariant, NEW i \in Workers, NEW k \in Keys, FindSolution(i, k)
  PROVE  ForgingInvariant'
<1>0. TypeOK /\ StakedFitsWork /\ Handed /\ worker \in [Workers -> Worker]
  BY Workshop DEF ForgingInvariant
<1>. DEFINE w == worker[i]
            a == worker[i].wallets[k]
<1>1. PICK n \in MinimumStake..a.amount :
         worker' = [worker EXCEPT ![i].sol = [tip |-> w.work, key |-> k, amount |-> n, bal |-> a.bal, nonce |-> a.nonce]]
  BY DEF FindSolution
<1>2. UNCHANGED <<chain, updates, feed, sync, calls, dist, last, addrs, load, seen, todo, queue, ask, hand, pub>> /\ k \in w.staked
  BY DEF FindSolution, wallet
<1>3. w \in Worker /\ FitsWork(w)
  BY <1>0 DEF StakedFitsWork
<1>4. w.work \in Tips /\ a \in ForgingWorkerThreadAddress /\ a.nonce = w.work /\ a.amount \in Nat /\ a.bal \in Balance
  BY <1>2, <1>3 DEF FitsWork, Worker, Block, ForgingWorkerThreadAddress
<1>5. n \in Nat /\ n >= MinimumStake
  BY <1>4, ForgingAssumption
<1>6. PICK sol \in ForgingSolution : /\ sol.tip = w.work /\ sol.key = k /\ FitsBlock(sol)
                                     /\ worker' = [worker EXCEPT ![i].sol = sol]
  <2>. DEFINE new == [tip |-> w.work, key |-> k, amount |-> n, bal |-> a.bal, nonce |-> a.nonce]
  <2>1. new \in ForgingSolution
    BY <1>4, <1>5 DEF ForgingSolution, Block
  <2>2. new.tip = w.work /\ new.key = k /\ FitsBlock(new)
    BY <1>4, <1>5 DEF FitsBlock
  <2>. QED
    BY <1>1, <2>1, <2>2
<1>7. /\ worker' \in [Workers -> Worker] /\ \A j \in Workers : j # i => worker'[j] = worker[j]
      /\ worker'[i].sol = sol /\ worker'[i].work = w.work /\ worker'[i].wallets = w.wallets
      /\ worker'[i].staked = w.staked /\ worker'[i].used = w.used
  BY <1>0, <1>6 DEF Worker
<1>8. FitsWork(worker'[i]) /\ Remembers(w, worker'[i])
  BY <1>2, <1>3, <1>6, <1>7 DEF FitsWork, Remembers
<1>9. TypeOK'
  BY <1>0, <1>2, <1>7 DEF TypeOK, Worker
<1>10. Handed'
  BY <1>0, <1>2 DEF Handed, GetBalance
<1>11. pub'.sol # None => FitsBlock(pub'.sol)
  BY <1>0, <1>2 DEF StakedFitsWork
<1>. QED
  BY <1>2, <1>7, <1>8, <1>9, <1>10, <1>11, WorkerMoved DEF ForgingInvariant

\* The publisher receives it; the address waits for the next work.
LEMMA SendSolutionInvariant ==
  ASSUME ForgingInvariant, NEW i \in Workers, SendSolution(i)
  PROVE  ForgingInvariant'
<1>0. TypeOK /\ StakedFitsWork /\ Handed /\ worker \in [Workers -> Worker]
  BY Workshop DEF ForgingInvariant
<1>. DEFINE w == worker[i]
<1>1. UNCHANGED <<chain, updates, feed, sync, calls, dist, last, addrs, load, seen, todo, queue, ask, hand>> /\ w.sol # None /\ pub.at = "idle"
  BY DEF SendSolution, wallet
<1>2. w \in Worker /\ FitsWork(w) /\ w.sol \in ForgingSolution /\ FitsBlock(w.sol)
  BY <1>0, <1>1 DEF StakedFitsWork, FitsWork, Worker
<1>3. PICK sol \in ForgingSolution : sol = w.sol
  BY <1>2
<1>4. sol.key \in Keys
  BY DEF ForgingSolution
<1>5. worker' = [worker EXCEPT ![i].sol = None, ![i].staked = @ \ {sol.key}, ![i].used = @ \cup {sol.key}]
  BY <1>3 DEF SendSolution
<1>6. /\ worker' \in [Workers -> Worker] /\ \A j \in Workers : j # i => worker'[j] = worker[j]
      /\ worker'[i].sol = None /\ worker'[i].work = w.work /\ worker'[i].wallets = w.wallets
      /\ worker'[i].staked = w.staked \ {sol.key} /\ worker'[i].used = w.used \cup {sol.key}
  BY <1>0, <1>4, <1>5 DEF Worker
<1>7. FitsWork(worker'[i]) /\ Remembers(w, worker'[i])
  BY <1>2, <1>6 DEF FitsWork, Remembers
<1>8. pub' = pub \/ (pub'.at = "build" /\ pub'.sol = sol /\ pub'.tip = None)
  BY <1>3 DEF SendSolution, Idle
<1>9. pub' \in [at : {"idle", "build", "send", "done"}, sol : ForgingSolution \cup {None}, tip : Block]
  BY <1>0, <1>3 DEF SendSolution, Idle, TypeOK, Block
<1>10. TypeOK'
  BY <1>0, <1>1, <1>6, <1>9 DEF TypeOK, Worker
<1>11. Handed'
  BY <1>0, <1>1, <1>8 DEF Handed, GetBalance
<1>12. pub'.sol # None => FitsBlock(pub'.sol)
  BY <1>0, <1>2, <1>3, <1>8 DEF StakedFitsWork
<1>. QED
  BY <1>1, <1>6, <1>7, <1>10, <1>11, <1>12, WorkerMoved DEF ForgingInvariant

\* The publisher: the stake it checked is there as long as the tip is the same.
LEMMA PublisherInvariant ==
  ASSUME ForgingInvariant, Publisher
  PROVE  ForgingInvariant'
<1>0. TypeOK /\ StakedFitsWork /\ Handed /\ pub \in [at : {"idle", "build", "send", "done"}, sol : ForgingSolution \cup {None}, tip : Block]
  BY DEF ForgingInvariant, TypeOK
<1>1. UNCHANGED <<feed, sync, calls, dist, addrs, load, seen, todo, queue, ask, hand, worker>>
  BY DEF Publisher, Build, AddForged, Published, wallet
<1>2. /\ chain.tip \in Tips /\ chain.acc \in [Tips -> [Keys -> Balance]] /\ chain.tip \in Nat
      /\ updates \in [done : Seq(Tips), failed : BOOLEAN] /\ last \in Block
  BY <1>0, TipFacts DEF TypeOK
<1>. DEFINE Good == /\ chain' \in [tip : Tips, acc : [Tips -> [Keys -> Balance]]]
                    /\ updates' \in [done : Seq(Tips), failed : BOOLEAN] /\ last' \in Block
                    /\ pub' \in [at : {"idle", "build", "send", "done"}, sol : ForgingSolution \cup {None}, tip : Block]
                    /\ pub'.sol # None => FitsBlock(pub'.sol)
                    /\ pub'.at # "idle" => pub'.sol \in ForgingSolution
                    /\ pub'.at = "done" => pub'.tip \in Tips
                    /\ pub'.at = "send" => /\ UNCHANGED chain /\ pub'.sol.tip = chain.tip
                                           /\ GetBalance(pub'.sol.key) \in Nat /\ GetBalance(pub'.sol.key) >= pub'.sol.amount
<1>3. Idle \in [at : {"idle", "build", "send", "done"}, sol : ForgingSolution \cup {None}, tip : Block] /\ Idle.at = "idle" /\ Idle.sol = None
  BY DEF Idle, Block
<1>4. ASSUME Build PROVE Good
  <2>1. UNCHANGED <<chain, updates, last>> /\ chain \in [tip : Tips, acc : [Tips -> [Keys -> Balance]]] /\ pub.at = "build"
    BY <1>0, <1>4 DEF Build, TypeOK
  <2>2. CASE pub' = Idle
    BY <1>2, <1>3, <2>1, <2>2
  <2>3. CASE pub' # Idle
    <3>1. /\ pub' = [pub EXCEPT !.at = "send"] /\ pub.sol.tip = chain.tip
          /\ GetBalance(pub.sol.key) \in Nat /\ GetBalance(pub.sol.key) >= pub.sol.amount
      BY <1>4, <2>3 DEF Build
    <3>2. pub'.at = "send" /\ pub'.sol = pub.sol /\ pub' \in [at : {"idle", "build", "send", "done"}, sol : ForgingSolution \cup {None}, tip : Block]
      BY <1>0, <3>1
    <3>3. pub.sol \in ForgingSolution /\ (pub.sol # None => FitsBlock(pub.sol))
      BY <1>0, <2>1 DEF Handed, StakedFitsWork
    <3>. QED
      BY <1>2, <2>1, <3>1, <3>2, <3>3
  <2>. QED
    BY <2>2, <2>3
<1>5. ASSUME AddForged PROVE Good
  <2>1. pub.at = "send" /\ UNCHANGED last /\ pub.sol \in ForgingSolution
    BY <1>0, <1>5 DEF AddForged, Handed
  <2>2. CASE pub.sol.tip = chain.tip /\ chain.tip < LastTip
    <3>1. PICK sol \in ForgingSolution : sol = pub.sol
      BY <2>1
    <3>. DEFINE acc == chain.acc[chain.tip]
                paid == [acc EXCEPT ![sol.key] = @ - sol.amount]
    <3>2. acc[sol.key] \in Nat /\ sol.amount \in Nat /\ acc[sol.key] >= sol.amount /\ sol.key \in Keys /\ acc \in [Keys -> Balance]
      BY <1>0, <1>2, <2>1, <2>2, <3>1 DEF Handed, GetBalance, ForgingSolution
    <3>3. paid \in [Keys -> Balance]
      <4>1. acc[sol.key] - sol.amount \in Nat
        BY <3>2
      <4>. QED
        BY <3>2, <4>1 DEF Balance
    <3>4. chain.tip + 1 \in Tips
      BY <1>2, <2>2, ForgingAssumption, TipFacts DEF Tips
    <3>. HIDE DEF paid
    <3>5. /\ chain' = [tip |-> chain.tip + 1, acc |-> [t \in Tips |-> IF t > chain.tip THEN paid ELSE chain.acc[t]]]
          /\ updates' = [updates EXCEPT !.done = Append(@, chain.tip + 1)]
          /\ pub' = [pub EXCEPT !.at = "done", !.tip = chain.tip + 1]
      BY <1>5, <2>2, <3>1 DEF AddForged, paid
    <3>6. chain' \in [tip : Tips, acc : [Tips -> [Keys -> Balance]]]
      BY <1>2, <3>3, <3>4, <3>5
    <3>7. updates' \in [done : Seq(Tips), failed : BOOLEAN]
      <4>1. Append(updates.done, chain.tip + 1) \in Seq(Tips)
        BY <1>2, <3>4
      <4>. QED
        BY <1>2, <3>5, <4>1
    <3>8. /\ pub' \in [at : {"idle", "build", "send", "done"}, sol : ForgingSolution \cup {None}, tip : Block]
          /\ pub'.at = "done" /\ pub'.sol = pub.sol /\ pub'.tip \in Tips
      BY <1>0, <3>4, <3>5 DEF Block
    <3>. QED
      BY <1>0, <1>2, <2>1, <3>6, <3>7, <3>8 DEF StakedFitsWork
  <2>3. CASE ~(pub.sol.tip = chain.tip /\ chain.tip < LastTip)
    <3>1. pub' = Idle /\ UNCHANGED chain /\ updates' = [updates EXCEPT !.failed = TRUE]
      BY <1>5, <2>3 DEF AddForged
    <3>2. chain \in [tip : Tips, acc : [Tips -> [Keys -> Balance]]] /\ updates' \in [done : Seq(Tips), failed : BOOLEAN]
      BY <1>0, <1>2, <3>1 DEF TypeOK
    <3>. QED
      BY <1>2, <1>3, <2>1, <3>1, <3>2
  <2>. QED
    BY <2>2, <2>3
<1>6. ASSUME Published PROVE Good
  <2>1. pub' = Idle /\ last' \in Block /\ UNCHANGED <<chain, updates>>
    BY <1>0, <1>6 DEF Published
  <2>2. chain \in [tip : Tips, acc : [Tips -> [Keys -> Balance]]]
    BY <1>0 DEF TypeOK
  <2>. QED
    BY <1>2, <1>3, <2>1, <2>2
<1>7. Good
  BY <1>4, <1>5, <1>6 DEF Publisher
<1>8. TypeOK'
  BY <1>0, <1>1, <1>7 DEF TypeOK
<1>9. StakedFitsWork'
  BY <1>0, <1>1, <1>7 DEF StakedFitsWork
<1>10. Handed'
  <2>1. pub'.at = "send" => pub'.sol.tip <= chain'.tip
    BY <1>2, <1>7
  <2>. QED
    BY <1>0, <1>1, <1>7, <2>1 DEF Handed, GetBalance
<1>. QED
  BY <1>1, <1>8, <1>9, <1>10, WalletKept DEF ForgingInvariant

-----------------------------------------------------------------------------
\* AddWallet only reads the account.
LEMMA AddWalletInvariant ==
  ASSUME ForgingInvariant, NEW k \in Keys, NEW remove \in BOOLEAN, AddWallet(k, remove)
  PROVE  ForgingInvariant'
<1>0. TypeOK /\ StakedFitsWork /\ Handed
  BY DEF ForgingInvariant
<1>1. UNCHANGED <<chain, updates, feed, sync, calls, dist, last, addrs, load, seen, todo, queue, hand, worker, pub>>
  BY DEF AddWallet, wallet
<1>2. ask' \in [msg : Ask \cup {None}, left : Nat]
  <2>1. GetBalance(k) \in Balance
    BY <1>0 DEF GetBalance, TypeOK
  <2>2. [key |-> k, remove |-> remove, bal |-> GetBalance(k)] \in Ask
    BY <2>1 DEF Ask
  <2>3. ask.left - 1 \in Nat
    BY <1>0 DEF AddWallet, TypeOK
  <2>. QED
    BY <2>2, <2>3 DEF AddWallet
<1>3. TypeOK' /\ StakedFitsWork' /\ Handed'
  BY <1>0, <1>1, <1>2 DEF TypeOK, StakedFitsWork, Handed, GetBalance
<1>. QED
  BY <1>1, <1>3, WalletKept DEF ForgingInvariant

\* The worker with the fewest addresses exists.
LEMMA SmallestExists ==
  ASSUME NEW S \in SUBSET Nat, S # {}
  PROVE  \E x \in S : \A y \in S : x <= y
<1>1. PICK x \in S : \A y \in S : ~(<<y, x>> \in OpToRel(<, Nat))
  BY NatLessThanWellFounded, WFMin
<1>2. \A y \in S : ~(y < x)
  BY <1>1 DEF OpToRel
<1>. QED
  BY <1>2

\* updateAccountToForgingWorkers gives every address a worker: its own, or the one with the fewest.
LEMMA AssignsWorker ==
  ASSUME TypeOK, NEW a \in ForgingWalletAddress
  PROVE  Assign(a) \in Workers
<1>1. CASE a.idx # None
  BY <1>1 DEF Assign, ForgingWalletAddress
<1>2. CASE a.idx = None
  <2>. DEFINE loads == {load[w] : w \in Workers}
  <2>1. loads \in SUBSET Nat /\ loads # {}
    <3>1. load \in [Workers -> Nat] /\ Workers # {}
      BY ForgingAssumption DEF TypeOK
    <3>. QED
      BY <3>1
  <2>2. PICK low \in loads : \A n \in loads : low <= n
    BY <2>1, SmallestExists
  <2>. DEFINE least == {w \in Workers : load[w] = low}
  <2>3. least \in SUBSET Nat /\ least # {}
    BY ForgingAssumption
  <2>4. PICK w \in least : \A v \in least : w <= v
    BY <2>3, SmallestExists
  <2>5. \A v \in Workers : load[w] < load[v] \/ (load[w] = load[v] /\ w <= v)
    <3>1. ASSUME NEW v \in Workers PROVE load[w] < load[v] \/ (load[w] = load[v] /\ w <= v)
      <4>1. load[v] \in Nat /\ low \in Nat /\ low <= load[v] /\ load[w] = low
        BY <2>1, <2>2
      <4>2. CASE load[v] = low
        BY <2>4, <4>1, <4>2
      <4>3. CASE load[v] # low
        BY <4>1, <4>3
      <4>. QED
        BY <4>2, <4>3
    <3>. QED
      BY <3>1
  <2>. QED
    BY <1>2, <2>5 DEF Assign
<1>. QED
  BY <1>1, <1>2

\* The addresses a worker has been assigned
Mine(i) == {k \in Keys : addrs[k] # None /\ addrs[k].idx = i}

\* The wallet tells of a new balance: the address has a worker, and its entry is queued.
LEMMA UpdateAccountInvariant ==
  ASSUME ForgingInvariant, NEW k \in Keys, NEW a \in ForgingWalletAddress, UpdateAccount(k, a),
         a.idx = None => ~Assigned(k),
         a.idx # None => Assigned(k) /\ a.idx = addrs[k].idx,
         UNCHANGED <<hand, worker>>
  PROVE  /\ addrs' \in [Keys -> ForgingWalletAddress \cup {None}] /\ load' \in [Workers -> Nat]
         /\ queue' \in [Keys -> Clone \cup {None}]
         /\ \A x \in Keys : addrs[x] # None => addrs'[x] \in ForgingWalletAddress
         /\ Mail' /\ LastBalanceWins' /\ LoadIsCounted'
<1>0. TypeOK /\ Mail /\ LastBalanceWins /\ LoadIsCounted
  BY DEF ForgingInvariant
<1>1. PICK idx \in Workers : idx = Assign(a)
  BY <1>0, AssignsWorker
<1>. DEFINE new == [a EXCEPT !.idx = idx]
            msg == [key |-> k, bal |-> a.bal, idx |-> idx, chain |-> a.chain]
<1>2. new \in ForgingWalletAddress /\ new # None /\ new.idx = idx /\ new.bal = a.bal
  <2>1. new \in ForgingWalletAddress /\ new.idx = idx /\ new.bal = a.bal
    BY <1>1 DEF ForgingWalletAddress
  <2>. QED
    BY <2>1, NilAssumption
<1>3. msg \in Clone /\ msg # None /\ msg.key = k /\ Tells(msg, new)
  <2>1. msg \in Clone
    BY <1>1 DEF Clone, ForgingWalletAddress
  <2>. QED
    BY <1>2, <2>1, NilAssumption DEF Tells
<1>4. /\ addrs' = [addrs EXCEPT ![k] = new] /\ queue' = [queue EXCEPT ![k] = msg]
      /\ load' = IF a.idx = None THEN [load EXCEPT ![idx] = @ + 1] ELSE load
  BY <1>1 DEF UpdateAccount
<1>5. a.idx # None => idx = a.idx
  BY <1>1 DEF Assign
<1>. HIDE DEF new, msg
<1>6. /\ addrs' \in [Keys -> ForgingWalletAddress \cup {None}] /\ addrs'[k] = new
      /\ \A x \in Keys : x # k => addrs'[x] = addrs[x]
      /\ queue' \in [Keys -> Clone \cup {None}] /\ queue'[k] = msg /\ \A x \in Keys : x # k => queue'[x] = queue[x]
      /\ load' \in [Workers -> Nat]
  BY <1>0, <1>1, <1>2, <1>3, <1>4 DEF TypeOK
<1>7. Mail'
  BY <1>0, <1>2, <1>3, <1>6 DEF Mail, Assigned
<1>8. LastBalanceWins'
  BY <1>0, <1>3, <1>6 DEF LastBalanceWins, Underway
<1>9. LoadIsCounted'
  <2>1. \A i \in Workers : IsFiniteSet(Mine(i)) /\ load[i] = Cardinality(Mine(i)) /\ load[i] \in Nat
    <3>1. \A i \in Workers : Mine(i) \in SUBSET Keys
      BY DEF Mine
    <3>. QED
      BY <1>0, <3>1, FS_Subset, ForgingAssumption DEF LoadIsCounted, Mine, TypeOK
  <2>2. CASE a.idx = None
    <3>1. \A i \in Workers : k \notin Mine(i)
      BY <1>0, <2>2 DEF Mine, Assigned, TypeOK, ForgingWalletAddress
    <3>2. Mine(idx)' = Mine(idx) \cup {k} /\ \A i \in Workers : i # idx => Mine(i)' = Mine(i)
      BY <1>1, <1>2, <1>6, <3>1 DEF Mine
    <3>3. Cardinality(Mine(idx) \cup {k}) = Cardinality(Mine(idx)) + 1
      BY <1>1, <2>1, <3>1, FS_AddElement
    <3>4. load'[idx] = load[idx] + 1 /\ \A i \in Workers : i # idx => load'[i] = load[i]
      BY <1>0, <1>1, <1>4, <2>2 DEF TypeOK
    <3>5. \A i \in Workers : load'[i] = Cardinality(Mine(i)')
      BY <2>1, <3>2, <3>3, <3>4
    <3>. QED
      BY <3>5 DEF LoadIsCounted, Mine
  <2>3. CASE a.idx # None
    <3>1. \A i \in Workers : Mine(i)' = Mine(i)
      BY <1>0, <1>2, <1>5, <1>6, <2>3, NilAssumption DEF Mine, Assigned
    <3>2. load' = load
      BY <1>4, <2>3
    <3>. QED
      BY <2>1, <3>1, <3>2 DEF LoadIsCounted, Mine
  <2>. QED
    BY <2>2, <2>3
<1>. QED
  BY <1>2, <1>6, <1>7, <1>8, <1>9

\* The wallet gives an address back: the worker forgets it, and so does the load.
LEMMA RemoveAccountInvariant ==
  ASSUME ForgingInvariant, NEW k \in Keys, RemoveAccount(k), UNCHANGED hand, pub' = pub
  PROVE  /\ worker' \in [Workers -> Worker]
         /\ addrs' \in [Keys -> ForgingWalletAddress \cup {None}] /\ load' \in [Workers -> Nat]
         /\ UNCHANGED queue
         /\ StakedFitsWork' /\ Mail' /\ LastBalanceWins' /\ LoadIsCounted'
<1>0. TypeOK /\ StakedFitsWork /\ Mail /\ LastBalanceWins /\ LoadIsCounted /\ worker \in [Workers -> Worker]
  BY Workshop DEF ForgingInvariant
<1>1. CASE ~(addrs[k] # None /\ addrs[k].idx # None)
  <2>1. UNCHANGED <<addrs, load, queue, hand, worker>>
    BY <1>1 DEF RemoveAccount
  <2>. QED
    BY <1>0, <2>1, WalletKept DEF StakedFitsWork, TypeOK
<1>2. CASE addrs[k] # None /\ addrs[k].idx # None
  <2>1. PICK i \in Workers : i = addrs[k].idx
    BY <1>0, <1>2 DEF TypeOK, ForgingWalletAddress
  <2>2. /\ worker' = [worker EXCEPT ![i] = RemoveWalletAddr(@, k)] /\ load' = [load EXCEPT ![i] = @ - 1]
        /\ addrs' = [addrs EXCEPT ![k].idx = None] /\ UNCHANGED queue
    BY <1>2, <2>1 DEF RemoveAccount
  <2>3. addrs[k] \in ForgingWalletAddress
    BY <1>0, <1>2 DEF TypeOK
  <2>4. /\ addrs' \in [Keys -> ForgingWalletAddress \cup {None}] /\ addrs'[k].idx = None
        /\ \A x \in Keys : x # k => addrs'[x] = addrs[x]
    BY <1>0, <2>2, <2>3 DEF TypeOK, ForgingWalletAddress
  <2>. DEFINE v == RemoveWalletAddr(worker[i], k)
  <2>5. v \in Worker /\ FitsWork(v) /\ \A x \in Keys : x # k => v.wallets[x] = worker[i].wallets[x]
    BY <1>0, RemoveWalletAddrFits DEF StakedFitsWork
  <2>. HIDE DEF v
  <2>6. worker' \in [Workers -> Worker] /\ worker'[i] = v /\ \A j \in Workers : j # i => worker'[j] = worker[j]
    BY <1>0, <2>2, <2>5 DEF v
  <2>7. StakedFitsWork'
    BY <1>0, <2>5, <2>6 DEF StakedFitsWork
  <2>8. Mail'
    BY <1>0, <2>2, <2>4, ForgingAssumption DEF Mail, Assigned
  <2>9. LastBalanceWins'
    <3>1. ASSUME NEW j \in Workers, NEW x \in Keys, x # k PROVE worker'[j].wallets[x] = worker[j].wallets[x]
      BY <2>5, <2>6, <3>1
    <3>2. \A x \in Keys : addrs[x] # None /\ addrs[x].idx # None => addrs[x].idx \in Workers
      BY <1>0 DEF TypeOK, ForgingWalletAddress
    <3>. QED
      BY <1>0, <2>2, <2>4, <3>1, <3>2 DEF LastBalanceWins, Underway
  <2>10. LoadIsCounted' /\ load' \in [Workers -> Nat]
    <3>1. \A j \in Workers : IsFiniteSet(Mine(j)) /\ load[j] = Cardinality(Mine(j)) /\ load[j] \in Nat
      <4>1. \A j \in Workers : Mine(j) \in SUBSET Keys
        BY DEF Mine
      <4>. QED
        BY <1>0, <4>1, FS_Subset, ForgingAssumption DEF LoadIsCounted, Mine, TypeOK
    <3>2. k \in Mine(i) /\ None \notin Workers
      BY <1>2, <2>1, ForgingAssumption DEF Mine
    <3>3. Mine(i)' = Mine(i) \ {k} /\ \A j \in Workers : j # i => Mine(j)' = Mine(j)
      BY <2>1, <2>4, <3>2 DEF Mine
    <3>4. IsFiniteSet(Mine(i) \ {k}) /\ Cardinality(Mine(i) \ {k}) = Cardinality(Mine(i)) - 1
      BY <3>1, <3>2, FS_RemoveElement
    <3>5. load'[i] = load[i] - 1 /\ load[i] - 1 \in Nat
      <4>1. load[i] - 1 \in Nat
        BY <3>1, <3>4, FS_CardinalityType
      <4>. QED
        BY <1>0, <2>2, <4>1 DEF TypeOK
    <3>6. load' \in [Workers -> Nat] /\ \A j \in Workers : j # i => load'[j] = load[j]
      BY <1>0, <2>2, <3>5 DEF TypeOK
    <3>7. \A j \in Workers : load'[j] = Cardinality(Mine(j)')
      BY <3>1, <3>3, <3>4, <3>5, <3>6
    <3>. QED
      BY <3>6, <3>7 DEF LoadIsCounted, Mine
  <2>. QED
    BY <2>2, <2>4, <2>6, <2>7, <2>8, <2>9, <2>10
<1>. QED
  BY <1>1, <1>2

\* The wallet takes what AddWallet and RemoveWallet sent.
LEMMA WalletTakesAskInvariant ==
  ASSUME ForgingInvariant, WalletTakesAsk
  PROVE  ForgingInvariant'
<1>0. TypeOK /\ StakedFitsWork /\ Handed /\ Mail /\ LastBalanceWins /\ LoadIsCounted /\ worker \in [Workers -> Worker]
  BY Workshop DEF ForgingInvariant
<1>1. UNCHANGED <<chain, updates, feed, sync, calls, dist, last, seen, todo, hand, pub>> /\ todo = {}
  BY DEF WalletTakesAsk
<1>2. PICK m \in Ask : m = ask.msg
  BY <1>0 DEF WalletTakesAsk, TypeOK
<1>3. m.key \in Keys /\ m.bal \in Balance
  BY DEF Ask
<1>4. ask' \in [msg : Ask \cup {None}, left : Nat]
  BY <1>0 DEF WalletTakesAsk, TypeOK
<1>5. Handed'
  BY <1>0, <1>1 DEF Handed, GetBalance
<1>. DEFINE Good == /\ worker' \in [Workers -> Worker]
                    /\ addrs' \in [Keys -> ForgingWalletAddress \cup {None}] /\ load' \in [Workers -> Nat]
                    /\ queue' \in [Keys -> Clone \cup {None}]
                    /\ StakedFitsWork' /\ Mail' /\ LastBalanceWins' /\ LoadIsCounted'
<1>6. ASSUME RemoveAccount(m.key)
      PROVE  Good
  BY <1>0, <1>1, <1>3, <1>6, RemoveAccountInvariant DEF TypeOK
<1>7. ASSUME UNCHANGED <<worker, addrs, load, queue>>
      PROVE  Good
  <2>1. Mail' /\ LastBalanceWins' /\ LoadIsCounted'
    BY <1>1, <1>7, WalletKept
  <2>2. StakedFitsWork'
    BY <1>0, <1>1, <1>7 DEF StakedFitsWork
  <2>. QED
    BY <1>0, <1>7, <2>1, <2>2 DEF TypeOK
<1>8. ASSUME addrs[m.key] = None, m.bal # None, UNCHANGED worker,
             UpdateAccount(m.key, [bal |-> m.bal, idx |-> None, chain |-> seen])
      PROVE  Good
  <2>0. [bal |-> m.bal, idx |-> None, chain |-> seen] \in ForgingWalletAddress
    BY <1>0, <1>3 DEF ForgingWalletAddress, TypeOK
  <2>1. PICK a \in ForgingWalletAddress : a = [bal |-> m.bal, idx |-> None, chain |-> seen]
    BY <2>0
  <2>2. ~Assigned(m.key)
    BY <1>8, NilAssumption DEF Assigned
  <2>3. UpdateAccount(m.key, a)
    BY <1>8, <2>1
  <2>4. /\ addrs' \in [Keys -> ForgingWalletAddress \cup {None}] /\ load' \in [Workers -> Nat]
        /\ queue' \in [Keys -> Clone \cup {None}]
        /\ Mail' /\ LastBalanceWins' /\ LoadIsCounted'
    BY <1>1, <1>3, <1>8, <2>1, <2>2, <2>3, UpdateAccountInvariant
  <2>5. StakedFitsWork'
    BY <1>0, <1>1, <1>8 DEF StakedFitsWork
  <2>. QED
    BY <1>0, <1>8, <2>4, <2>5
<1>9. Good
  BY <1>2, <1>6, <1>7, <1>8 DEF WalletTakesAsk
<1>10. TypeOK'
  BY <1>0, <1>1, <1>4, <1>9 DEF TypeOK, Worker
<1>. QED
  BY <1>5, <1>9, <1>10 DEF ForgingInvariant

\* The wallet hears of a block, and updates the addresses one after the other.
LEMMA WalletTakesUpdateInvariant ==
  ASSUME ForgingInvariant, WalletTakesUpdate
  PROVE  ForgingInvariant'
<1>0. TypeOK /\ StakedFitsWork /\ Handed
  BY DEF ForgingInvariant
<1>1. UNCHANGED <<chain, updates, sync, calls, dist, last, addrs, load, queue, ask, hand, worker, pub>>
  BY DEF WalletTakesUpdate
<1>2. feed' \in Seq(Tips) /\ seen' \in Tips
  BY <1>0 DEF WalletTakesUpdate, TypeOK
<1>3. todo' \subseteq {k \in Keys : addrs[k] # None}
  BY DEF WalletTakesUpdate
<1>4. TypeOK' /\ StakedFitsWork'
  BY <1>0, <1>1, <1>2, <1>3 DEF TypeOK, StakedFitsWork, Block
<1>5. Handed'
  BY <1>0, <1>1, <1>2, <1>3 DEF Handed, GetBalance, TypeOK
<1>. QED
  BY <1>1, <1>4, <1>5, WalletKept DEF ForgingInvariant

\* The wallet updates one of the addresses that the block changed.
LEMMA WalletUpdatesInvariant ==
  ASSUME ForgingInvariant, NEW k \in Keys, WalletUpdates(k)
  PROVE  ForgingInvariant'
<1>0. TypeOK /\ StakedFitsWork /\ Handed
  BY DEF ForgingInvariant
<1>1. UNCHANGED <<chain, updates, feed, sync, calls, dist, last, seen, ask, hand, worker, pub>> /\ todo' = todo \ {k} /\ k \in todo
  BY DEF WalletUpdates
<1>2. addrs[k] \in ForgingWalletAddress /\ seen \in Tips
  BY <1>0, <1>1 DEF Handed
<1>3. chain.acc[seen][k] \in Balance
  BY <1>0, <1>2 DEF TypeOK
<1>31. [addrs[k] EXCEPT !.bal = chain.acc[seen][k], !.chain = seen] \in ForgingWalletAddress
  BY <1>2, <1>3 DEF ForgingWalletAddress, Block
<1>32. [addrs[k] EXCEPT !.bal = chain.acc[seen][k], !.chain = seen].idx = addrs[k].idx
  BY <1>2 DEF ForgingWalletAddress
<1>4. PICK a \in ForgingWalletAddress :
         a = [addrs[k] EXCEPT !.bal = chain.acc[seen][k], !.chain = seen] /\ a.idx = addrs[k].idx
  BY <1>31, <1>32
<1>5. /\ a.idx = None => ~Assigned(k)
      /\ a.idx # None => Assigned(k) /\ a.idx = addrs[k].idx
  BY <1>2, <1>4, ForgingAssumption DEF Assigned, ForgingWalletAddress
<1>6. UpdateAccount(k, a)
  BY <1>4 DEF WalletUpdates
<1>7. /\ addrs' \in [Keys -> ForgingWalletAddress \cup {None}] /\ load' \in [Workers -> Nat]
      /\ queue' \in [Keys -> Clone \cup {None}]
      /\ \A x \in Keys : addrs[x] # None => addrs'[x] \in ForgingWalletAddress
      /\ Mail' /\ LastBalanceWins' /\ LoadIsCounted'
  BY <1>1, <1>5, <1>6, UpdateAccountInvariant
<1>8. TypeOK' /\ StakedFitsWork'
  BY <1>0, <1>1, <1>7 DEF TypeOK, StakedFitsWork
<1>9. Handed'
  BY <1>0, <1>1, <1>7, NilAssumption DEF Handed, GetBalance, TypeOK
<1>. QED
  BY <1>7, <1>8, <1>9 DEF ForgingInvariant

\* The decryptor takes an entry, which is the last one for its address.
LEMMA DecryptorTakesInvariant ==
  ASSUME ForgingInvariant, NEW k \in Keys, DecryptorTakes(k)
  PROVE  ForgingInvariant'
<1>0. TypeOK /\ StakedFitsWork /\ Handed /\ Mail /\ LastBalanceWins /\ LoadIsCounted
  BY DEF ForgingInvariant
<1>1. /\ hand = None /\ queue[k] # None /\ hand' = queue[k] /\ queue' = [queue EXCEPT ![k] = None]
      /\ UNCHANGED <<chain, updates, feed, sync, calls, dist, last, addrs, load, seen, todo, ask, worker, pub>>
  BY DEF DecryptorTakes
<1>2. queue' \in [Keys -> Clone \cup {None}] /\ queue'[k] = None /\ \A x \in Keys : x # k => queue'[x] = queue[x]
  BY <1>0, <1>1 DEF TypeOK
<1>3. hand' \in Clone /\ hand'.key = k
  BY <1>0, <1>1 DEF TypeOK, Mail
<1>4. TypeOK' /\ StakedFitsWork' /\ Handed'
  BY <1>0, <1>1, <1>2, <1>3 DEF TypeOK, StakedFitsWork, Handed, GetBalance
<1>5. Mail'
  BY <1>0, <1>1, <1>2, <1>3 DEF Mail, Assigned
<1>6. LastBalanceWins'
  BY <1>0, <1>1, <1>2, <1>3 DEF LastBalanceWins, Underway
<1>7. LoadIsCounted'
  BY <1>0, <1>1 DEF LoadIsCounted
<1>. QED
  BY <1>4, <1>5, <1>6, <1>7 DEF ForgingInvariant

\* The worker is told: if nothing newer is queued, it knows what the wallet has.
LEMMA DecryptorSendsInvariant ==
  ASSUME ForgingInvariant, DecryptorSends
  PROVE  ForgingInvariant'
<1>0. TypeOK /\ StakedFitsWork /\ Handed /\ Mail /\ LastBalanceWins /\ LoadIsCounted /\ worker \in [Workers -> Worker]
  BY Workshop DEF ForgingInvariant
<1>1. hand # None /\ hand' = None /\ UNCHANGED <<chain, updates, feed, sync, calls, dist, last, addrs, load, seen, todo, queue, ask, pub>>
  BY DEF DecryptorSends, wallet
<1>2. PICK m \in Clone : m = hand
  BY <1>0, <1>1 DEF TypeOK
<1>3. m.idx \in Workers /\ m.key \in Keys
  BY DEF Clone
<1>. DEFINE v == NewWalletAddress(worker[m.idx], m)
<1>4. /\ v \in Worker /\ FitsWork(v) /\ v.wallets[m.key] # None /\ v.wallets[m.key].bal = m.bal
      /\ \A k \in Keys : k # m.key => v.wallets[k] = worker[m.idx].wallets[k]
  BY <1>0, <1>3, NewWalletAddressFits DEF StakedFitsWork
<1>. HIDE DEF v
<1>5. worker' \in [Workers -> Worker] /\ worker'[m.idx] = v /\ \A j \in Workers : j # m.idx => worker'[j] = worker[j]
  BY <1>0, <1>2, <1>3, <1>4 DEF DecryptorSends, v
<1>6. TypeOK' /\ Handed'
  BY <1>0, <1>1, <1>5 DEF TypeOK, Handed, GetBalance, Worker
<1>7. StakedFitsWork'
  BY <1>0, <1>1, <1>4, <1>5 DEF StakedFitsWork
<1>8. Mail' /\ LoadIsCounted'
  BY <1>0, <1>1 DEF Mail, LoadIsCounted, Assigned
<1>9. LastBalanceWins'
  <2>1. ASSUME NEW k \in Keys, addrs[k] # None, addrs[k].idx # None, queue[k] = None
        PROVE  LET a == worker'[addrs[k].idx].wallets[k] IN a # None /\ a.bal = addrs[k].bal
    <3>1. Assigned(k) /\ addrs[k].idx \in Workers
      BY <1>0, <2>1 DEF Assigned, TypeOK, ForgingWalletAddress
    <3>2. CASE k = m.key
      <4>1. m.idx = addrs[k].idx /\ m.bal = addrs[k].bal
        BY <1>0, <1>1, <1>2, <2>1, <3>1, <3>2 DEF Mail, Tells
      <4>. QED
        BY <1>4, <1>5, <3>2, <4>1
    <3>3. CASE k # m.key
      <4>1. worker'[addrs[k].idx].wallets[k] = worker[addrs[k].idx].wallets[k]
        BY <1>4, <1>5, <3>1, <3>3
      <4>2. ~Underway(k)
        BY <1>2, <2>1, <3>3 DEF Underway
      <4>. QED
        BY <1>0, <2>1, <4>1, <4>2 DEF LastBalanceWins
    <3>. QED
      BY <3>2, <3>3
  <2>. QED
    BY <1>1, <2>1 DEF LastBalanceWins, Underway
<1>. QED
  BY <1>6, <1>7, <1>8, <1>9 DEF ForgingInvariant

-----------------------------------------------------------------------------
\* At the start nothing is forged and the wallet is empty.
LEMMA ForgingInit == Init => ForgingInvariant
<1>. SUFFICES ASSUME Init PROVE ForgingInvariant
  OBVIOUS
<1>1. PICK acc \in [Keys -> Balances] : chain = [tip |-> FirstTip, acc |-> [t \in Tips |-> acc]]
  BY DEF Init
<1>2. chain \in [tip : Tips, acc : [Tips -> [Keys -> Balance]]]
  <2>1. FirstTip \in Tips /\ acc \in [Keys -> Balance]
    BY ForgingAssumption DEF Tips, Balance
  <2>. QED
    BY <1>1, <2>1
<1>3. sync \in SyncData
  BY SyncAssumption DEF Init, CreateBlockchainSync, SyncData
<1>4. /\ calls \in [updater : {"idle", "store", "create", "work"}, loaded : SyncData \cup {None},
                    work : Block, ticker : SyncData \cup {None}, listener : BOOLEAN]
      /\ dist \in [work : Block, left : SUBSET Workers] /\ last \in Block /\ seen \in Block /\ todo \in SUBSET Keys
      /\ updates \in [done : Seq(Tips), failed : BOOLEAN] /\ feed \in Seq(Tips)
  BY DEF Init, Block
<1>5. /\ addrs \in [Keys -> ForgingWalletAddress \cup {None}] /\ load \in [Workers -> Nat]
      /\ queue \in [Keys -> Clone \cup {None}] /\ hand \in Clone \cup {None}
  BY DEF Init
<1>6. worker \in [Workers -> Worker]
  BY DEF Init, Worker, Block
<1>7. /\ ask \in [msg : Ask \cup {None}, left : Nat]
      /\ pub \in [at : {"idle", "build", "send", "done"}, sol : ForgingSolution \cup {None}, tip : Block]
  BY ForgingAssumption DEF Init, Idle, Block
<1>8. TypeOK
  BY <1>2, <1>3, <1>4, <1>5, <1>6, <1>7 DEF TypeOK, Worker
<1>9. StakedFitsWork
  BY DEF Init, StakedFitsWork, FitsWork, Idle
<1>10. Handed /\ Mail /\ LastBalanceWins
  BY DEF Init, Handed, Mail, LastBalanceWins, Idle
<1>11. LoadIsCounted
  <2>1. \A i \in Workers : {k \in Keys : addrs[k] # None /\ addrs[k].idx = i} = {}
    BY DEF Init
  <2>. QED
    BY <2>1, FS_EmptySet DEF Init, LoadIsCounted
<1>. QED
  BY <1>8, <1>9, <1>10, <1>11 DEF ForgingInvariant

\* Every step keeps the invariant.
LEMMA ForgingNext == ForgingInvariant /\ [Next]_vars => ForgingInvariant'
<1>. SUFFICES ASSUME ForgingInvariant, [Next]_vars PROVE ForgingInvariant'
  OBVIOUS
<1>1. CASE NewBlock \/ Updater \/ Ticker \/ FirstWork \/ Publisher
  BY <1>1, NewBlockInvariant, UpdaterInvariant, PublisherInvariant
<1>2. CASE Distributor
  BY <1>2, DistributorInvariant DEF Distributor
<1>3. ASSUME NEW i \in Workers, SendSolution(i) \/ \E k \in Keys : FindSolution(i, k) PROVE ForgingInvariant'
  BY <1>3, SendSolutionInvariant, FindSolutionInvariant
<1>4. CASE WalletThread
  BY <1>4, WalletTakesAskInvariant, WalletTakesUpdateInvariant, WalletUpdatesInvariant DEF WalletThread
<1>5. CASE Decryptor
  BY <1>5, DecryptorTakesInvariant, DecryptorSendsInvariant DEF Decryptor
<1>6. ASSUME NEW k \in Keys, NEW remove \in BOOLEAN, AddWallet(k, remove) PROVE ForgingInvariant'
  BY <1>6, AddWalletInvariant
<1>7. CASE UNCHANGED vars
  <2>1. UNCHANGED <<chain, updates, feed, sync, calls, dist, last, addrs, load, seen, todo, ask, queue, hand, worker, pub>>
    BY <1>7 DEF vars
  <2>2. TypeOK' /\ StakedFitsWork' /\ Handed'
    BY <2>1 DEF ForgingInvariant, TypeOK, StakedFitsWork, Handed, GetBalance
  <2>. QED
    BY <2>1, <2>2, WalletKept DEF ForgingInvariant
<1>. QED
  BY <1>1, <1>2, <1>3, <1>4, <1>5, <1>6, <1>7 DEF Next

\* Whatever the order in which works, balances, removals and solutions arrive: what a worker
\* stakes fits its work, an older balance never overtakes a newer one, the load counts what
\* was assigned, and no block of this node locks more stake than the account has (forge,
\* runProcessUpdates, runDecryptBalanceAndNotifyWorkers, publishSolution).
THEOREM ForgingCorrect == Spec => []ForgingIsSound
<1>1. ForgingInvariant => ForgingIsSound
  BY DEF ForgingInvariant, ForgingIsSound
<1>. QED
  BY <1>1, ForgingInit, ForgingNext, PTL DEF Spec
=============================================================================
