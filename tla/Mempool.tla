------------------------------ MODULE Mempool ------------------------------
(***************************************************************************)
(* The mempool worker and the threads that talk to it.                     *)
(*                                                                         *)
(* One goroutine owns the pending transactions.  It holds a read-only view *)
(* of the store while it tries the transactions one after the other on a   *)
(* private data storage, and so prepares the list the forger will include. *)
(* Every other thread reaches it over unbuffered channels:                 *)
(*   - AddBlocks suspends it before it writes the store and lets it go on  *)
(*     afterwards, then queues an update;                                  *)
(*   - the updates thread passes the update on and gives the worker its    *)
(*     next work, the new tip of the chain;                                *)
(*   - the mempool-update thread takes the transactions of the new blocks  *)
(*     out of the mempool and puts those of the undone blocks back;        *)
(*   - when the chain gets in sync another thread hands out work once;     *)
(*   - clients submit transactions over a buffered channel and wait.       *)
(* A rendezvous on an unbuffered channel is one action of the two threads. *)
(*                                                                         *)
(* The transactions are those of one account: a transaction can be         *)
(* included when its nonce is the account's, and including it adds one, so *)
(* a data storage is the nonce it holds.  Chain gives the blocks that each *)
(* successive tip of the chain holds; besides these transactions a block   *)
(* holds, last, its staking reward transaction.                            *)
(***************************************************************************)
EXTENDS Integers, SequencesExt

CONSTANTS
    Txs,        \* the transactions
    Staking,    \* those that pay a forger its staking reward
    Nonce,      \* the nonce of each
    Fee,        \* the fee per byte of each
    Size,       \* the size of each
    Clients,    \* the callers of AddTxsToMempool
    Submits,    \* the transaction each client submits
    Chain,      \* Chain[n + 1]: the blocks of the chain at tip n, each a list of transactions
    MaxSize,    \* BLOCK_MAX_SIZE
    MaxErrors,  \* bound: calls of AddBlocks that fail
    AddBuffer,  \* capacity of addTransactionCn
    None        \* nil

Tips == 0..(Len(Chain) - 1)

ASSUME NoneAssumption == None \notin Int \cup Txs
ASSUME TxsAssumption == Nonce \in [Txs -> Nat] /\ Fee \in [Txs -> Nat] /\ Size \in [Txs -> Nat]
ASSUME StakingAssumption == Staking \subseteq Txs
ASSUME ClientsAssumption == Submits \in [Clients -> Txs \ Staking]
ASSUME ChainAssumption == Chain \in Seq(Seq(Seq(Txs))) /\ Chain # <<>>
\* A block with a transaction that its chain has is not valid.
ASSUME OnceAssumption ==
    \A n \in DOMAIN Chain : \A g, h \in DOMAIN Chain[n] :
        \A i \in DOMAIN Chain[n][g], j \in DOMAIN Chain[n][h] :
            Chain[n][g][i] = Chain[n][h][j] => g = h /\ i = j
ASSUME BoundsAssumption == MaxSize \in Nat /\ MaxErrors \in Nat /\ AddBuffer \in Nat \ {0}

VARIABLES
    \* AddBlocks
    chainPc,   \* "idle", "suspend", "update", "continue", "notify"
    chainErr,  \* did the call under way fail?
    tip,       \* the tip in the store and in ChainData
    errors,    \* failed calls so far
    updates,   \* updatesCn
    \* the updates thread, the thread that waits for the sync, the mempool-update thread
    updater,   \* [pc, tip, id]: what it is about to hand to the worker
    started,   \* the chain is in sync
    syncer,    \* [pc, tip, id]
    news,      \* updatesMempool, a multicast queue
    pooler,    \* [pc, update, txs]: what it does, for which update, what it is about to insert
    dropped,   \* history: what the worker dropped since that thread last looked at the mempool
    \* the clients
    client,    \* "new", "waiting", "accepted", "refused"
    addCn,     \* addTransactionCn
    \* the mempool
    results,   \* every MempoolResult made, in the order of mempool.result.Store
    pool,      \* MempoolTxs.txsMap
    \* the worker
    at,        \* "outer": between views of the store; "inner": inside one
    view,      \* the tip the view shows
    suspended,
    work,      \* None, or the result the work fills
    storage,   \* dataStorage: None, or the nonce in it
    txsList, listIndex, txsMap,
    included,  \* includedTxs
    includedTotalSize

chainVars == <<chainPc, chainErr, tip, errors, updates>>
threadVars == <<updater, started, syncer, news, pooler, dropped>>
clientVars == <<client, addCn>>
poolVars == <<txsList, listIndex, txsMap, pool>>
workVars == <<work, storage, included, includedTotalSize>>
viewVars == <<at, view, suspended>>
vars == <<chainVars, threadVars, clientVars, results, poolVars, workVars, viewVars>>

\* What stands in a list at some of its places, in its order.
At(list, places) ==
    [n \in 1..Cardinality(places) |->
        list[CHOOSE i \in places : Cardinality({j \in places : j <= i}) = n]]
Without(list, gone) == At(list, {i \in DOMAIN list : list[i] \notin gone})

\* The transactions on the chain at tip n, and the nonce they leave the account with.
Held == [n \in Tips |-> UNION {Range(Chain[n + 1][h]) : h \in DOMAIN Chain[n + 1]}]
NonceAt == [n \in Tips |-> Cardinality(Held[n] \ Staking)]

\* The heights at which tip n has the block that its predecessor has; the transactions of the
\* blocks that it brings, and of those it undoes: from the highest block down, without those
\* that moved to a new block.
Kept(n) ==
    {h \in DOMAIN Chain[n] \cap DOMAIN Chain[n + 1] :
        \A g \in 1..h : Chain[n][g] = Chain[n + 1][g]}
Inserted ==
    [n \in Tips \ {0} |-> UNION {Range(Chain[n + 1][h]) : h \in DOMAIN Chain[n + 1] \ Kept(n)}]
UndonePlaces(n) ==
    UNION {{<<h, i>> : i \in {j \in DOMAIN Chain[n][h] : Chain[n][h][j] \notin Inserted[n]}} :
           h \in DOMAIN Chain[n] \ Kept(n)}
UpTo(p, places) == {q \in places : q[1] > p[1] \/ (q[1] = p[1] /\ q[2] <= p[2])}
Undone ==
    [n \in Tips \ {0} |->
        [k \in 1..Cardinality(UndonePlaces(n)) |->
            LET p == CHOOSE q \in UndonePlaces(n) : Cardinality(UpTo(q, UndonePlaces(n))) = k
            IN  Chain[n][p[1]][p[2]]]]

NoUpdate == [ok |-> FALSE, tip |-> None, inserted |-> {}, removed |-> <<>>]
NoPool == [pc |-> "wait", update |-> NoUpdate, txs |-> <<>>]
Waiting == [pc |-> "wait", tip |-> None, id |-> None]

-----------------------------------------------------------------------------
(* AddBlocks, as the mempool sees it *)

BeginAddBlocks ==
    /\ chainPc = "idle"
    /\ tip + 1 \in Tips \/ errors < MaxErrors
    /\ chainPc' = "suspend"
    /\ UNCHANGED <<chainErr, tip, errors, updates, threadVars, clientVars, results,
                   poolVars, workVars, viewVars>>

\* The store transaction commits and the chain data is replaced, or neither happens.
UpdateStore ==
    /\ chainPc = "update"
    /\ \/ /\ tip + 1 \in Tips
          /\ tip' = tip + 1
          /\ chainErr' = FALSE
          /\ UNCHANGED errors
       \/ /\ errors < MaxErrors
          /\ errors' = errors + 1
          /\ chainErr' = TRUE
          /\ UNCHANGED tip
    /\ chainPc' = "continue"
    /\ UNCHANGED <<updates, threadVars, clientVars, results, poolVars, workVars, viewVars>>

\* The update is queued, with the transactions Blockchain!UpdateIsExact speaks of.
Notify ==
    /\ chainPc = "notify"
    /\ updates' = Append(updates,
           IF chainErr THEN NoUpdate
           ELSE [ok |-> TRUE, tip |-> tip,
                 inserted |-> Inserted[tip], removed |-> Undone[tip]])
    /\ chainPc' = "idle"
    /\ UNCHANGED <<chainErr, tip, errors, threadVars, clientVars, results, poolVars, workVars, viewVars>>

-----------------------------------------------------------------------------
(* The threads that follow the chain *)

Successes(works) == At(works, {i \in DOMAIN works : works[i].ok})

\* processBlockchainUpdatesQueue takes every queued update, broadcasts the successful ones
\* and, once in sync, prepares the next work: the last success, or "continue".
TakeUpdates ==
    LET good == Successes(updates)
    IN  /\ updater.pc = "wait"
        /\ updates # <<>>
        /\ updates' = <<>>
        /\ news' = news \o good
        /\ updater' = IF ~started THEN Waiting
                      ELSE IF good = <<>> THEN [pc |-> "send", tip |-> None, id |-> None]
                      ELSE [pc |-> "store", tip |-> good[Len(good)].tip, id |-> None]
        /\ UNCHANGED <<chainPc, chainErr, tip, errors, started, syncer, pooler, dropped, clientVars,
                       results, poolVars, workVars, viewVars>>

\* UpdateWork publishes a new empty result, then sends the work.
NewResult(n) == Append(results, [tip |-> n, txs |-> <<>>])

UpdaterStoresResult ==
    /\ updater.pc = "store"
    /\ results' = NewResult(updater.tip)
    /\ updater' = [updater EXCEPT !.pc = "send", !.id = Len(results')]
    /\ UNCHANGED <<chainVars, started, syncer, news, pooler, dropped, clientVars, poolVars, workVars, viewVars>>

\* resetBlocksChanged finds the chain in sync; the thread of InitForging is told and reads
\* the chain data.
SyncStarts ==
    /\ ~started
    /\ started' = TRUE
    /\ UNCHANGED <<chainVars, updater, syncer, news, pooler, dropped, clientVars, results, poolVars,
                   workVars, viewVars>>

SyncerReads ==
    /\ started
    /\ syncer.pc = "wait"
    /\ syncer' = [pc |-> "store", tip |-> tip, id |-> None]
    /\ UNCHANGED <<chainVars, updater, started, news, pooler, dropped, clientVars, results, poolVars,
                   workVars, viewVars>>

SyncerStoresResult ==
    /\ syncer.pc = "store"
    /\ results' = NewResult(syncer.tip)
    /\ syncer' = [syncer EXCEPT !.pc = "send", !.id = Len(results')]
    /\ UNCHANGED <<chainVars, updater, started, news, pooler, dropped, clientVars, poolVars, workVars, viewVars>>

\* processBlockchainUpdateMempool: remove what the new blocks hold, then insert what the
\* undone ones held.
PoolerTakes ==
    /\ pooler.pc = "wait"
    /\ news # <<>>
    /\ news' = Tail(news)
    /\ pooler' = [pc |-> IF Head(news).inserted # {} THEN "remove" ELSE "filter",
                  update |-> Head(news), txs |-> <<>>]
    /\ UNCHANGED <<chainVars, updater, started, syncer, dropped, clientVars, results, poolVars,
                   workVars, viewVars>>

\* Mutant of Processed: the transaction before the staking one is left out too.
ProcessedShort(txs) ==
    LET stop == {i \in DOMAIN txs : txs[i] \in Staking}
    IN  Without(IF stop = {} THEN txs ELSE SubSeq(txs, 1, Min(stop) - 2), pool)

\* processTxsToMempool leaves out what the mempool has; at a staking transaction, which it
\* does not accept, it returns and leaves the rest of the list out.
Processed(txs) ==
    LET stop == {i \in DOMAIN txs : txs[i] \in Staking}
    IN  Without(IF stop = {} THEN txs ELSE SubSeq(txs, 1, Min(stop) - 1), pool)

PoolerFilters ==
    /\ pooler.pc = "filter"
    /\ pooler' = IF pooler.update.removed = <<>> THEN NoPool
                 ELSE [pooler EXCEPT !.pc = "insert", !.txs = Processed(pooler.update.removed)]
    /\ UNCHANGED <<chainVars, updater, started, syncer, news, dropped, clientVars, results, poolVars,
                   workVars, viewVars>>

\* AddTxsToMempool: a transaction the mempool has is not sent; for another the client waits.
Submit(c) ==
    /\ client[c] = "new"
    /\ IF Submits[c] \in pool
       THEN client' = [client EXCEPT ![c] = "accepted"] /\ UNCHANGED addCn
       ELSE /\ Len(addCn) < AddBuffer
            /\ addCn' = Append(addCn, c)
            /\ client' = [client EXCEPT ![c] = "waiting"]
    /\ UNCHANGED <<chainVars, threadVars, results, poolVars, workVars, viewVars>>

-----------------------------------------------------------------------------
(* The worker *)

\* sort.Slice by fee per byte, then nonce: any order that respects both, as it is not stable.
Before(a, b) == Fee[a] < Fee[b] \/ (Fee[a] = Fee[b] /\ Nonce[a] < Nonce[b])

Sortings(list) ==
    {s \in [DOMAIN list -> Range(list)] :
        /\ \A i, j \in DOMAIN list : s[i] = s[j] => i = j
        /\ \A i, j \in DOMAIN list : i < j => ~Before(s[j], s[i])}

\* After an event of the outer select the worker opens a view if it has work and may run.
Resume(w, s) ==
    /\ suspended' = s
    /\ at' = IF w # None /\ ~s THEN "inner" ELSE "outer"
    /\ view' = IF w # None /\ ~s THEN (IF at = "inner" THEN view ELSE tip) ELSE None

\* The suspend signal: inside a view the worker returns from it.
Suspend ==
    /\ chainPc = "suspend"
    /\ chainPc' = "update"
    /\ suspended' = TRUE
    /\ at' = "outer"
    /\ view' = None
    /\ UNCHANGED <<chainErr, tip, errors, updates, threadVars, clientVars, results, poolVars, workVars>>

\* Mutant of Continue: the work is dropped although the chain did not change.
ContinueWithoutWork ==
    /\ at = "outer"
    /\ chainPc = "continue"
    /\ chainPc' = "notify"
    /\ work' = None
    /\ Resume(work', FALSE)
    /\ UNCHANGED <<chainErr, tip, errors, updates, threadVars, clientVars, results, poolVars,
                   storage, included, includedTotalSize>>

\* Mutant of Continue: the signal is received inside a view.
ContinueInView ==
    /\ at = "inner"
    /\ chainPc = "continue"
    /\ chainPc' = "notify"
    /\ work' = IF chainErr THEN work ELSE None
    /\ Resume(work', FALSE)
    /\ UNCHANGED <<chainErr, tip, errors, updates, threadVars, clientVars, results, poolVars,
                   storage, included, includedTotalSize>>

\* The continue signal is only received outside a view.
Continue ==
    /\ at = "outer"
    /\ chainPc = "continue"
    /\ chainPc' = "notify"
    /\ work' = IF chainErr THEN work ELSE None
    /\ Resume(work', FALSE)
    /\ UNCHANGED <<chainErr, tip, errors, updates, threadVars, clientVars, results, poolVars,
                   storage, included, includedTotalSize>>

\* Mutants of ResetNow: the data storage of the last block is used on; the work is not taken.
ResetNowKeepsStorage(id) ==
    IF id = None THEN UNCHANGED <<workVars, poolVars>>
    ELSE /\ work' = id
         /\ included' = <<>>
         /\ includedTotalSize' = 0
         /\ listIndex' = 0
         /\ txsList' \in Sortings(txsList)
         /\ UNCHANGED <<storage, txsMap, pool>>
ResetNowKeepsWork(id) ==
    IF id = None THEN UNCHANGED <<workVars, poolVars>>
    ELSE /\ work' = IF work = None THEN id ELSE work
         /\ storage' = None
         /\ included' = <<>>
         /\ includedTotalSize' = 0
         /\ listIndex' = 0
         /\ txsList' \in Sortings(txsList)
         /\ UNCHANGED <<txsMap, pool>>

\* resetNow: a work without a hash ("continue") changes nothing.
ResetNow(id) ==
    IF id = None THEN UNCHANGED <<workVars, poolVars>>
    ELSE /\ work' = id
         /\ storage' = None
         /\ included' = <<>>
         /\ includedTotalSize' = 0
         /\ listIndex' = 0
         /\ txsList' \in Sortings(txsList)
         /\ UNCHANGED <<txsMap, pool>>

WorkFromUpdater ==
    /\ updater.pc = "send"
    /\ ResetNow(updater.id)
    /\ Resume(work', suspended)
    /\ updater' = Waiting
    /\ UNCHANGED <<chainVars, started, syncer, news, pooler, dropped, clientVars, results>>

WorkFromSyncer ==
    /\ syncer.pc = "send"
    /\ ResetNow(syncer.id)
    /\ Resume(work', suspended)
    /\ syncer' = [Waiting EXCEPT !.pc = "done"]
    /\ UNCHANGED <<chainVars, updater, started, news, pooler, dropped, clientVars, results>>

\* listIndex without the removed transactions before it.
IndexWithout(gone) == listIndex - Cardinality({i \in 1..listIndex : txsList[i] \in gone})

\* removeTxs: the list keeps its order, and listIndex its place in it.
RemoveTxs ==
    LET gone == pooler.update.inserted \cap txsMap
    IN  /\ pooler.pc = "remove"
        /\ txsMap' = txsMap \ gone
        /\ pool' = pool \ gone
        /\ txsList' = Without(txsList, gone)
        /\ listIndex' = IndexWithout(gone)
        /\ pooler' = [pooler EXCEPT !.pc = "filter"]
        /\ Resume(work, suspended)
        /\ UNCHANGED <<chainVars, updater, started, syncer, news, dropped, clientVars, results, workVars>>

\* Mutant of Missing: the worker's map is not looked at.
MissingAll == pooler.txs

\* The transactions of the undone blocks that the worker does not have.
Missing == Without(pooler.txs, txsMap)

\* insertTxs appends the transactions the worker does not have.
InsertTxs ==
    /\ pooler.pc = "insert"
    /\ txsList' = txsList \o Missing
    /\ txsMap' = txsMap \cup Range(Missing)
    /\ pool' = pool \cup Range(Missing)
    /\ pooler' = NoPool
    /\ dropped' = {}
    /\ Resume(work, suspended)
    /\ UNCHANGED <<chainVars, updater, started, syncer, news, clientVars, results,
                   listIndex, workVars>>

\* Trying a transaction: the data storage is opened on the view if there is none.
Storage == IF storage = None THEN NonceAt[view] ELSE storage
Exists(t) == t \in Held[view]                \* "txHash:"
Includable(t) == Nonce[t] = Storage          \* IncludeTransaction
Fits(t) == includedTotalSize + Size[t] < MaxSize

\* An includable transaction that fits is committed to the data storage and handed to the
\* forger; one that does not fit is rolled back.
Include(t) ==
    IF Fits(t)
    THEN /\ included' = Append(included, t)
         /\ includedTotalSize' = includedTotalSize + Size[t]
         /\ results' = [results EXCEPT ![work].txs = included']
         /\ storage' = Storage + 1
    ELSE /\ storage' = Storage
         /\ UNCHANGED <<included, includedTotalSize, results>>

\* The next transaction of the list. One that is on the chain stays where it is; one that
\* cannot be included leaves the mempool.
TryNext ==
    LET t == txsList[listIndex + 1]
    IN  /\ at = "inner"
        /\ listIndex < Len(txsList)
        /\ \/ /\ Exists(t)
              /\ listIndex' = listIndex + 1
              /\ storage' = Storage
              /\ UNCHANGED <<txsList, txsMap, pool, dropped, included, includedTotalSize, results>>
           \/ /\ ~Exists(t) /\ Includable(t)
              /\ listIndex' = listIndex + 1
              /\ Include(t)
              /\ UNCHANGED <<txsList, txsMap, pool, dropped>>
           \/ /\ ~Exists(t) /\ ~Includable(t)
              /\ storage' = Storage
              /\ txsList' = SubSeq(txsList, 1, listIndex) \o SubSeq(txsList, listIndex + 2, Len(txsList))
              /\ txsMap' = txsMap \ {t}
              /\ pool' = pool \ {t}
              /\ dropped' = IF pooler.pc = "insert" THEN dropped \cup {t} ELSE dropped
              /\ UNCHANGED <<listIndex, included, includedTotalSize, results>>
        /\ UNCHANGED <<chainVars, updater, started, syncer, news, pooler, clientVars, work, viewVars>>

\* A submitted transaction is received when the list is exhausted; the client is answered.
TryNew ==
    LET c == Head(addCn)
        t == Submits[c]
        Answer(a) == client' = [client EXCEPT ![c] = a]
    IN  /\ at = "inner"
        /\ listIndex = Len(txsList)
        /\ addCn # <<>>
        /\ addCn' = Tail(addCn)
        /\ \/ /\ t \in txsMap
              /\ Answer("accepted")
              /\ UNCHANGED <<poolVars, included, includedTotalSize, results>>
              /\ storage' = Storage
           \/ /\ t \notin txsMap
              /\ Exists(t) \/ ~Includable(t)
              /\ Answer("refused")
              /\ UNCHANGED <<poolVars, included, includedTotalSize, results>>
              /\ storage' = Storage
           \/ /\ t \notin txsMap
              /\ ~Exists(t) /\ Includable(t)
              /\ Include(t)
              /\ listIndex' = listIndex + 1
              /\ txsList' = Append(txsList, t)
              /\ txsMap' = txsMap \cup {t}
              /\ pool' = pool \cup {t}
              /\ Answer("accepted")
        /\ UNCHANGED <<chainVars, threadVars, work, viewVars>>

-----------------------------------------------------------------------------
Init ==
    /\ chainPc = "idle" /\ chainErr = FALSE /\ tip = 0 /\ errors = 0 /\ updates = <<>>
    /\ updater = Waiting /\ started = FALSE /\ syncer = Waiting /\ news = <<>>
    /\ pooler = NoPool /\ dropped = {}
    /\ client = [c \in Clients |-> "new"] /\ addCn = <<>>
    /\ results = <<>>
    /\ txsList = <<>> /\ listIndex = 0 /\ txsMap = {} /\ pool = {}
    /\ work = None /\ storage = None /\ included = <<>> /\ includedTotalSize = 0
    /\ at = "outer" /\ view = None /\ suspended = FALSE

AddBlocksThread == BeginAddBlocks \/ UpdateStore \/ Notify
UpdatesThread == TakeUpdates \/ UpdaterStoresResult
SyncThread == SyncStarts \/ SyncerReads \/ SyncerStoresResult
MempoolUpdateThread == PoolerTakes \/ PoolerFilters
Worker ==
    \/ Suspend \/ Continue \/ WorkFromUpdater \/ WorkFromSyncer
    \/ RemoveTxs \/ InsertTxs \/ TryNext \/ TryNew

Next ==
    \/ AddBlocksThread \/ UpdatesThread \/ SyncThread \/ MempoolUpdateThread
    \/ \E c \in Clients : Submit(c)
    \/ Worker

Spec == Init /\ [][Next]_vars

\* Goroutines that can run do run, and a select whose cases stay ready picks each of them.
\* Nothing makes AddBlocks be called or a client submit.
Fairness ==
    /\ WF_vars(UpdateStore) /\ WF_vars(Notify)
    /\ WF_vars(UpdatesThread) /\ WF_vars(SyncThread) /\ WF_vars(MempoolUpdateThread)
    /\ WF_vars(Suspend) /\ WF_vars(Continue)
    /\ WF_vars(WorkFromUpdater) /\ WF_vars(WorkFromSyncer)
    /\ WF_vars(RemoveTxs) /\ WF_vars(InsertTxs)
    /\ WF_vars(TryNext) /\ WF_vars(TryNew)

FairSpec == Spec /\ Fairness

-----------------------------------------------------------------------------
(* Properties *)

Update == [ok : BOOLEAN, tip : Tips \cup {None}, inserted : SUBSET Txs, removed : Seq(Txs)]
Courier == [pc : {"wait", "store", "send", "done"}, tip : Tips \cup {None}, id : Nat \cup {None}]

\* Every variable has its type.
TypeOK ==
    /\ chainPc \in {"idle", "suspend", "update", "continue", "notify"}
    /\ chainErr \in BOOLEAN /\ started \in BOOLEAN /\ suspended \in BOOLEAN
    /\ tip \in Tips /\ errors \in 0..MaxErrors
    /\ updates \in Seq(Update) /\ news \in Seq(Update)
    /\ updater \in Courier /\ syncer \in Courier
    /\ pooler \in [pc : {"wait", "remove", "filter", "insert"}, update : Update, txs : Seq(Txs)]
    /\ client \in [Clients -> {"new", "waiting", "accepted", "refused"}]
    /\ addCn \in Seq(Clients)
    /\ results \in Seq([tip : Tips, txs : Seq(Txs)])
    /\ pool \subseteq Txs /\ txsMap \subseteq Txs /\ dropped \subseteq Txs
    /\ at \in {"outer", "inner"} /\ view \in Tips \cup {None}
    /\ work \in (1..Len(results)) \cup {None}
    /\ storage \in Nat \cup {None}
    /\ txsList \in Seq(Txs) /\ listIndex \in Nat /\ included \in Seq(Txs)
    /\ includedTotalSize \in Nat

\* The worker's list, its map and the shared MempoolTxs hold the same transactions, each
\* once, and listIndex is a place in the list: no transaction is tried twice or skipped
\* because others were removed, inserted or dropped around it.
BooksAgree ==
    /\ Range(txsList) = txsMap
    /\ txsMap = pool
    /\ Len(txsList) = Cardinality(txsMap)
    /\ listIndex \in 0..Len(txsList)

\* The worker never looks at the store through a view older than the last committed block:
\* AddBlocks suspends it before it writes.
ViewIsCurrent == at = "inner" => view = tip /\ work # None /\ ~suspended

\* What the forger is given for the current tip can be included on top of it in that order:
\* nothing in it is on the chain, conflicts with it or was tried on an older data storage.
ResultApplies ==
    \A r \in DOMAIN results :
        results[r].tip = tip =>
            \A i \in DOMAIN results[r].txs :
                /\ results[r].txs[i] \notin Held[tip]
                /\ Nonce[results[r].txs[i]] = NonceAt[tip] + i - 1

\* A result is append only: the forger, which reads it at any moment, never sees a list
\* from which a transaction was taken.
ResultAppendOnly ==
    [][\A r \in DOMAIN results :
          /\ r \in DOMAIN results'
          /\ results'[r].tip = results[r].tip
          /\ IsPrefix(results[r].txs, results'[r].txs)]_vars

\* No thread has anything left to do for the chain.
Quiet ==
    /\ chainPc = "idle" /\ updates = <<>> /\ news = <<>>
    /\ updater.pc = "wait" /\ pooler.pc = "wait" /\ syncer.pc = "done"

\* Once every update is delivered the mempool holds nothing that is on the chain, though
\* transactions are submitted, inserted and removed while the chain changes under them.
QuietIsClean == Quiet => pool \cap Held[tip] = {}

\* The transactions of the highest block that a fork takes off the chain go back to the
\* mempool, unless the worker, which had one of them when the thread looked, drops it before
\* the others are inserted (processTxsToMempool stops at the staking transaction that ends
\* that block: those of lower undone blocks are lost).
UndoneReturn ==
    [][InsertTxs =>
          \A i \in DOMAIN pooler.update.removed :
              Range(SubSeq(pooler.update.removed, 1, i)) \cap Staking = {} =>
                  pooler.update.removed[i] \in pool' \cup dropped]_vars

\* AddBlocks always gets its suspend and continue signals through and returns.
AddBlocksReturns == chainPc # "idle" ~> chainPc = "idle"

\* A client that waits for an answer gets one.
ClientsAreAnswered == \A c \in Clients : client[c] = "waiting" ~> client[c] # "waiting"

\* The worker's books agree, it never reads through an old view, and what is on the chain
\* leaves the mempool, in every interleaving of the threads (processing).
PoolIsSound == TypeOK /\ BooksAgree /\ ViewIsCurrent /\ QuietIsClean
=============================================================================
