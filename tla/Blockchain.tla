----------------------------- MODULE Blockchain -----------------------------
(***************************************************************************)
(* blockchain.AddBlocks: the stored chain, its replacement by a heavier    *)
(* one, and its recovery after a crash.                                    *)
(*                                                                         *)
(* AddBlocks runs under the chain's mutex and inside one read-write store  *)
(* transaction.  It drops the blocks it already has, undoes the stored     *)
(* blocks from the tip down to the first new height, includes and saves    *)
(* the new blocks one by one, and keeps the result only if its total       *)
(* difficulty is higher than before: a batch that fails half-way is kept   *)
(* up to the last block that was saved.  The transaction commits, and then *)
(* the chain data in memory is replaced.                                   *)
(*                                                                         *)
(* A block is an identifier (its hash); Header gives its content.  The     *)
(* data storage is abstracted to the native supply and the number of       *)
(* accounts; undoing a block gives back what the block recorded (the       *)
(* promise of HashMap).  The kernel hashes are checked the way the hashes  *)
(* are and left out.  The target, and so the difficulty of the next block, *)
(* follows from the blocks before it: it is a function of the tip's hash.  *)
(***************************************************************************)
EXTENDS Integers, Sequences, FiniteSets

CONSTANTS
    Blocks,        \* the blocks (their hashes)
    Genesis,       \* GenesisData.Hash
    Txs,           \* the transactions
    None,          \* no value under a store key
    Header,        \* the content of each block
    Difficulty,    \* the difficulty of the blocks that follow a hash
    GenesisState,  \* the data storage that initializeNewChain creates
    Batches,       \* the lists of blocks that a peer's fork or the forger offers
    MaxHeight      \* bound: blocks of the stored chain

Hashes == Blocks \cup {Genesis}
Heights == 0..(MaxHeight - 1)

\* "sound" blocks pass every check; "unstaked" ones fail a check made before the supply
\* is increased, "bad" ones a later check, "early" ones are refused until the clock
\* reaches their timestamp.
Checks == {"sound", "unstaked", "bad", "early"}
State == [supply : Nat, accounts : Nat]

ASSUME NamesAssumption == Genesis \notin Blocks /\ None \notin Hashes \cup Txs \cup Int
ASSUME BoundsAssumption == MaxHeight \in Nat \ {0} /\ IsFiniteSet(Txs)
ASSUME HeaderAssumption ==
    Header \in [Blocks -> [prev : Hashes, height : Heights, txs : SUBSET Txs,
                           reward : Nat, accounts : Nat, check : Checks]]
ASSUME DifficultyAssumption == Difficulty \in [Hashes -> Nat \ {0}]
ASSUME BatchesAssumption == Batches \subseteq Seq(Blocks) \ {<<>>}
ASSUME StateAssumption == GenesisState \in State

VARIABLES
    db,        \* the store, as committed
    wr,        \* the store, as the transaction under way sees it
    pc,        \* where the process is (below)
    chainData, \* Blockchain.ChainData
    new,       \* newChainData
    batch,     \* blocksComplete, the blocks still to include
    forging,   \* calledByForging
    unwound,   \* removedBlocksHeights
    removed,   \* removedTxHashes
    changes,   \* allTransactionsChanges: the transactions of undone and of saved blocks
    saved,     \* savedBlock
    update     \* the lists of transactions the last update carries

vars == <<db, wr, pc, chainData, new, batch, forging, unwound, removed, changes,
          saved, update>>

locals == <<new, batch, forging, unwound, removed, changes, saved>>

ChainData == [hash : Hashes, prev : Hashes, height : 0..MaxHeight, difficulty : Nat,
              txCount : Nat, accounts : Nat, supply : Nat, selfForged : Nat]

Store == [hashAt : [Heights -> Blocks \cup {None}],    \* "blockHash_ByHeight<h>"
          txsAt : [Heights -> Blocks \cup {None}],     \* "blockTxs<h>", named by the block
          byHash : SUBSET Blocks,                      \* "block_ByHash", "blockHeight_ByHash"
          txs : SUBSET Txs,                            \* "tx:", "txHash:"
          txBlock : [Txs -> Heights \cup {None}],      \* "txBlock:"
          info : [1..MaxHeight -> ChainData \cup {None}], \* "blockchainInfo_<h>"
          tip : ChainData \cup {None},                 \* "blockchainInfo"
          state : State \cup {None},                   \* the data storage
          before : [Heights -> State \cup {None}]]     \* its ":transitions:<h>"

ASSUME NoneAssumption == None \notin ChainData \cup State

TxChanges == [inserted : SUBSET Txs, removed : SUBSET Txs]

GenesisData ==
    [hash |-> Genesis, prev |-> Genesis, height |-> 0, difficulty |-> 0, txCount |-> 0,
     accounts |-> 0, supply |-> 0, selfForged |-> 0]

EmptyStore ==
    [hashAt |-> [h \in Heights |-> None], txsAt |-> [h \in Heights |-> None],
     byHash |-> {}, txs |-> {}, txBlock |-> [t \in Txs |-> None],
     info |-> [h \in 1..MaxHeight |-> None], tip |-> None, state |-> None,
     before |-> [h \in Heights |-> None]]

NoChanges == [inserted |-> {}, removed |-> {}]

\* The stored chain: the blocks under "blockHash_ByHeight", and their transactions.
StoredBlocks(s) == {s.hashAt[h] : h \in {i \in Heights : s.hashAt[i] # None}}
ChainTxs(s) == UNION {Header[b].txs : b \in StoredBlocks(s)}

\* The variables of AddBlocks when it is not running.
Return ==
    /\ wr' = EmptyStore
    /\ new' = GenesisData
    /\ batch' = <<>>
    /\ forging' = FALSE
    /\ unwound' = <<>>
    /\ removed' = {}
    /\ changes' = NoChanges
    /\ saved' = FALSE

-----------------------------------------------------------------------------
(* Starting the node, and losing it *)

\* InitializeChain: loadBlockchain finds "blockchainInfo".
LoadBlockchain ==
    /\ pc = "boot"
    /\ db.tip # None
    /\ chainData' = db.tip
    /\ pc' = "idle"
    /\ UNCHANGED <<db, wr, locals, update>>

\* init: a transaction of its own creates the data storage of the new chain. It fails,
\* and the node does not start, when the accounts and the native asset already exist.
InitChain ==
    /\ pc = "boot"
    /\ db.tip = None
    /\ db.state = None
    /\ db' = [db EXCEPT !.state = GenesisState]
    /\ chainData' = [GenesisData EXCEPT !.accounts = GenesisState.accounts]
    /\ pc' = "save"
    /\ UNCHANGED <<wr, locals, update>>

\* saveBlockchain, in a second transaction.
SaveBlockchain ==
    /\ pc = "save"
    /\ db' = [db EXCEPT !.tip = chainData]
    /\ pc' = "idle"
    /\ UNCHANGED <<wr, chainData, locals, update>>

\* The process ends, wherever it is; the transaction under way is lost.
Crash ==
    /\ pc' = "boot"
    /\ chainData' = GenesisData
    /\ Return
    /\ update' = NoChanges
    /\ UNCHANGED db

-----------------------------------------------------------------------------
(* AddBlocks *)

\* The blocks left after "let's filter existing blocks": those after the last one that
\* is stored at its height.
Known(b) == Header[b].height < chainData.height /\ db.hashAt[Header[b].height] = b

FilterExisting(blocks) ==
    IF \E i \in DOMAIN blocks : Known(blocks[i])
    THEN LET last == CHOOSE i \in DOMAIN blocks :
                        /\ Known(blocks[i])
                        /\ \A j \in DOMAIN blocks : Known(blocks[j]) => j <= i
         IN  SubSeq(blocks, last + 1, Len(blocks))
    ELSE blocks

\* AddBlocks takes the mutex, copies the chain data, suspends the mempool, opens the
\* transaction and drops the blocks it has. A forged block is refused at once when the
\* chain already holds a forged block of that height.
AddBlocks(blocks, calledByForging) ==
    /\ pc = "idle"
    /\ ~(/\ calledByForging
         /\ Header[blocks[Len(blocks)]].height = chainData.height - 1
         /\ chainData.selfForged > 0)
    /\ new' = chainData
    /\ wr' = db
    /\ forging' = calledByForging
    /\ batch' = FilterExisting(blocks)
    /\ unwound' = <<>>
    /\ removed' = {}
    /\ changes' = NoChanges
    /\ saved' = FALSE
    /\ update' = NoChanges
    /\ pc' = IF batch' = <<>> THEN "rollback"
             ELSE IF Header[batch'[1]].height < chainData.height THEN "remove" ELSE "check"
    /\ UNCHANGED <<db, chainData>>

First == Header[batch[1]]

\* Mutant of Restored: the transitions are not read.
RestoredNothing(h) == wr.state

\* ReadTransitionalChangesFromStore: the data storage as it was before the block of height h.
Restored(h) == wr.before[h]

\* removeBlockComplete undoes the highest block not undone yet.
RemoveBlock ==
    LET h == chainData.height - 1 - Len(unwound)
        b == wr.txsAt[h]
    IN  /\ pc = "remove"
        /\ Len(unwound) < chainData.height - First.height
        /\ unwound' = <<h>> \o unwound
        /\ wr' = [wr EXCEPT !.state = Restored(h),
                            !.byHash = @ \ {wr.hashAt[h]},
                            !.hashAt[h] = None]
        /\ removed' = removed \cup Header[b].txs
        /\ changes' = [changes EXCEPT !.removed = @ \cup Header[b].txs]
        /\ UNCHANGED <<db, pc, chainData, new, batch, forging, saved, update>>

\* Every block from the first new height on is undone: the chain data of that height is loaded.
Unwound ==
    /\ pc = "remove"
    /\ Len(unwound) = chainData.height - First.height
    /\ IF First.height = 0
       THEN new' = GenesisData /\ pc' = "check"
       ELSE IF wr.info[First.height] = None
       THEN new' = new /\ pc' = "rollback"
       ELSE new' = wr.info[First.height] /\ pc' = "check"
    /\ UNCHANGED <<db, wr, chainData, batch, forging, unwound, removed, changes, saved, update>>

\* The first block must follow the chain that is left.
CheckFirst ==
    /\ pc = "check"
    /\ pc' = IF First.height = new.height /\ First.prev = new.hash THEN "include" ELSE "rollback"
    /\ UNCHANGED <<db, wr, chainData, locals, update>>

Staked(b) == Header[b].height = new.height /\ Header[b].check # "unstaked"

\* Mutant of Acceptable: the block need not follow the tip.
AcceptableUnlinked(b) == Staked(b) /\ Header[b].check \in {"sound", "early"}

\* A transaction of the chain is not included again: its nonce is used, the balances of its
\* senders have changed, or the payment it resolves is processed.
Acceptable(b) ==
    /\ Staked(b) /\ Header[b].prev = new.hash /\ Header[b].check \in {"sound", "early"}
    /\ Header[b].txs \cap ChainTxs(wr) = {}

\* The data storage after a block: its reward, its transactions and what falls due.
After(state, b) ==
    [supply |-> state.supply + Header[b].reward, accounts |-> state.accounts + Header[b].accounts]

\* newChainData once a block is included and saved.
Extended(b) ==
    [hash |-> b, prev |-> new.hash, height |-> new.height + 1,
     difficulty |-> new.difficulty + Difficulty[new.hash],
     txCount |-> new.txCount + Cardinality(Header[b].txs),
     accounts |-> new.accounts, supply |-> wr.state.supply + Header[b].reward,
     selfForged |-> new.selfForged]

\* saveBlockComplete and the saves after it. A transaction that an undone block held is
\* taken for stored and skipped.
Saved(b) ==
    LET h == Header[b].height
        fresh == Header[b].txs \ removed
    IN  [wr EXCEPT !.state = After(@, b),
                   !.before[h] = wr.state,
                   !.byHash = @ \cup {b},
                   !.hashAt[h] = b,
                   !.txsAt[h] = b,
                   !.txs = @ \cup fresh,
                   !.txBlock = [t \in Txs |-> IF t \in fresh THEN h ELSE @[t]],
                   !.info[h + 1] = Extended(b)]

IncludeBlock ==
    LET b == Head(batch)
    IN  /\ pc = "include"
        /\ batch # <<>>
        /\ Acceptable(b)
        /\ new' = Extended(b)
        /\ wr' = Saved(b)
        /\ removed' = removed \ Header[b].txs
        /\ changes' = [changes EXCEPT !.inserted = @ \cup Header[b].txs]
        /\ unwound' = IF unwound = <<>> THEN <<>> ELSE Tail(unwound)
        /\ saved' = TRUE
        /\ batch' = Tail(batch)
        /\ UNCHANGED <<db, pc, chainData, forging, update>>

\* A check fails. Past the staking checks the supply in newChainData is already increased.
RefuseBlock ==
    LET b == Head(batch)
    IN  /\ pc = "include"
        /\ batch # <<>>
        /\ ~Acceptable(b) \/ Header[b].check = "early"
        /\ new' = IF Staked(b) THEN [new EXCEPT !.supply = wr.state.supply + Header[b].reward] ELSE new
        /\ pc' = "finish"
        /\ UNCHANGED <<db, wr, chainData, batch, forging, unwound, removed, changes, saved, update>>

\* Saving the block fails (a serialization, the next target): savedBlock is false then.
SaveFails ==
    /\ pc = "include"
    /\ batch # <<>>
    /\ Acceptable(Head(batch))
    /\ new' = [new EXCEPT !.supply = wr.state.supply + Header[Head(batch)].reward]
    /\ saved' = FALSE
    /\ pc' = "finish"
    /\ UNCHANGED <<db, wr, chainData, batch, forging, unwound, removed, changes, update>>

\* Mutant of Better: a chain as heavy as the present one replaces it.
BetterOrEqual == saved /\ chainData.difficulty <= new.difficulty

Better == saved /\ chainData.difficulty < new.difficulty

Ended == pc = "finish" \/ (pc = "include" /\ batch = <<>>)

\* Mutant of Removed: the transactions that moved to another block are deleted too.
RemovedWithMoved == changes.removed

\* The transactions of the old chain that the new one does not hold.
Removed == changes.removed \ changes.inserted

\* deleteUnusedBlocksComplete for the heights undone and not saved again, the deletion of
\* the transactions the new chain does not hold, and "blockchainInfo".
Final(data) ==
    LET unused == {unwound[i] : i \in DOMAIN unwound}
        Clear(f) == [h \in Heights |-> IF h \in unused THEN None ELSE f[h]]
    IN  [wr EXCEPT !.tip = data,
                   !.before = Clear(@), !.hashAt = Clear(@), !.txsAt = Clear(@),
                   !.txs = @ \ Removed,
                   !.txBlock = [t \in Txs |-> IF t \in Removed THEN None ELSE @[t]]]

\* The new chain is heavier: the transaction commits. The number of accounts is set after
\* the chain data was written.
CommitBlocks ==
    LET data == [new EXCEPT !.selfForged = IF forging THEN @ + 1 ELSE 0]
    IN  /\ Ended
        /\ Better
        /\ db' = Final(data)
        /\ new' = [data EXCEPT !.accounts = wr.state.accounts]
        /\ update' = [inserted |-> changes.inserted, removed |-> Removed]
        /\ pc' = "publish"
        /\ UNCHANGED <<wr, chainData, batch, forging, unwound, removed, changes, saved>>

\* An error, or no gain in difficulty: the transaction is dropped and AddBlocks returns.
RollbackBlocks ==
    /\ pc = "rollback" \/ (Ended /\ ~Better)
    /\ pc' = "idle"
    /\ Return
    /\ UNCHANGED <<db, chainData, update>>

\* Mutant of PublishBlocks: the chain data in memory stays.
PublishNothing ==
    /\ pc = "publish"
    /\ pc' = "idle"
    /\ Return
    /\ UNCHANGED <<db, chainData, update>>

\* ChainData.Store; the mempool goes on, the update is queued and the mutex released.
PublishBlocks ==
    /\ pc = "publish"
    /\ chainData' = new
    /\ pc' = "idle"
    /\ Return
    /\ UNCHANGED <<db, update>>

-----------------------------------------------------------------------------
Init ==
    /\ db = EmptyStore
    /\ wr = EmptyStore
    /\ pc = "boot"
    /\ chainData = GenesisData
    /\ new = GenesisData
    /\ batch = <<>>
    /\ forging = FALSE
    /\ unwound = <<>>
    /\ removed = {}
    /\ changes = NoChanges
    /\ saved = FALSE
    /\ update = NoChanges

Next ==
    \/ LoadBlockchain \/ InitChain \/ SaveBlockchain \/ Crash
    \/ \E blocks \in Batches, calledByForging \in BOOLEAN :
          (calledByForging => Len(blocks) = 1) /\ AddBlocks(blocks, calledByForging)
    \/ RemoveBlock \/ Unwound \/ CheckFirst
    \/ IncludeBlock \/ RefuseBlock \/ SaveFails
    \/ CommitBlocks \/ RollbackBlocks \/ PublishBlocks

Spec == Init /\ [][Next]_vars

-----------------------------------------------------------------------------
(* Properties *)

\* Every variable has its type.
TypeOK ==
    /\ db \in Store
    /\ wr \in Store
    /\ pc \in {"boot", "save", "idle", "remove", "check", "include", "finish", "rollback", "publish"}
    /\ chainData \in ChainData
    /\ new \in ChainData
    /\ batch \in Seq(Blocks)
    /\ forging \in BOOLEAN
    /\ unwound \in Seq(Heights)
    /\ removed \subseteq Txs
    /\ changes \in TxChanges
    /\ saved \in BOOLEAN
    /\ update \in TxChanges

\* The store always holds one chain: the heights below the tip, and no other, have a
\* block, each follows the one below it, the lists by height and by hash name the same
\* blocks, and "blockchainInfo" describes the highest. Removed blocks, half-included
\* batches and crashes leave nothing behind.
StoredChainLinked ==
    db.tip # None =>
        /\ \A h \in Heights :
              IF h < db.tip.height
              THEN /\ db.hashAt[h] \in Blocks
                   /\ Header[db.hashAt[h]].height = h
                   /\ Header[db.hashAt[h]].prev = (IF h = 0 THEN Genesis ELSE db.hashAt[h - 1])
                   /\ db.txsAt[h] = db.hashAt[h]
              ELSE db.hashAt[h] = None /\ db.txsAt[h] = None /\ db.before[h] = None
        /\ db.byHash = StoredBlocks(db)
        /\ db.tip.hash = (IF db.tip.height = 0 THEN Genesis ELSE db.hashAt[db.tip.height - 1])

\* "blockchainInfo_<h>", which a fork starts from, describes the stored block below h and
\* the difficulty summed up to it, also after that height was replaced by another block.
InfoDescribesChain ==
    db.tip # None =>
        \A h \in 1..db.tip.height :
            /\ db.info[h] # None
            /\ db.info[h].hash = db.hashAt[h - 1]
            /\ db.info[h].prev = (IF h = 1 THEN Genesis ELSE db.hashAt[h - 2])
            /\ db.info[h].height = h
            /\ db.info[h].difficulty = Difficulty[db.info[h].prev]
                   + (IF h = 1 THEN 0 ELSE db.info[h - 1].difficulty)

\* A transaction is stored exactly when a stored block holds it: a fork keeps those it moves
\* to another block and deletes those it drops.
TxsAreOfChain == db.txs = ChainTxs(db)

\* The state that a store has, or recorded, at a height of its chain.
StateAt(s, h) == IF h < s.tip.height THEN s.before[h] ELSE s.state

\* The data storage is the one that the stored blocks build, whatever was undone: from the
\* state of the genesis on, each block leads from the state recorded before it to the one
\* recorded before the next, and the last block to the present one.
StateIsReplay ==
    IF db.tip = None THEN db.state \in {None, GenesisState}
    ELSE /\ StateAt(db, 0) = GenesisState
         /\ \A h \in 1..db.tip.height : StateAt(db, h) = After(StateAt(db, h - 1), db.hashAt[h - 1])

\* Between calls the chain data in memory is what a restart would load; only the number of
\* accounts, which is set after "blockchainInfo" is written, may differ.
MemoryIsStored ==
    pc = "idle" => [chainData EXCEPT !.accounts = 0] = [db.tip EXCEPT !.accounts = 0]

\* The chain is replaced only by a heavier one, and a crash never takes the node back.
DifficultyGrows ==
    [][/\ db.tip # None /\ db'.tip # db.tip => db'.tip.difficulty > db.tip.difficulty
       /\ pc = "publish" /\ pc' = "idle" => chainData'.difficulty > chainData.difficulty]_vars

\* The update tells the mempool which transactions to drop and which to take back: the
\* removed ones are those the old chain held and the new one does not, and the inserted
\* ones are of the new chain and cover all that the old one did not hold.
UpdateIsExact ==
    [][CommitBlocks =>
          /\ update'.removed = ChainTxs(db) \ ChainTxs(db')
          /\ ChainTxs(db') \ ChainTxs(db) \subseteq update'.inserted
          /\ update'.inserted \subseteq ChainTxs(db')]_vars

\* At any moment, crashes included, the store holds one whole chain: types, blocks, the chain
\* data per height and the transactions (AddBlocks, saveBlockComplete, removeBlockComplete).
ChainIsWhole == TypeOK /\ StoredChainLinked /\ InfoDescribesChain /\ TxsAreOfChain
=============================================================================
