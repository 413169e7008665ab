------------------------------ MODULE HashMap ------------------------------
(***************************************************************************)
(* The transactional map of store/hash_map: every piece of chain state     *)
(* (registrations, accounts, assets, plain accounts, pending stakes,       *)
(* conditional payments) is one HashMap over a store transaction.          *)
(*                                                                         *)
(* A HashMap keeps three layers.  Changes holds what was read or written   *)
(* since the last commit, Committed what this object committed, and the    *)
(* store transaction (Tx) what is written in the database.  A block is     *)
(* included by operations on Changes, then saved: the previous values of   *)
(* the changed keys are written under the block's height (the transitions) *)
(* and the changes are committed.  A fork is undone by reading the         *)
(* transitions back, from the highest block down, and committing once.     *)
(*                                                                         *)
(* Elements are abstracted to members of Values; Nil is the zero value of  *)
(* the element type, "no element".  A block's transitions list follows Go's *)
(* map iteration order, which is arbitrary: every order is considered.     *)
(***************************************************************************)
EXTENDS Integers, Sequences, FiniteSets

CONSTANTS
    Keys,          \* the keys of the map
    Values,        \* the elements
    Deletable,     \* the elements whose IsDeletable() is true
    Nil,           \* no element
    Indexable,     \* does the map number its elements (":list:", ":listKeys:")?
    Writable,      \* is Tx writable (the chain) or read-only (the mempool)?
    Collected,     \* is the map one of a collection, whose touched maps are
                   \* recorded per height, or one of the four plain maps?
    DrainHeight,   \* the block that empties the map (the conditional payments
                   \* due at a height), 0 for a map that is never emptied
    MaxBlocks      \* bound: blocks saved at the same time

ASSUME KeysFinite == IsFiniteSet(Keys)
ASSUME NilAssumption == Nil \notin Values /\ Nil \notin Keys /\ Nil \notin Nat
ASSUME DeletableAssumption == Deletable \subseteq Values
ASSUME FlagsAssumption == Indexable \in BOOLEAN /\ Writable \in BOOLEAN /\ Collected \in BOOLEAN
ASSUME BoundAssumption == MaxBlocks \in Nat /\ DrainHeight \in Nat

VARIABLES
    changes,        \* HashMap.Changes: status "none" where the Go map has no entry
    committed,      \* HashMap.Committed
    count,          \* HashMap.Count
    countCommitted, \* HashMap.countCommitted
    changed,        \* HashMap.changed
    store,          \* what Tx holds for this map
    transitions,    \* ":transitions:<height>" of Tx, by height
    recorded,       \* the heights whose collection keys name this map
    height,         \* blocks saved
    job,            \* what AddBlocks is doing: nothing that binds it, undoing blocks,
                    \* about to extend the shortened chain, or draining the map
    past            \* history: the stored map before each saved block

mapVars == <<changes, committed, count, countCommitted, changed>>
vars == <<changes, committed, count, countCommitted, changed, store,
          transitions, recorded, height, job, past>>

Elements == Values \cup {Nil}
Heights == 1..MaxBlocks
Slots == 0..Cardinality(Keys)

\* One recorded change: the key and the element it had (Nil: it had none).
Transition == [key : Keys, old : Elements]

Change == [status : {"none", "view", "update", "del"}, el : Elements,
           index : Nat, indexProcess : BOOLEAN]
CommittedElement == [known : BOOLEAN, el : Elements,
                     stored : {"none", "view", "update", "del"}]
Store == [map : [Keys -> Elements], exists : SUBSET Keys,
          list : [Slots -> Keys \cup {Nil}],
          listKeys : [Keys -> Nat \cup {Nil}], count : Nat]
Job == [kind : {"idle", "revert", "extend", "drain"}, todo : Seq(Transition), to : Nat]

NoChange == [status |-> "none", el |-> Nil, index |-> 0, indexProcess |-> FALSE]
View(e) == [status |-> "view", el |-> e, index |-> 0, indexProcess |-> FALSE]
NoCommitted == [known |-> FALSE, el |-> Nil, stored |-> "none"]
Idle == [kind |-> "idle", todo |-> <<>>, to |-> 0]
Extend == [kind |-> "extend", todo |-> <<>>, to |-> 0]

-----------------------------------------------------------------------------
(* What a reader of the map sees *)

\* Exists: Changes first, then Committed, then Tx.
Exists(k) ==
    IF changes[k].status # "none" THEN changes[k].el # Nil
    ELSE IF committed[k].known THEN committed[k].el # Nil
    ELSE k \in store.exists

\* Mutant of Lookup: what the object committed is not looked at.
LookupSkipsCommitted(k) ==
    IF changes[k].status # "none" THEN changes[k].el ELSE store.map[k]

\* The element Get returns, looked up in the same order.
Lookup(k) ==
    IF changes[k].status # "none" THEN changes[k].el
    ELSE IF committed[k].known THEN committed[k].el
    ELSE store.map[k]

Live == {k \in Keys : Exists(k)}

-----------------------------------------------------------------------------
(* The effect of one Update and of one Delete on Changes and Count *)

Increases(k) ==
    IF changes[k].status = "none" THEN k \notin store.exists ELSE changes[k].el = Nil

\* Mutant of Decreases: deleting what is not there is counted.
DecreasesAlways(k) ==
    IF changes[k].status = "none" THEN k \in store.exists ELSE TRUE

Decreases(k) ==
    IF changes[k].status = "none" THEN k \in store.exists ELSE changes[k].el # Nil

\* Mutant of Above: the elements numbered after a deleted one keep their index.
NeverAbove(j, k) == FALSE

\* j is in Changes with an index above that of k.
Above(j, k) == changes[j].status # "none" /\ changes[j].index > changes[k].index

DeleteEffect(k) ==
    LET c == changes[k]
        undo == Decreases(k) /\ Indexable /\ c.indexProcess  \* numbered in this batch
        give == Decreases(k) /\ Indexable /\ ~c.indexProcess \* numbered in the store
    IN  /\ count' = IF Decreases(k) THEN count - 1 ELSE count
        /\ changed' = TRUE
        /\ changes' = [j \in Keys |->
               IF j = k
               THEN [status |-> "del", el |-> Nil,
                     index |-> IF give THEN count - 1 ELSE c.index,
                     indexProcess |-> IF give THEN TRUE ELSE IF undo THEN FALSE ELSE c.indexProcess]
               ELSE IF undo /\ Above(j, k)
               THEN [changes[j] EXCEPT !.index = @ - 1]
               ELSE changes[j]]

UpdateEffect(k, v) ==
    IF v \in Deletable THEN DeleteEffect(k)
    ELSE LET c == changes[k]
             number == Increases(k) /\ Indexable
         IN  /\ count' = IF Increases(k) THEN count + 1 ELSE count
             /\ changed' = TRUE
             /\ changes' = [changes EXCEPT ![k] =
                    [status |-> "update", el |-> v,
                     index |-> IF number THEN count ELSE c.index,
                     indexProcess |-> IF number THEN TRUE ELSE c.indexProcess]]

\* CommitChanges: the deletions first, then the updates; a read-only Tx is not
\* written. Updated keys leave Changes, deleted ones stay there as views.
CommitEffect ==
    LET dels == {k \in Keys : changes[k].status = "del"}
        ups == {k \in Keys : changes[k].status = "update"}
        gone == dels \cap store.exists
        fresh == ups \ store.exists
        Numbered(S, i) == {k \in S : Indexable /\ changes[k].indexProcess /\ changes[k].index = i}
    IN  /\ committed' = [k \in Keys |->
               IF k \in dels
               THEN [known |-> TRUE, el |-> Nil, stored |-> IF k \in gone THEN "del" ELSE "view"]
               ELSE IF k \in ups
               THEN [known |-> TRUE, el |-> changes[k].el, stored |-> "update"]
               ELSE committed[k]]
        /\ changes' = [k \in Keys |->
               IF k \in ups THEN NoChange
               ELSE IF k \in dels
               THEN [changes[k] EXCEPT !.status = "view", !.indexProcess = FALSE]
               ELSE changes[k]]
        /\ countCommitted' = count
        /\ changed' = FALSE
        /\ UNCHANGED count
        /\ store' = IF ~Writable THEN store ELSE
               [map |-> [k \in Keys |-> IF k \in ups THEN changes[k].el
                                        ELSE IF k \in gone THEN Nil ELSE store.map[k]],
                exists |-> (store.exists \ gone) \cup fresh,
                list |-> [i \in Slots |->
                             IF Numbered(fresh, i) # {} THEN CHOOSE k \in Numbered(fresh, i) : TRUE
                             ELSE IF Numbered(gone, i) # {} THEN Nil ELSE store.list[i]],
                listKeys |-> [k \in Keys |->
                             IF k \in Numbered(fresh, changes[k].index) THEN changes[k].index
                             ELSE IF k \in Numbered(gone, changes[k].index) THEN Nil
                             ELSE store.listKeys[k]],
                count |-> count]

\* CreateNewHashMap over the Tx of the next AddBlocks: a new object with the stored
\* count. The previous AddBlocks ended with deleteUnusedBlocksComplete, which deletes
\* the transitions of the heights it removed and did not save again.
FreshMap ==
    /\ transitions' = [h \in Heights |-> IF h > height THEN <<>> ELSE transitions[h]]
    /\ recorded' = {h \in recorded : h <= height}
    /\ changes' = [k \in Keys |-> NoChange]
    /\ committed' = [k \in Keys |-> NoCommitted]
    /\ count' = store.count
    /\ countCommitted' = store.count
    /\ changed' = FALSE

-----------------------------------------------------------------------------
(* Operations. A read-only map is used by the mempool, whose transactions read *)
(* an element before they write it; the elements of an indexable map are       *)
(* deleted one by one only in the batch that created them; the conditional     *)
(* payments due at a height are not written by the block of that height or     *)
(* later (their deadline is ahead, and a late resolution is refused).          *)

Open == job \in {Idle, Extend} /\ (DrainHeight = 0 \/ height + 1 < DrainHeight)

Get(k) ==
    /\ job \in {Idle, Extend}
    /\ changes[k].status = "none"
    /\ changes' = [changes EXCEPT ![k] = View(Lookup(k))]
    /\ UNCHANGED <<committed, count, countCommitted, changed, store,
                   transitions, recorded, height, job, past>>

Create(k, v) ==
    /\ Open
    /\ ~Exists(k)
    /\ Writable \/ changes[k].status # "none" \/ k \notin store.exists
    /\ Indexable => v \notin Deletable
    /\ UpdateEffect(k, v)
    /\ UNCHANGED <<committed, countCommitted, store, transitions, recorded, height, job, past>>

Update(k, v) ==
    /\ Open
    /\ Writable \/ changes[k].status # "none"
    /\ Indexable => v \notin Deletable
    /\ UpdateEffect(k, v)
    /\ UNCHANGED <<committed, countCommitted, store, transitions, recorded, height, job, past>>

Delete(k) ==
    /\ Open
    /\ Writable \/ changes[k].status # "none"
    /\ Indexable => changes[k].indexProcess
    /\ DeleteEffect(k)
    /\ UNCHANGED <<committed, countCommitted, store, transitions, recorded, height, job, past>>

\* CommitChanges outside a block: after every transaction the mempool accepts.
CommitChanges ==
    /\ job = Idle
    /\ ~Writable
    /\ CommitEffect
    /\ UNCHANGED <<transitions, recorded, height, job, past>>

\* Mutant of Rollback: only the counts are taken back.
RollbackOfCounts ==
    /\ job = Idle
    /\ count' = countCommitted
    /\ changed' = FALSE
    /\ UNCHANGED <<changes, committed, countCommitted, store, transitions, recorded, height, job, past>>

Rollback ==
    /\ job = Idle
    /\ changes' = [k \in Keys |-> NoChange]
    /\ count' = countCommitted
    /\ changed' = FALSE
    /\ UNCHANGED <<committed, countCommitted, store, transitions, recorded, height, job, past>>

CreateNewHashMap ==
    /\ job = Idle
    /\ ~changed
    /\ FreshMap
    /\ UNCHANGED <<store, height, job, past>>

\* WriteTransitionalChangesToStore: the element each changed key had before this
\* block. Nothing is written when nothing changed: an older list stays.
Touched == {k \in Keys : changes[k].status \in {"update", "del"}}

\* Mutant of OldElement: Tx is not read.
OldElementCommitted(k) == IF committed[k].known THEN committed[k].el ELSE Nil

OldElement(k) == IF committed[k].known THEN committed[k].el ELSE store.map[k]

WriteTransitional(order, h) ==
    /\ transitions' = IF order = <<>> THEN transitions
                      ELSE [transitions EXCEPT ![h] =
                               [i \in 1..Len(order) |-> [key |-> order[i], old |-> OldElement(order[i])]]]
    /\ recorded' = IF order = <<>> THEN recorded \ {h} ELSE recorded \cup {h}

Orders(S) == {f \in [1..Cardinality(S) -> S] : \A i, j \in DOMAIN f : f[i] = f[j] => i = j}

\* saveBlockComplete, for this map: write the transitions, then commit.
SaveBlock ==
    /\ job \in {Idle, Extend} \/ (job.kind = "drain" /\ job.todo = <<>>)
    /\ Writable
    /\ height < MaxBlocks
    /\ height + 1 = DrainHeight => job.kind = "drain" \/ count = 0
    /\ \E order \in Orders(Touched) : WriteTransitional(order, height + 1)
    /\ height' = height + 1
    /\ past' = Append(past, store.map)
    /\ CommitEffect
    /\ job' = Idle

\* ReadTransitionalChangesFromStore reads the list of a height back to front; a map
\* of a collection is only looked at when the height's collection keys name it.
ReadTransitional(h) ==
    LET list == IF Collected /\ h \notin recorded THEN <<>> ELSE transitions[h]
    IN  [i \in 1..Len(list) |-> list[Len(list) + 1 - i]]

\* AddBlocks undoes the blocks above `to`: it opens a new data storage and reads the
\* transitions of the highest block.
BeginRevert(to) ==
    /\ job = Idle
    /\ Writable
    /\ to < height
    /\ FreshMap
    /\ job' = [kind |-> "revert", todo |-> ReadTransitional(height), to |-> to]
    /\ UNCHANGED <<store, height, past>>

\* One recorded change is undone: an element it created is deleted, another is restored.
RevertChange ==
    /\ job.kind = "revert"
    /\ job.todo # <<>>
    /\ LET t == Head(job.todo)
       IN IF t.old = Nil THEN DeleteEffect(t.key) ELSE UpdateEffect(t.key, t.old)
    /\ job' = [job EXCEPT !.todo = Tail(@)]
    /\ UNCHANGED <<committed, countCommitted, store, transitions, recorded, height, past>>

\* The block is removed; its transitions stay in the store.
RevertNextBlock ==
    /\ job.kind = "revert"
    /\ job.todo = <<>>
    /\ height > job.to + 1
    /\ height' = height - 1
    /\ job' = [job EXCEPT !.todo = ReadTransitional(height - 1)]
    /\ past' = SubSeq(past, 1, height - 1)
    /\ UNCHANGED <<changes, committed, count, countCommitted, changed, store, transitions, recorded>>

\* After the commit AddBlocks goes on with the new blocks; it succeeds only if it saves one.
RevertCommit ==
    /\ job.kind = "revert"
    /\ job.todo = <<>>
    /\ height = job.to + 1
    /\ CommitEffect
    /\ height' = job.to
    /\ past' = SubSeq(past, 1, job.to)
    /\ job' = Extend
    /\ UNCHANGED <<transitions, recorded>>

\* ProcessConditionalPayments empties a map: GetByIndex reads every element by its
\* index (refused while there are changes), then the keys are deleted in that order.
\* It is the last step of including a block: the block is saved next.
BeginDrain ==
    /\ job \in {Idle, Extend}
    /\ Indexable /\ Writable
    /\ height + 1 = DrainHeight
    /\ ~changed
    /\ count > 0
    /\ \A i \in 0..(count - 1) : i \in Slots /\ store.list[i] # Nil
    /\ changes' = [k \in Keys |->
           IF changes[k].status = "none" /\ \E i \in 0..(count - 1) : store.list[i] = k
           THEN View(Lookup(k))
           ELSE changes[k]]
    /\ job' = [kind |-> "drain", to |-> 0,
               todo |-> [i \in 1..count |-> [key |-> store.list[i - 1], old |-> Nil]]]
    /\ UNCHANGED <<committed, count, countCommitted, changed, store,
                   transitions, recorded, height, past>>

DrainDelete ==
    /\ job.kind = "drain"
    /\ job.todo # <<>>
    /\ DeleteEffect(Head(job.todo).key)
    /\ job' = [job EXCEPT !.todo = Tail(@)]
    /\ UNCHANGED <<committed, countCommitted, store, transitions, recorded, height, past>>

-----------------------------------------------------------------------------
\* A store that holds the elements of map, its keys numbered in some order.
StoreWith(map, order) ==
    [map |-> map, exists |-> {k \in Keys : map[k] # Nil},
     list |-> [i \in Slots |-> IF Indexable /\ i < Len(order) THEN order[i + 1] ELSE Nil],
     listKeys |-> [k \in Keys |-> IF Indexable /\ \E i \in DOMAIN order : order[i] = k
                                  THEN (CHOOSE i \in DOMAIN order : order[i] = k) - 1 ELSE Nil],
     count |-> Len(order)]

Init ==
    /\ changes = [k \in Keys |-> NoChange]
    /\ committed = [k \in Keys |-> NoCommitted]
    /\ changed = FALSE
    /\ \E map \in [Keys -> (Values \ Deletable) \cup {Nil}] :
         \E order \in Orders({k \in Keys : map[k] # Nil}) : store = StoreWith(map, order)
    /\ count = store.count
    /\ countCommitted = store.count
    /\ transitions = [h \in Heights |-> <<>>]
    /\ recorded = {}
    /\ height = 0
    /\ job = Idle
    /\ past = <<>>

Next ==
    \/ \E k \in Keys : Get(k) \/ Delete(k)
    \/ \E k \in Keys, v \in Values : Create(k, v) \/ Update(k, v)
    \/ CommitChanges \/ Rollback \/ CreateNewHashMap
    \/ SaveBlock
    \/ \E to \in 0..MaxBlocks : BeginRevert(to)
    \/ RevertChange \/ RevertNextBlock \/ RevertCommit
    \/ BeginDrain \/ DrainDelete

Spec == Init /\ [][Next]_vars

-----------------------------------------------------------------------------
(* Properties *)

\* Every variable has its type: the three layers, the stored lists and the loop under way.
TypeOK ==
    /\ changes \in [Keys -> Change]
    /\ committed \in [Keys -> CommittedElement]
    /\ count \in Nat
    /\ countCommitted \in Nat
    /\ changed \in BOOLEAN
    /\ store \in Store
    /\ transitions \in [Heights -> Seq(Transition)]
    /\ recorded \subseteq Heights
    /\ height \in 0..MaxBlocks
    /\ job \in Job
    /\ past \in Seq([Keys -> Elements])

\* Count is the number of keys a reader finds, whatever sequence of Get, Create, Update,
\* Delete, CommitChanges, Rollback, block saves and reverts led here: Update and Delete
\* decide from Changes and Tx alone, without looking at Committed.
CountIsCardinality == count = Cardinality(Live)

\* What is committed beneath the pending changes: does the key have an element?
Base(k) == IF committed[k].known THEN committed[k].el # Nil ELSE k \in store.exists

\* The layers agree on which keys have an element: an entry of Changes that was only read
\* shows what lies beneath it, a written one has an element and a deleted one has none;
\* what a writable Tx holds is what the map committed. Update and Delete rely on it when
\* they count from Changes and Tx.
LayersAgree ==
    \A k \in Keys :
        /\ changes[k].status = "view" => (changes[k].el # Nil <=> Base(k))
        /\ changes[k].status = "update" => changes[k].el # Nil
        /\ changes[k].status = "del" => changes[k].el = Nil
        /\ store.map[k] # Nil <=> k \in store.exists
        /\ Writable => (Base(k) <=> k \in store.exists)

\* The three counts are the cardinalities of the layers they belong to; without Tx being
\* writable no block is saved or undone.
CountsAgree ==
    /\ count = Cardinality(Live)
    /\ countCommitted = Cardinality({k \in Keys : Base(k)})
    /\ store.count = Cardinality(store.exists)
    /\ Len(past) = height
    /\ job.kind \in {"revert", "drain"} => Writable

\* The inductive invariant behind CountIsCardinality.
CountInvariant == TypeOK /\ LayersAgree /\ CountsAgree

\* With no pending change a reader finds exactly what the store holds: no view or
\* committed element kept in memory is stale after a commit, a rollback or a revert.
ReadsAreFresh ==
    Writable /\ ~changed => \A k \in Keys : Lookup(k) = store.map[k]

\* ":list:" and ":listKeys:" of an indexable map number the stored keys 0..count-1 with
\* no gap and no duplicate: CommitChanges writes the indexes that Update and Delete
\* assigned, whatever was created, deleted, renumbered or reverted in the batch.
IndexesAreExact ==
    Indexable /\ Writable =>
        /\ store.count = Cardinality(store.exists)
        /\ \A i \in Slots :
              IF i < store.count
              THEN store.list[i] \in store.exists /\ store.listKeys[store.list[i]] = i
              ELSE store.list[i] = Nil
        /\ \A k \in Keys \ store.exists : store.listKeys[k] = Nil

\* Undoing the blocks above a height from their transitions gives back the map as it was
\* stored at that height, however the undone blocks changed it.
RevertRestores ==
    [][RevertCommit => store'.map = past[job.to + 1]]_vars
=============================================================================
