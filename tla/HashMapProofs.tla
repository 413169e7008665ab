--------------------------- MODULE HashMapProofs ---------------------------
(***************************************************************************)
(* Proofs about HashMap, for every set of keys and values and both kinds   *)
(* of transaction.  Types and counts need one inductive invariant: Count   *)
(* never drops below zero only because it is a cardinality, and it stays   *)
(* one only because the three layers agree on which keys have an element.  *)
(* That reads are fresh adds what a committed entry says of the store, and *)
(* that reverts are exact adds what is recorded under each height: what    *)
(* undoes the block of that height.  That the lists of an indexable map    *)
(* are exact adds how its keys are numbered: the older before the younger, *)
(* so that undoing a block frees the last numbers, in whatever order.      *)
(***************************************************************************)
EXTENDS HashMap, FiniteSetTheorems, SequenceTheorems, TLAPS

\* Any part of the key set is finite and has a natural cardinality.
LEMMA FiniteParts ==
  ASSUME NEW S \in SUBSET Keys
  PROVE  IsFiniteSet(S) /\ Cardinality(S) \in Nat
BY KeysFinite, FS_Subset, FS_CardinalityType

\* Update and Delete count rightly: where the entry of Changes, or Tx, tells whether the
\* key has an element, it tells what Exists tells.
LEMMA CountsFromChanges ==
  ASSUME LayersAgree, NEW k \in Keys,
         Writable \/ changes[k].status # "none" \/ (~Exists(k) /\ k \notin store.exists)
  PROVE  /\ Increases(k) <=> ~Exists(k)
         /\ Decreases(k) <=> Exists(k)
BY DEF LayersAgree, Increases, Decreases, Exists, Base

\* Removing an element from the layer of pending changes: types, layers and counts.
LEMMA DeleteEffectInvariant ==
  ASSUME CountInvariant, NEW k \in Keys, Decreases(k) <=> Exists(k),
         DeleteEffect(k), UNCHANGED <<committed, countCommitted, store>>
  PROVE  /\ changes' \in [Keys -> Change] /\ count' \in Nat /\ changed' \in BOOLEAN
         /\ LayersAgree'
         /\ count' = Cardinality(Live')
         /\ countCommitted' = Cardinality({j \in Keys : Base(j)}')
<1>1. Live \in SUBSET Keys /\ IsFiniteSet(Live) /\ Cardinality(Live) \in Nat
  BY FiniteParts DEF Live
<1>2. count = Cardinality(Live) /\ (k \in Live <=> Exists(k))
  BY DEF CountInvariant, CountsAgree, Live
<1>3. Decreases(k) => count \in Nat /\ count - 1 \in Nat
  BY <1>1, <1>2, FS_EmptySet
<1>4. changes' \in [Keys -> Change]
  <2>1. changes \in [Keys -> Change] /\ count \in Nat
    BY DEF CountInvariant, TypeOK
  <2>2. \A j \in Keys : changes[j].index \in Nat /\ changes[j].indexProcess \in BOOLEAN
    BY <2>1 DEF Change
  <2>3. changes'[k] \in Change
    BY <1>3, <2>1, <2>2 DEF DeleteEffect, Change, Elements
  <2>4. \A j \in Keys \ {k} : changes'[j] = changes[j] \/
          (/\ changes[j].index > changes[k].index
           /\ changes'[j] = [changes[j] EXCEPT !.index = changes[j].index - 1])
    BY DEF DeleteEffect, Above
  <2>5. \A j \in Keys \ {k} : changes'[j] \in Change
    <3>. SUFFICES ASSUME NEW j \in Keys \ {k},
                         changes[j].index > changes[k].index,
                         changes'[j] = [changes[j] EXCEPT !.index = changes[j].index - 1]
                  PROVE  changes'[j] \in Change
      BY <2>1, <2>4
    <3>1. changes[j].index - 1 \in Nat
      BY <2>2
    <3>. QED
      BY <2>1, <3>1 DEF Change
  <2>6. \A j \in Keys : changes'[j] \in Change
    BY <2>3, <2>5
  <2>. QED
    BY <2>6, Zenon DEF DeleteEffect
<1>5. count' \in Nat /\ changed' \in BOOLEAN
  BY <1>3 DEF DeleteEffect, CountInvariant, TypeOK
<1>6. /\ changes'[k].status = "del" /\ changes'[k].el = Nil
      /\ \A j \in Keys \ {k} : /\ changes'[j].status = changes[j].status
                               /\ changes'[j].el = changes[j].el
  BY DEF DeleteEffect, CountInvariant, TypeOK, Change
<1>7. \A j \in Keys : Base(j)' <=> Base(j)
  BY DEF Base
<1>8. LayersAgree'
  BY <1>6, <1>7 DEF CountInvariant, LayersAgree
<1>9. \A j \in Keys : Exists(j)' <=> (j # k /\ Exists(j))
  BY <1>6 DEF Exists
<1>10. Live' = Live \ {k}
  BY <1>9 DEF Live
<1>11. count' = Cardinality(Live')
  BY <1>1, <1>2, <1>10, FS_RemoveElement DEF DeleteEffect
<1>12. {j \in Keys : Base(j)}' = {j \in Keys : Base(j)}
  BY <1>7
<1>. QED
  BY <1>4, <1>5, <1>8, <1>11, <1>12 DEF CountInvariant, CountsAgree

\* Writing an element into the layer of pending changes.
LEMMA UpdateEffectInvariant ==
  ASSUME CountInvariant, NEW k \in Keys, NEW v \in Values,
         Increases(k) <=> ~Exists(k), Decreases(k) <=> Exists(k),
         UpdateEffect(k, v), UNCHANGED <<committed, countCommitted, store>>
  PROVE  /\ changes' \in [Keys -> Change] /\ count' \in Nat /\ changed' \in BOOLEAN
         /\ LayersAgree'
         /\ count' = Cardinality(Live')
         /\ countCommitted' = Cardinality({j \in Keys : Base(j)}')
<1>1. CASE v \in Deletable
  BY <1>1, DeleteEffectInvariant DEF UpdateEffect
<1>2. CASE v \notin Deletable
  <2>1. Live \in SUBSET Keys /\ IsFiniteSet(Live) /\ Cardinality(Live) \in Nat
    BY FiniteParts DEF Live
  <2>2. count = Cardinality(Live) /\ (k \in Live <=> Exists(k))
    BY DEF CountInvariant, CountsAgree, Live
  <2>3. changes' \in [Keys -> Change]
    <3>1. changes \in [Keys -> Change] /\ count \in Nat
      BY DEF CountInvariant, TypeOK
    <3>2. changes[k].index \in Nat /\ changes[k].indexProcess \in BOOLEAN
      BY <3>1 DEF Change
    <3>3. changes'[k] \in Change
      <4>1. CASE Increases(k) /\ Indexable
        <5>1. changes'[k] = [status |-> "update", el |-> v, index |-> count, indexProcess |-> TRUE]
          BY <1>2, <3>1, <4>1 DEF UpdateEffect
        <5>. QED
          BY <3>1, <5>1 DEF Change, Elements
      <4>2. CASE ~(Increases(k) /\ Indexable)
        <5>1. changes'[k] = [status |-> "update", el |-> v, index |-> changes[k].index,
                             indexProcess |-> changes[k].indexProcess]
          BY <1>2, <3>1, <4>2 DEF UpdateEffect
        <5>. QED
          BY <3>2, <5>1 DEF Change, Elements
      <4>. QED
        BY <4>1, <4>2
    <3>4. \A j \in Keys : changes'[j] \in Change
      BY <1>2, <3>1, <3>3 DEF UpdateEffect
    <3>. QED
      BY <1>2, <3>1, <3>4, Zenon DEF UpdateEffect
  <2>4. count' \in Nat /\ changed' \in BOOLEAN
    BY <1>2 DEF UpdateEffect, CountInvariant, TypeOK
  <2>5. /\ changes'[k].status = "update" /\ changes'[k].el = v
        /\ \A j \in Keys \ {k} : changes'[j] = changes[j]
    BY <1>2 DEF UpdateEffect, CountInvariant, TypeOK
  <2>6. v # Nil
    BY NilAssumption
  <2>7. \A j \in Keys : Base(j)' <=> Base(j)
    BY DEF Base
  <2>8. LayersAgree'
    BY <2>5, <2>6, <2>7 DEF CountInvariant, LayersAgree
  <2>9. \A j \in Keys : Exists(j)' <=> (j = k \/ Exists(j))
    BY <2>5, <2>6 DEF Exists
  <2>10. Live' = Live \cup {k}
    BY <2>9 DEF Live
  <2>11. count' = Cardinality(Live')
    BY <1>2, <2>1, <2>2, <2>10, FS_AddElement DEF UpdateEffect
  <2>12. {j \in Keys : Base(j)}' = {j \in Keys : Base(j)}
    BY <2>7
  <2>. QED
    BY <2>3, <2>4, <2>8, <2>11, <2>12 DEF CountInvariant, CountsAgree
<1>. QED
  BY <1>1, <1>2

\* Committing turns what a reader finds into what is committed, and loses no key.
LEMMA CommitEffectInvariant ==
  ASSUME CountInvariant, CommitEffect
  PROVE  /\ changes' \in [Keys -> Change] /\ committed' \in [Keys -> CommittedElement]
         /\ count' \in Nat /\ countCommitted' \in Nat /\ changed' \in BOOLEAN
         /\ store' \in Store
         /\ LayersAgree'
         /\ count' = Cardinality(Live')
         /\ countCommitted' = Cardinality({j \in Keys : Base(j)}')
         /\ store'.count = Cardinality(store'.exists)
<1>1. changes' \in [Keys -> Change]
  <2>1. ASSUME NEW k \in Keys
        PROVE  [changes[k] EXCEPT !.status = "view", !.indexProcess = FALSE] \in Change
    BY DEF CountInvariant, TypeOK, Change
  <2>2. NoChange \in Change /\ changes \in [Keys -> Change]
    BY DEF CountInvariant, TypeOK, Change, NoChange, Elements
  <2>. QED
    BY <2>1, <2>2 DEF CommitEffect
<1>2. committed' \in [Keys -> CommittedElement]
  BY DEF CommitEffect, CountInvariant, TypeOK, Change, CommittedElement, Elements
<1>3. count' \in Nat /\ countCommitted' \in Nat /\ changed' \in BOOLEAN /\ count' = count
  BY DEF CommitEffect, CountInvariant, TypeOK
<1>4. store' \in Store
  BY DEF CommitEffect, CountInvariant, TypeOK, Store, Change, Elements, Slots
<1>5. \A k \in Keys : changes[k].status = "update" =>
        /\ changes'[k] = NoChange
        /\ committed'[k].known /\ committed'[k].el = changes[k].el
        /\ Writable => k \in store'.exists /\ store'.map[k] = changes[k].el
  BY DEF CommitEffect, CountInvariant, TypeOK, Store
<1>6. \A k \in Keys : changes[k].status = "del" =>
        /\ changes'[k].status = "view" /\ changes'[k].el = changes[k].el
        /\ committed'[k].known /\ committed'[k].el = Nil
        /\ Writable => k \notin store'.exists
        /\ Writable => (store'.map[k] = IF k \in store.exists THEN Nil ELSE store.map[k])
  BY DEF CommitEffect, CountInvariant, TypeOK, Store, Change
<1>7. \A k \in Keys : changes[k].status \notin {"update", "del"} =>
        /\ changes'[k] = changes[k] /\ committed'[k] = committed[k]
        /\ k \in store'.exists <=> k \in store.exists
        /\ store'.map[k] = store.map[k]
  BY DEF CommitEffect, CountInvariant, TypeOK, Store
<1>8. ~Writable => store' = store
  BY DEF CommitEffect
<1>9. \A k \in Keys : changes[k].status \in {"none", "view", "update", "del"}
  BY DEF CountInvariant, TypeOK, Change
<1>10. LayersAgree'
  BY <1>5, <1>6, <1>7, <1>8, <1>9 DEF CountInvariant, LayersAgree, Base, NoChange
<1>11. \A k \in Keys : (Exists(k)' <=> Exists(k)) /\ (Base(k)' <=> Exists(k))
  BY <1>5, <1>6, <1>7, <1>8, <1>9 DEF CountInvariant, LayersAgree, Base, Exists, NoChange
<1>12. Live' = Live /\ {j \in Keys : Base(j)}' = Live
  BY <1>11 DEF Live
<1>13. countCommitted' = count /\ count = Cardinality(Live)
  BY DEF CommitEffect, CountInvariant, CountsAgree
<1>14. CASE Writable
  <2>1. store'.count = count
    BY <1>14 DEF CommitEffect
  <2>2. store'.exists = Live
    BY <1>4, <1>10, <1>12, <1>14 DEF LayersAgree, Store, Live
  <2>. QED
    BY <1>1, <1>2, <1>3, <1>4, <1>10, <1>12, <1>13, <2>1, <2>2
<1>15. CASE ~Writable
  BY <1>1, <1>2, <1>3, <1>4, <1>8, <1>10, <1>12, <1>13, <1>15 DEF CountInvariant, CountsAgree
<1>. QED
  BY <1>14, <1>15

\* A new map over the store agrees with it.
LEMMA FreshMapInvariant ==
  ASSUME CountInvariant, FreshMap, UNCHANGED store
  PROVE  /\ changes' \in [Keys -> Change] /\ committed' \in [Keys -> CommittedElement]
         /\ count' \in Nat /\ countCommitted' \in Nat /\ changed' \in BOOLEAN
         /\ transitions' \in [Heights -> Seq(Transition)] /\ recorded' \subseteq Heights
         /\ LayersAgree'
         /\ count' = Cardinality(Live')
         /\ countCommitted' = Cardinality({j \in Keys : Base(j)}')
<1>1. changes' \in [Keys -> Change] /\ committed' \in [Keys -> CommittedElement]
  BY DEF FreshMap, Change, NoChange, CommittedElement, NoCommitted, Elements
<1>2. count' \in Nat /\ countCommitted' \in Nat /\ changed' \in BOOLEAN
  BY DEF FreshMap, CountInvariant, TypeOK, Store
<1>3. transitions' \in [Heights -> Seq(Transition)] /\ recorded' \subseteq Heights
  BY EmptySeq DEF FreshMap, CountInvariant, TypeOK
<1>4. \A k \in Keys : (Exists(k)' <=> k \in store.exists) /\ (Base(k)' <=> k \in store.exists)
  BY DEF FreshMap, Exists, Base, NoChange, NoCommitted
<1>5. LayersAgree'
  BY <1>4 DEF LayersAgree, CountInvariant, FreshMap, NoChange
<1>6. Live' = store.exists /\ {j \in Keys : Base(j)}' = store.exists
  BY <1>4 DEF Live, CountInvariant, TypeOK, Store
<1>. QED
  BY <1>1, <1>2, <1>3, <1>5, <1>6 DEF CountInvariant, CountsAgree, FreshMap

-----------------------------------------------------------------------------
\* An order of a set lists it: it is a sequence of its elements, as long as the set is large.
LEMMA OrdersAreSequences ==
  ASSUME NEW S \in SUBSET Keys, NEW order \in Orders(S)
  PROVE  order \in Seq(Keys) /\ Len(order) = Cardinality(S)
<1>1. Cardinality(S) \in Nat
  BY FiniteParts
<1>2. order \in [1..Cardinality(S) -> S]
  BY DEF Orders
<1>3. order \in [1..Cardinality(S) -> Keys]
  BY <1>2
<1>4. order \in Seq(Keys)
  BY <1>1, <1>3, SeqDef
<1>. QED
  BY <1>1, <1>2, <1>4, LenProperties

\* The first state of the map: nothing pending, a store numbered in some order.
LEMMA InitCountInvariant == Init => CountInvariant
<1>. SUFFICES ASSUME Init PROVE CountInvariant
  OBVIOUS
<1>0. PICK map \in [Keys -> (Values \ Deletable) \cup {Nil}] :
         \E order \in Orders({k \in Keys : map[k] # Nil}) : store = StoreWith(map, order)
  BY DEF Init
<1>. DEFINE S == {k \in Keys : map[k] # Nil}
<1>1. PICK order \in Orders(S) : store = StoreWith(map, order)
  BY <1>0
<1>2. order \in Seq(Keys) /\ Len(order) = Cardinality(S)
  BY OrdersAreSequences
<1>3. order \in [1..Len(order) -> Keys] /\ DOMAIN order = 1..Len(order) /\ Len(order) \in Nat
  BY <1>2, LenProperties
<1>4. store.map = map /\ store.exists = S /\ store.count = Len(order)
  BY <1>1 DEF StoreWith
<1>5. store \in Store
  <2>1. map \in [Keys -> Elements]
    BY DEF Elements
  <2>2. [i \in Slots |-> IF Indexable /\ i < Len(order) THEN order[i + 1] ELSE Nil]
          \in [Slots -> Keys \cup {Nil}]
    <3>. SUFFICES ASSUME NEW i \in Slots, i < Len(order) PROVE order[i + 1] \in Keys
      OBVIOUS
    <3>1. i \in Nat
      BY DEF Slots
    <3>. QED
      BY <1>3, <3>1
  <2>3. [k \in Keys |-> IF Indexable /\ \E i \in DOMAIN order : order[i] = k
                        THEN (CHOOSE i \in DOMAIN order : order[i] = k) - 1 ELSE Nil]
          \in [Keys -> Nat \cup {Nil}]
    <3>. SUFFICES ASSUME NEW k \in Keys, \E i \in DOMAIN order : order[i] = k
                  PROVE  (CHOOSE i \in DOMAIN order : order[i] = k) - 1 \in Nat
      OBVIOUS
    <3>1. (CHOOSE i \in DOMAIN order : order[i] = k) \in 1..Len(order)
      BY <1>3
    <3>. QED
      BY <1>3, <3>1
  <2>. QED
    BY <1>1, <1>3, <2>1, <2>2, <2>3 DEF StoreWith, Store
<1>6. TypeOK
  <2>1. changes \in [Keys -> Change] /\ committed \in [Keys -> CommittedElement] /\ changed \in BOOLEAN
    BY DEF Init, Change, NoChange, CommittedElement, NoCommitted, Elements
  <2>2. count \in Nat /\ countCommitted \in Nat
    BY <1>5 DEF Init, Store
  <2>3. transitions \in [Heights -> Seq(Transition)] /\ recorded \subseteq Heights
    BY EmptySeq DEF Init
  <2>4. job \in Job /\ past \in Seq([Keys -> Elements]) /\ height \in 0..MaxBlocks
    BY EmptySeq, BoundAssumption DEF Init, Job, Idle
  <2>. QED
    BY <1>5, <2>1, <2>2, <2>3, <2>4 DEF TypeOK
<1>7. \A k \in Keys : (Exists(k) <=> k \in store.exists) /\ (Base(k) <=> k \in store.exists)
  BY DEF Init, Exists, Base, NoChange, NoCommitted
<1>8. LayersAgree
  BY <1>4, <1>7 DEF LayersAgree, Init, NoChange
<1>9. Live = store.exists /\ {k \in Keys : Base(k)} = store.exists
  BY <1>4, <1>7 DEF Live
<1>10. CountsAgree
  BY <1>2, <1>4, <1>9, EmptySeq DEF CountsAgree, Init, Idle
<1>. QED
  BY <1>6, <1>8, <1>10 DEF CountInvariant

\* The transitions of a height are read back as a sequence of recorded changes.
LEMMA ReadTransitionalType ==
  ASSUME TypeOK, NEW h \in Heights
  PROVE  ReadTransitional(h) \in Seq(Transition)
<1>. DEFINE list == IF Collected /\ h \notin recorded THEN <<>> ELSE transitions[h]
<1>1. list \in Seq(Transition)
  BY EmptySeq DEF TypeOK
<1>2. Len(list) \in Nat /\ list \in [1..Len(list) -> Transition]
  BY <1>1, LenProperties
<1>. HIDE DEF list
<1>3. [i \in 1..Len(list) |-> list[Len(list) + 1 - i]] \in [1..Len(list) -> Transition]
  BY <1>2
<1>4. [i \in 1..Len(list) |-> list[Len(list) + 1 - i]] \in Seq(Transition)
  BY <1>2, <1>3, SeqDef
<1>. QED
  BY <1>4 DEF ReadTransitional, list

\* The transitions a saved block writes are recorded changes, and the heights are in range.
LEMMA WriteTransitionalType ==
  ASSUME TypeOK, NEW order \in Orders(Touched), NEW h \in Heights, WriteTransitional(order, h)
  PROVE  transitions' \in [Heights -> Seq(Transition)] /\ recorded' \subseteq Heights
<1>1. order \in Seq(Keys)
  BY OrdersAreSequences DEF Touched
<1>2. Len(order) \in Nat /\ order \in [1..Len(order) -> Keys]
  BY <1>1, LenProperties
<1>. DEFINE list == [i \in 1..Len(order) |-> [key |-> order[i], old |-> OldElement(order[i])]]
<1>3. \A k \in Keys : OldElement(k) \in Elements
  BY DEF OldElement, TypeOK, CommittedElement, Store
<1>4. list \in [1..Len(order) -> Transition]
  BY <1>2, <1>3 DEF Transition
<1>5. list \in Seq(Transition)
  BY <1>2, <1>4, SeqDef
<1>6. transitions' = transitions \/ transitions' = [transitions EXCEPT ![h] = list]
  BY DEF WriteTransitional
<1>. HIDE DEF list
<1>7. transitions' \in [Heights -> Seq(Transition)]
  BY <1>5, <1>6 DEF TypeOK
<1>. QED
  BY <1>7 DEF WriteTransitional, TypeOK

\* Every step of the map preserves the inductive invariant.
LEMMA NextCountInvariant == CountInvariant /\ [Next]_vars => CountInvariant'
<1>. SUFFICES ASSUME CountInvariant, [Next]_vars PROVE CountInvariant'
  OBVIOUS
<1>. USE DEF CountInvariant
<1>1. ASSUME NEW k \in Keys, Get(k) PROVE CountInvariant'
  <2>1. /\ UNCHANGED <<committed, count, countCommitted, changed, store,
                       transitions, recorded, height, job, past>>
        /\ changes[k].status = "none"
        /\ changes' = [changes EXCEPT ![k] = [status |-> "view", el |-> Lookup(k),
                                              index |-> 0, indexProcess |-> FALSE]]
    BY <1>1 DEF Get, View
  <2>2. Lookup(k) \in Elements
    BY DEF Lookup, TypeOK, Change, CommittedElement, Store
  <2>3. TypeOK'
    BY <2>1, <2>2 DEF TypeOK, Change
  <2>4. Lookup(k) # Nil <=> Exists(k)
    BY <2>1 DEF Lookup, Exists, LayersAgree
  <2>5. Base(k) <=> Exists(k)
    BY <2>1 DEF Base, Exists
  <2>6. changes'[k].status = "view" /\ changes'[k].el = Lookup(k)
        /\ \A j \in Keys \ {k} : changes'[j] = changes[j]
    BY <2>1 DEF TypeOK
  <2>7. \A j \in Keys : (Base(j)' <=> Base(j)) /\ (Exists(j)' <=> Exists(j))
    BY <2>1, <2>4, <2>6 DEF Base, Exists
  <2>8. LayersAgree'
    BY <2>1, <2>4, <2>5, <2>6, <2>7 DEF LayersAgree
  <2>9. Live' = Live /\ {j \in Keys : Base(j)}' = {j \in Keys : Base(j)}
    BY <2>7 DEF Live
  <2>. QED
    BY <2>1, <2>3, <2>8, <2>9 DEF CountsAgree
<1>2. ASSUME NEW k \in Keys, Delete(k) PROVE CountInvariant'
  <2>1. DeleteEffect(k) /\ UNCHANGED <<committed, countCommitted, store, transitions,
                                       recorded, height, job, past>>
    BY <1>2 DEF Delete
  <2>2. Decreases(k) <=> Exists(k)
    BY <1>2, CountsFromChanges DEF Delete
  <2>. QED
    BY <2>1, <2>2, DeleteEffectInvariant DEF TypeOK, CountsAgree
<1>3. ASSUME NEW k \in Keys, NEW v \in Values, Create(k, v) \/ Update(k, v) PROVE CountInvariant'
  <2>1. UpdateEffect(k, v) /\ UNCHANGED <<committed, countCommitted, store, transitions,
                                          recorded, height, job, past>>
    BY <1>3 DEF Create, Update
  <2>2. (Increases(k) <=> ~Exists(k)) /\ (Decreases(k) <=> Exists(k))
    BY <1>3, CountsFromChanges DEF Create, Update
  <2>. QED
    BY <2>1, <2>2, UpdateEffectInvariant DEF TypeOK, CountsAgree
<1>4. ASSUME CommitChanges PROVE CountInvariant'
  BY <1>4, CommitEffectInvariant DEF CommitChanges, TypeOK, CountsAgree
<1>5. ASSUME Rollback PROVE CountInvariant'
  <2>1. /\ UNCHANGED <<committed, countCommitted, store, transitions, recorded, height, job, past>>
        /\ count' = countCommitted /\ changed' = FALSE
        /\ changes' = [k \in Keys |-> NoChange]
    BY <1>5 DEF Rollback
  <2>2. TypeOK'
    BY <2>1 DEF TypeOK, Change, NoChange, Elements
  <2>3. \A k \in Keys : (Base(k)' <=> Base(k)) /\ (Exists(k)' <=> Base(k))
    BY <2>1 DEF Base, Exists, NoChange
  <2>4. LayersAgree'
    BY <2>1, <2>3 DEF LayersAgree, NoChange
  <2>5. Live' = {k \in Keys : Base(k)} /\ {k \in Keys : Base(k)}' = {k \in Keys : Base(k)}
    BY <2>3 DEF Live
  <2>. QED
    BY <2>1, <2>2, <2>4, <2>5 DEF CountsAgree
<1>6. ASSUME CreateNewHashMap PROVE CountInvariant'
  BY <1>6, FreshMapInvariant DEF CreateNewHashMap, TypeOK, CountsAgree
<1>7. ASSUME SaveBlock PROVE CountInvariant'
  <2>1. height + 1 \in Heights /\ height' \in 0..MaxBlocks /\ height' = height + 1
    BY <1>7, BoundAssumption DEF SaveBlock, Heights, TypeOK
  <2>2. transitions' \in [Heights -> Seq(Transition)] /\ recorded' \subseteq Heights
    BY <1>7, <2>1, WriteTransitionalType DEF SaveBlock
  <2>3. past' = Append(past, store.map) /\ store.map \in [Keys -> Elements] /\ job' = Idle
    BY <1>7 DEF SaveBlock, TypeOK, Store
  <2>4. past' \in Seq([Keys -> Elements]) /\ Len(past') = height'
    BY <2>1, <2>3, AppendProperties DEF TypeOK, CountsAgree
  <2>5. job' \in Job /\ job'.kind = "idle"
    BY <2>3, EmptySeq DEF Job, Idle
  <2>6. CommitEffect
    BY <1>7 DEF SaveBlock
  <2>. QED
    BY <2>1, <2>2, <2>4, <2>5, <2>6, CommitEffectInvariant DEF TypeOK, CountsAgree
<1>8. ASSUME NEW to \in 0..MaxBlocks, BeginRevert(to) PROVE CountInvariant'
  <2>1. height \in Heights /\ FreshMap /\ Writable /\ UNCHANGED <<store, height, past>>
        /\ job' = [kind |-> "revert", todo |-> ReadTransitional(height), to |-> to]
    BY <1>8, BoundAssumption DEF BeginRevert, Heights, TypeOK
  <2>2. job' \in Job
    BY <2>1, ReadTransitionalType, BoundAssumption DEF Job
  <2>. QED
    BY <2>1, <2>2, FreshMapInvariant DEF TypeOK, CountsAgree
<1>9. ASSUME RevertChange PROVE CountInvariant'
  <2>. DEFINE t == Head(job.todo)
  <2>1. /\ job.kind = "revert" /\ job.todo # <<>>
        /\ IF t.old = Nil THEN DeleteEffect(t.key) ELSE UpdateEffect(t.key, t.old)
        /\ job' = [job EXCEPT !.todo = Tail(@)]
        /\ UNCHANGED <<committed, countCommitted, store, transitions, recorded, height, past>>
    BY <1>9 DEF RevertChange
  <2>2. t \in Transition /\ Tail(job.todo) \in Seq(Transition)
    BY <2>1, HeadTailProperties DEF TypeOK, Job
  <2>3. job' \in Job /\ job'.kind = job.kind
    BY <2>1, <2>2 DEF TypeOK, Job
  <2>4. t.key \in Keys /\ (t.old = Nil \/ t.old \in Values)
    BY <2>2 DEF Transition, Elements
  <2>5. Writable
    BY <2>1 DEF CountsAgree
  <2>6. (Increases(t.key) <=> ~Exists(t.key)) /\ (Decreases(t.key) <=> Exists(t.key))
    BY <2>4, <2>5, CountsFromChanges
  <2>. HIDE DEF t
  <2>7. /\ changes' \in [Keys -> Change] /\ count' \in Nat /\ changed' \in BOOLEAN
        /\ LayersAgree'
        /\ count' = Cardinality(Live')
        /\ countCommitted' = Cardinality({j \in Keys : Base(j)}')
    BY <2>1, <2>4, <2>6, DeleteEffectInvariant, UpdateEffectInvariant
  <2>. QED
    BY <2>1, <2>3, <2>5, <2>7 DEF TypeOK, CountsAgree
<1>10. ASSUME RevertNextBlock PROVE CountInvariant'
  <2>1. /\ job.kind = "revert" /\ height' = height - 1
        /\ height - 1 \in Heights
        /\ job' = [job EXCEPT !.todo = ReadTransitional(height - 1)]
        /\ past' = SubSeq(past, 1, height - 1)
        /\ UNCHANGED <<changes, committed, count, countCommitted, changed, store, transitions, recorded>>
    BY <1>10, BoundAssumption DEF RevertNextBlock, TypeOK, Job, Heights
  <2>2. job' \in Job /\ job'.kind = job.kind
    BY <2>1, ReadTransitionalType DEF TypeOK, Job
  <2>3. past' \in Seq([Keys -> Elements]) /\ Len(past') = height - 1
    <3>1. Len(past) = height /\ past \in Seq([Keys -> Elements]) /\ height \in Nat /\ height - 1 \in Nat
      BY <2>1, BoundAssumption DEF TypeOK, CountsAgree, Heights
    <3>2. \A i \in 1..(height - 1) : past[i] \in [Keys -> Elements]
      BY <3>1, ElementOfSeq
    <3>. QED
      BY <2>1, <3>1, <3>2, SubSeqProperties
  <2>4. height' \in 0..MaxBlocks
    BY <2>1, BoundAssumption DEF TypeOK, Heights
  <2>5. (Live' = Live /\ {j \in Keys : Base(j)}' = {j \in Keys : Base(j)}) /\ LayersAgree'
    BY <2>1 DEF Live, Base, Exists, LayersAgree
  <2>. QED
    BY <2>1, <2>2, <2>3, <2>4, <2>5 DEF TypeOK, CountsAgree
<1>11. ASSUME RevertCommit PROVE CountInvariant'
  <2>1. /\ job.kind = "revert" /\ height = job.to + 1 /\ height' = job.to /\ job' = Extend
        /\ past' = SubSeq(past, 1, job.to) /\ CommitEffect /\ UNCHANGED <<transitions, recorded>>
    BY <1>11 DEF RevertCommit
  <2>2. job' \in Job /\ job'.kind = "extend"
    BY <2>1, EmptySeq DEF Job, Extend
  <2>3. height' \in 0..MaxBlocks /\ job.to \in Nat
    BY <2>1, BoundAssumption DEF TypeOK, Job
  <2>4. past' \in Seq([Keys -> Elements]) /\ Len(past') = height'
    <3>1. Len(past) = job.to + 1 /\ past \in Seq([Keys -> Elements])
      BY <2>1 DEF TypeOK, CountsAgree
    <3>2. \A i \in 1..job.to : past[i] \in [Keys -> Elements]
      BY <2>3, <3>1, ElementOfSeq
    <3>. QED
      BY <2>1, <2>3, <3>1, <3>2, SubSeqProperties
  <2>. QED
    BY <2>1, <2>2, <2>3, <2>4, CommitEffectInvariant DEF TypeOK, CountsAgree
<1>12. ASSUME BeginDrain PROVE CountInvariant'
  <2>1. /\ UNCHANGED <<committed, count, countCommitted, changed, store, transitions, recorded, height, past>>
        /\ \A i \in 0..(count - 1) : i \in Slots /\ store.list[i] # Nil
        /\ job' = [kind |-> "drain", to |-> 0,
                   todo |-> [i \in 1..count |-> [key |-> store.list[i - 1], old |-> Nil]]]
        /\ Writable
    BY <1>12 DEF BeginDrain
  <2>2. job' \in Job /\ job'.kind = "drain"
    <3>1. \A i \in 1..count : store.list[i - 1] \in Keys
      <4>. SUFFICES ASSUME NEW i \in 1..count PROVE store.list[i - 1] \in Keys
        OBVIOUS
      <4>1. i - 1 \in 0..(count - 1)
        BY DEF TypeOK
      <4>. QED
        BY <2>1, <4>1 DEF TypeOK, Store
    <3>2. [i \in 1..count |-> [key |-> store.list[i - 1], old |-> Nil]] \in [1..count -> Transition]
      BY <3>1 DEF Transition, Elements
    <3>3. [i \in 1..count |-> [key |-> store.list[i - 1], old |-> Nil]] \in Seq(Transition)
      BY <3>2, SeqDef DEF TypeOK
    <3>. QED
      BY <2>1, <3>3 DEF Job
  <2>3. \A k \in Keys : changes'[k] = changes[k] \/
          (/\ changes[k].status = "none"
           /\ changes'[k] = [status |-> "view", el |-> Lookup(k), index |-> 0, indexProcess |-> FALSE])
    BY <1>12 DEF BeginDrain, View
  <2>4. \A k \in Keys : Lookup(k) \in Elements
    BY DEF Lookup, TypeOK, Change, CommittedElement, Store
  <2>5. ASSUME NEW k \in Keys PROVE changes'[k] \in Change
    <3>1. changes[k] \in Change /\ View(Lookup(k)) \in Change
      BY <2>4 DEF TypeOK, Change, View
    <3>. QED
      BY <2>3, <3>1 DEF View
  <2>6. changes' \in [Keys -> Change]
    BY <1>12, <2>5, Zenon DEF BeginDrain
  <2>7. \A k \in Keys : Lookup(k) # Nil <=> Exists(k)
    BY DEF Lookup, Exists, LayersAgree
  <2>8. ASSUME NEW k \in Keys PROVE (Base(k)' <=> Base(k)) /\ (Exists(k)' <=> Exists(k))
    <3>1. CASE changes'[k] = changes[k]
      BY <2>1, <3>1 DEF Base, Exists
    <3>2. CASE changes[k].status = "none" /\ changes'[k] = View(Lookup(k))
      <4>1. changes'[k].status = "view" /\ changes'[k].el = Lookup(k)
        BY <3>2 DEF View
      <4>. QED
        BY <2>1, <2>7, <4>1 DEF Base, Exists
    <3>. QED
      BY <2>3, <3>1, <3>2 DEF View
  <2>9. \A k \in Keys : changes[k].status = "none" => (Base(k) <=> Exists(k))
    BY DEF Base, Exists
  <2>10. LayersAgree'
    <3>1. ASSUME NEW k \in Keys
          PROVE  changes'[k] = changes[k] \/
            (changes'[k].status = "view" /\ changes'[k].el = Lookup(k) /\ changes[k].status = "none")
      <4>1. CASE changes[k].status = "none" /\ changes'[k] = View(Lookup(k))
        BY <4>1 DEF View
      <4>. QED
        BY <2>3, <4>1 DEF View
    <3>2. SUFFICES ASSUME NEW k \in Keys
                   PROVE  /\ changes'[k].status = "view" => (changes'[k].el # Nil <=> Base(k)')
                          /\ changes'[k].status = "update" => changes'[k].el # Nil
                          /\ changes'[k].status = "del" => changes'[k].el = Nil
                          /\ store.map[k] # Nil <=> k \in store.exists
                          /\ Writable => (Base(k)' <=> k \in store.exists)
      BY <2>1 DEF LayersAgree
    <3>3. CASE changes'[k] = changes[k]
      BY <2>8, <3>3 DEF LayersAgree
    <3>4. CASE changes'[k].status = "view" /\ changes'[k].el = Lookup(k) /\ changes[k].status = "none"
      BY <2>7, <2>8, <2>9, <3>4 DEF LayersAgree
    <3>. QED
      BY <3>1, <3>3, <3>4
  <2>11. Live' = Live /\ {j \in Keys : Base(j)}' = {j \in Keys : Base(j)}
    BY <2>8 DEF Live
  <2>. QED
    BY <2>1, <2>2, <2>6, <2>10, <2>11 DEF TypeOK, CountsAgree
<1>13. ASSUME DrainDelete PROVE CountInvariant'
  <2>. DEFINE t == Head(job.todo)
  <2>1. /\ job.kind = "drain" /\ job.todo # <<>>
        /\ DeleteEffect(t.key)
        /\ job' = [job EXCEPT !.todo = Tail(@)]
        /\ UNCHANGED <<committed, countCommitted, store, transitions, recorded, height, past>>
    BY <1>13 DEF DrainDelete
  <2>2. t \in Transition /\ Tail(job.todo) \in Seq(Transition)
    BY <2>1, HeadTailProperties DEF TypeOK, Job
  <2>3. job' \in Job /\ job'.kind = job.kind
    BY <2>1, <2>2 DEF TypeOK, Job
  <2>4. t.key \in Keys /\ Writable
    BY <2>1, <2>2 DEF Transition, CountsAgree
  <2>5. Decreases(t.key) <=> Exists(t.key)
    BY <2>4, CountsFromChanges
  <2>. HIDE DEF t
  <2>. QED
    BY <2>1, <2>3, <2>4, <2>5, DeleteEffectInvariant DEF TypeOK, CountsAgree
<1>14. ASSUME UNCHANGED vars PROVE CountInvariant'
  BY <1>14 DEF vars, TypeOK, LayersAgree, CountsAgree, Live, Base, Exists
<1>. QED
  BY <1>1, <1>2, <1>3, <1>4, <1>5, <1>6, <1>7, <1>8, <1>9, <1>10, <1>11, <1>12, <1>13, <1>14 DEF Next

-----------------------------------------------------------------------------
\* Every reachable state satisfies the inductive invariant: types, layers and counts.
THEOREM CountInvariantHolds == Spec => []CountInvariant
BY InitCountInvariant, NextCountInvariant, PTL DEF Spec

\* Types are preserved, for every instance; Count in particular never goes below zero.
THEOREM TypeCorrect == Spec => []TypeOK
<1>1. CountInvariant => TypeOK
  BY DEF CountInvariant
<1>. QED
  BY <1>1, CountInvariantHolds, PTL

\* HashMap.Count is the number of keys a reader finds, after any sequence of operations,
\* commits, rollbacks, block saves and reverts, over a writable or a read-only transaction.
THEOREM CountCorrect == Spec => []CountIsCardinality
<1>1. CountInvariant => CountIsCardinality
  BY DEF CountInvariant, CountsAgree, CountIsCardinality
<1>. QED
  BY <1>1, CountInvariantHolds, PTL

\* The layers of the map agree on which keys have an element.
THEOREM LayersCorrect == Spec => []LayersAgree
<1>1. CountInvariant => LayersAgree
  BY DEF CountInvariant
<1>. QED
  BY <1>1, CountInvariantHolds, PTL

-----------------------------------------------------------------------------
(* What a reader finds *)

\* What lies beneath a view is what the view shows; over a writable Tx what the object
\* committed is what Tx holds; without pending changes no entry is written.
FreshLayers ==
    /\ \A k \in Keys : changes[k].status = "view" => changes[k].el = OldElement(k)
    /\ Writable => \A k \in Keys : committed[k].known => committed[k].el = store.map[k]
    /\ ~changed => \A k \in Keys : changes[k].status \in {"none", "view"}

FreshInvariant == CountInvariant /\ FreshLayers

\* Deleting and updating an element write one entry of Changes; the indexes of others may move.
LEMMA DeleteShape ==
  ASSUME TypeOK, NEW k \in Keys, DeleteEffect(k)
  PROVE  /\ changed' = TRUE /\ changes'[k].status = "del" /\ changes'[k].el = Nil
         /\ \A j \in Keys : j # k => changes'[j].status = changes[j].status /\ changes'[j].el = changes[j].el
<1>1. changed' = TRUE
  BY DEF DeleteEffect
<1>2. changes'[k].status = "del" /\ changes'[k].el = Nil
  BY DEF DeleteEffect
<1>3. ASSUME NEW j \in Keys, j # k
      PROVE  changes'[j].status = changes[j].status /\ changes'[j].el = changes[j].el
  <2>1. changes[j] \in Change
    BY DEF TypeOK
  <2>2. changes'[j] = changes[j] \/ \E n : changes'[j] = [changes[j] EXCEPT !.index = n]
    BY <1>3 DEF DeleteEffect
  <2>. QED
    BY <2>1, <2>2 DEF Change
<1>. QED
  BY <1>1, <1>2, <1>3

LEMMA UpdateShape ==
  ASSUME TypeOK, NEW k \in Keys, NEW v \in Values \ Deletable, UpdateEffect(k, v)
  PROVE  /\ changed' = TRUE /\ changes'[k].status = "update" /\ changes'[k].el = v
         /\ \A j \in Keys : j # k => changes'[j] = changes[j]
BY DEF UpdateEffect, TypeOK

\* After a commit no entry is written, the layers agree, and a writable Tx holds what was seen.
LEMMA CommitShape ==
  ASSUME FreshInvariant, CommitEffect
  PROVE  /\ FreshLayers'
         /\ \A k \in Keys : changes'[k].status \in {"none", "view"}
         /\ Writable => \A k \in Keys : store'.map[k] = Lookup(k)
<1>0. TypeOK /\ LayersAgree /\ FreshLayers
  BY DEF FreshInvariant, CountInvariant
<1>. DEFINE dels == {k \in Keys : changes[k].status = "del"}
            ups == {k \in Keys : changes[k].status = "update"}
            gone == dels \cap store.exists
<1>1. ASSUME NEW k \in Keys
      PROVE  /\ k \in dels => /\ changes[k].el = Nil /\ committed'[k].known /\ committed'[k].el = Nil
                              /\ changes'[k].status = "view" /\ changes'[k].el = Nil
             /\ k \in ups => /\ committed'[k].known /\ committed'[k].el = changes[k].el
                             /\ changes'[k].status = "none"
             /\ k \notin dels \cup ups => committed'[k] = committed[k] /\ changes'[k] = changes[k]
  <2>1. changes[k] \in Change /\ (k \in dels => changes[k].el = Nil)
    BY <1>0 DEF TypeOK, LayersAgree
  <2>2. committed'[k] = IF k \in dels
                        THEN [known |-> TRUE, el |-> Nil, stored |-> IF k \in gone THEN "del" ELSE "view"]
                        ELSE IF k \in ups
                        THEN [known |-> TRUE, el |-> changes[k].el, stored |-> "update"]
                        ELSE committed[k]
    BY DEF CommitEffect
  <2>3. changes'[k] = IF k \in ups THEN NoChange
                      ELSE IF k \in dels
                      THEN [changes[k] EXCEPT !.status = "view", !.indexProcess = FALSE]
                      ELSE changes[k]
    BY DEF CommitEffect
  <2>4. ~(k \in dels /\ k \in ups)
    OBVIOUS
  <2>5. NoChange.status = "none"
    BY DEF NoChange
  <2>6. k \in dels => changes'[k].status = "view" /\ changes'[k].el = changes[k].el
    BY <2>1, <2>3, <2>4 DEF Change
  <2>. HIDE DEF dels, ups, gone
  <2>. QED
    BY <2>1, <2>2, <2>3, <2>4, <2>5, <2>6
<1>2. changed' = FALSE
  BY DEF CommitEffect
<1>3. \A k \in Keys : store'.map[k] = IF ~Writable THEN store.map[k]
                                      ELSE IF k \in ups THEN changes[k].el
                                      ELSE IF k \in gone THEN Nil ELSE store.map[k]
  BY DEF CommitEffect
<1>4. \A k \in Keys : changes[k].status \in {"none", "view", "update", "del"}
  BY <1>0 DEF TypeOK, Change
<1>5. \A k \in Keys : k \in dels \ gone => store.map[k] = Nil
  BY <1>0 DEF LayersAgree
<1>6. ASSUME Writable, NEW k \in Keys
      PROVE  store'.map[k] = Lookup(k)
  <2>1. CASE k \in dels \cup ups
    BY <1>1, <1>3, <1>5, <1>6, <2>1 DEF Lookup
  <2>2. CASE k \notin dels \cup ups
    BY <1>0, <1>3, <1>4, <1>6, <2>2 DEF Lookup, FreshLayers, OldElement
  <2>. QED
    BY <2>1, <2>2
<1>7. ASSUME NEW k \in Keys
      PROVE  /\ changes'[k].status \in {"none", "view"}
             /\ changes'[k].status = "view" => changes'[k].el = OldElement(k)'
             /\ Writable /\ committed'[k].known => committed'[k].el = store'.map[k]
  <2>1. CASE k \in dels
    BY <1>1, <1>3, <1>5, <2>1 DEF OldElement
  <2>2. CASE k \in ups
    BY <1>1, <1>3, <2>2 DEF OldElement
  <2>3. CASE k \notin dels \cup ups
    <3>1. committed'[k] = committed[k] /\ changes'[k] = changes[k] /\ store'.map[k] = store.map[k]
      BY <1>1, <1>3, <2>3
    <3>. QED
      BY <1>0, <1>4, <2>3, <3>1 DEF FreshLayers, OldElement
  <2>. QED
    BY <2>1, <2>2, <2>3
<1>. QED
  BY <1>2, <1>6, <1>7 DEF FreshLayers

\* One entry is written, the rest is left alone.
LEMMA FreshWrite ==
  ASSUME FreshLayers, NEW k \in Keys, changed' = TRUE, changes'[k].status \in {"update", "del"},
         \A j \in Keys : j # k => changes'[j].status = changes[j].status /\ changes'[j].el = changes[j].el,
         committed' = committed, store' = store
  PROVE  FreshLayers'
<1>1. \A j \in Keys : OldElement(j)' = OldElement(j)
  BY DEF OldElement
<1>. QED
  BY <1>1 DEF FreshLayers

LEMMA FreshDelete ==
  ASSUME FreshInvariant, NEW k \in Keys, DeleteEffect(k), committed' = committed, store' = store
  PROVE  FreshLayers'
<1>1. TypeOK /\ FreshLayers
  BY DEF FreshInvariant, CountInvariant
<1>. QED
  BY <1>1, DeleteShape, FreshWrite

LEMMA FreshUpdate ==
  ASSUME FreshInvariant, NEW k \in Keys, NEW v \in Values, UpdateEffect(k, v), committed' = committed, store' = store
  PROVE  FreshLayers'
<1>1. TypeOK /\ FreshLayers
  BY DEF FreshInvariant, CountInvariant
<1>2. CASE v \in Deletable
  <2>1. DeleteEffect(k)
    BY <1>2 DEF UpdateEffect
  <2>. QED
    BY <2>1, FreshDelete
<1>3. CASE v \notin Deletable
  BY <1>1, <1>3, UpdateShape, FreshWrite
<1>. QED
  BY <1>2, <1>3

LEMMA FreshNew ==
  ASSUME FreshMap
  PROVE  /\ \A k \in Keys : changes'[k].status = "none" /\ ~committed'[k].known
         /\ FreshLayers'
<1>1. \A k \in Keys : changes'[k].status = "none" /\ ~committed'[k].known
  BY DEF FreshMap, NoChange, NoCommitted
<1>. QED
  BY <1>1 DEF FreshLayers

\* Entries of Changes that are only read.
LEMMA FreshViews ==
  ASSUME FreshLayers, committed' = committed, store' = store, changed' = changed,
         \A k \in Keys : \/ changes'[k] = changes[k]
                         \/ changes[k].status = "none" /\ changes'[k] = View(Lookup(k))
  PROVE  FreshLayers'
<1>1. \A j \in Keys : OldElement(j)' = OldElement(j)
  BY DEF OldElement
<1>2. ASSUME NEW k \in Keys
      PROVE  \/ changes'[k] = changes[k]
             \/ changes'[k].status = "view" /\ changes'[k].el = OldElement(k)
  <2>1. CASE changes[k].status = "none" /\ changes'[k] = View(Lookup(k))
    <3>1. changes'[k].status = "view" /\ changes'[k].el = Lookup(k)
      BY <2>1 DEF View
    <3>2. Lookup(k) = OldElement(k)
      BY <2>1 DEF Lookup, OldElement
    <3>. QED
      BY <3>1, <3>2
  <2>. QED
    BY <2>1
<1>. QED
  BY <1>1, <1>2 DEF FreshLayers

LEMMA FreshStep == FreshInvariant /\ [Next]_vars => FreshLayers'
<1>. SUFFICES ASSUME FreshInvariant, [Next]_vars PROVE FreshLayers'
  OBVIOUS
<1>0. TypeOK /\ FreshLayers
  BY DEF FreshInvariant, CountInvariant
<1>1. ASSUME NEW k \in Keys, Get(k) PROVE FreshLayers'
  <2>1. /\ committed' = committed /\ store' = store /\ changed' = changed /\ changes[k].status = "none"
        /\ changes' = [changes EXCEPT ![k] = View(Lookup(k))]
    BY <1>1 DEF Get
  <2>2. \A j \in Keys : \/ changes'[j] = changes[j]
                        \/ changes[j].status = "none" /\ changes'[j] = View(Lookup(j))
    BY <1>0, <2>1 DEF TypeOK
  <2>. QED
    BY <1>0, <2>1, <2>2, FreshViews
<1>2. ASSUME NEW k \in Keys, Delete(k) PROVE FreshLayers'
  BY <1>2, FreshDelete DEF Delete
<1>3. ASSUME NEW k \in Keys, NEW v \in Values, Create(k, v) \/ Update(k, v) PROVE FreshLayers'
  BY <1>3, FreshUpdate DEF Create, Update
<1>4. ASSUME CommitChanges \/ SaveBlock \/ RevertCommit PROVE FreshLayers'
  BY <1>4, CommitShape DEF CommitChanges, SaveBlock, RevertCommit
<1>5. ASSUME Rollback PROVE FreshLayers'
  <2>1. committed' = committed /\ store' = store /\ \A k \in Keys : changes'[k].status = "none"
    BY <1>5 DEF Rollback, NoChange
  <2>. QED
    BY <1>0, <2>1 DEF FreshLayers
<1>6. ASSUME CreateNewHashMap PROVE FreshLayers'
  BY <1>6, FreshNew DEF CreateNewHashMap
<1>7. ASSUME NEW to \in 0..MaxBlocks, BeginRevert(to) PROVE FreshLayers'
  BY <1>7, FreshNew DEF BeginRevert
<1>8. ASSUME RevertChange PROVE FreshLayers'
  <2>1. PICK t : t = Head(job.todo)
    OBVIOUS
  <2>2. /\ job.todo # <<>> /\ committed' = committed /\ store' = store
        /\ (t.old = Nil /\ DeleteEffect(t.key)) \/ (t.old # Nil /\ UpdateEffect(t.key, t.old))
    BY <1>8, <2>1 DEF RevertChange
  <2>3. t \in Transition
    BY <1>0, <2>1, <2>2, HeadTailProperties DEF TypeOK, Job
  <2>4. t.key \in Keys /\ (t.old = Nil \/ t.old \in Values)
    BY <2>3 DEF Transition, Elements
  <2>. QED
    BY <2>2, <2>4, FreshDelete, FreshUpdate
<1>9. ASSUME RevertNextBlock PROVE FreshLayers'
  BY <1>0, <1>9 DEF RevertNextBlock, FreshLayers, OldElement
<1>10. ASSUME BeginDrain PROVE FreshLayers'
  <2>1. committed' = committed /\ store' = store /\ changed' = changed
    BY <1>10 DEF BeginDrain
  <2>2. \A j \in Keys : \/ changes'[j] = changes[j]
                        \/ changes[j].status = "none" /\ changes'[j] = View(Lookup(j))
    BY <1>10 DEF BeginDrain
  <2>. QED
    BY <1>0, <2>1, <2>2, FreshViews
<1>11. ASSUME DrainDelete PROVE FreshLayers'
  <2>1. PICK t : t = Head(job.todo)
    OBVIOUS
  <2>2. job.todo # <<>> /\ committed' = committed /\ store' = store /\ DeleteEffect(t.key)
    BY <1>11, <2>1 DEF DrainDelete
  <2>3. t \in Transition
    BY <1>0, <2>1, <2>2, HeadTailProperties DEF TypeOK, Job
  <2>4. t.key \in Keys
    BY <2>3 DEF Transition
  <2>. QED
    BY <2>2, <2>4, FreshDelete
<1>12. ASSUME UNCHANGED vars PROVE FreshLayers'
  BY <1>0, <1>12 DEF vars, FreshLayers, OldElement
<1>. QED
  BY <1>1, <1>2, <1>3, <1>4, <1>5, <1>6, <1>7, <1>8, <1>9, <1>10, <1>11, <1>12 DEF Next

LEMMA InitFresh == Init => FreshLayers
<1>. SUFFICES ASSUME Init PROVE FreshLayers
  OBVIOUS
<1>1. \A k \in Keys : changes[k].status = "none" /\ ~committed[k].known
  BY DEF Init, NoChange, NoCommitted
<1>. QED
  BY <1>1 DEF FreshLayers

LEMMA FreshInvariantHolds == Spec => []FreshInvariant
<1>1. Init => FreshInvariant
  BY InitCountInvariant, InitFresh DEF FreshInvariant
<1>2. FreshInvariant /\ [Next]_vars => FreshInvariant'
  BY NextCountInvariant, FreshStep DEF FreshInvariant
<1>. QED
  BY <1>1, <1>2, PTL DEF Spec

\* With no pending change a reader of a writable map finds exactly what the store holds, after
\* any sequence of reads, writes, commits, rollbacks, block saves and reverts (Get, Exists,
\* CommitChanges, Rollback): no view or committed element kept in memory goes stale.
THEOREM ReadsCorrect == Spec => []ReadsAreFresh
<1>1. FreshInvariant => ReadsAreFresh
  <2>. SUFFICES ASSUME FreshInvariant, Writable, ~changed, NEW k \in Keys
                PROVE  Lookup(k) = store.map[k]
    BY DEF ReadsAreFresh
  <2>1. FreshLayers
    BY DEF FreshInvariant
  <2>. QED
    BY <2>1 DEF FreshLayers, Lookup, OldElement
<1>. QED
  BY <1>1, FreshInvariantHolds, PTL

-----------------------------------------------------------------------------
(* What a revert gives back *)

\* No element that deletes itself is ever stored.
Storable(map) == \A k \in Keys : map[k] \notin Deletable
OnlyStorable ==
    /\ Storable(store.map) /\ \A h \in 1..height : Storable(past[h])
    /\ \A k \in Keys : changes[k].status = "update" => changes[k].el \notin Deletable

\* Undoing the recorded changes of list turns the map new into the map old.
Undoes(list, old, new) ==
    /\ \A i \in 1..Len(list) : list[i].old = old[list[i].key]
    /\ \A k \in Keys : (\A i \in 1..Len(list) : list[i].key # k) => new[k] = old[k]

\* The map that a reader sees.
Seen == [k \in Keys |-> Lookup(k)]

\* The recorded changes of a height that a revert reads.
Effective(h) == IF Collected /\ h \notin recorded THEN <<>> ELSE transitions[h]

\* What is recorded under each height undoes its block, and what is left of the block that is
\* being undone turns the map that is seen into the one stored before that block.
HistoryIsKept ==
    /\ \A h \in 1..(height - 1) : Undoes(Effective(h), past[h], past[h + 1])
    /\ job.kind # "revert" /\ height > 0 => Undoes(Effective(height), past[height], store.map)
    /\ job.kind = "revert" => job.to < height /\ Undoes(job.todo, past[height], Seen)

RevertInvariant == FreshInvariant /\ OnlyStorable /\ HistoryIsKept

\* An order of a set names all of it.
LEMMA OrdersCover ==
  ASSUME NEW S \in SUBSET Keys, NEW order \in Orders(S), NEW k \in S
  PROVE  \E i \in 1..Len(order) : order[i] = k
<1>1. Cardinality(S) \in Nat /\ IsFiniteSet(S)
  BY FiniteParts
<1>2. PICK n \in Nat : n = Cardinality(S) /\ Len(order) = n
  BY <1>1, OrdersAreSequences
<1>3. order \in [1..n -> S] /\ \A i, j \in 1..n : order[i] = order[j] => i = j
  BY <1>2 DEF Orders
<1>4. order \in Injection(1..n, S)
  BY <1>3 DEF Injection, IsInjective
<1>5. Cardinality(1..n) = n
  BY FS_Interval
<1>6. order \in Surjection(1..n, S)
  BY <1>1, <1>2, <1>4, <1>5, FS_Injection
<1>. QED
  BY <1>2, <1>6 DEF Surjection

\* The recorded changes may be undone in the opposite order.
LEMMA UndoesBackwards ==
  ASSUME NEW list \in Seq(Transition), NEW old, NEW new, Undoes(list, old, new), NEW back,
         back = [i \in 1..Len(list) |-> list[Len(list) + 1 - i]]
  PROVE  Undoes(back, old, new)
<1>1. PICK n \in Nat : n = Len(list)
  BY LenProperties
<1>2. back \in Seq(Transition) /\ Len(back) = n /\ \A i \in 1..n : back[i] = list[n + 1 - i]
  <2>1. \A i \in 1..n : n + 1 - i \in 1..n /\ list[n + 1 - i] \in Transition
    BY <1>1, ElementOfSeq
  <2>2. back \in [1..n -> Transition]
    BY <1>1, <2>1
  <2>3. back \in Seq(Transition)
    BY <2>2, SeqDef
  <2>4. Len(back) = n
    BY <2>2, <2>3, LenProperties
  <2>. QED
    BY <1>1, <2>3, <2>4
<1>3. \A i \in 1..n : n + 1 - i \in 1..n
  OBVIOUS
<1>4. \A i \in 1..n : list[i].old = old[list[i].key]
  BY <1>1 DEF Undoes
<1>5. \A i \in 1..n : back[i].old = old[back[i].key]
  BY <1>2, <1>3, <1>4
<1>6. ASSUME NEW k \in Keys, \A i \in 1..n : back[i].key # k
      PROVE  new[k] = old[k]
  <2>1. ASSUME NEW i \in 1..n PROVE list[i].key # k
    <3>1. n + 1 - i \in 1..n /\ n + 1 - (n + 1 - i) = i
      OBVIOUS
    <3>2. back[n + 1 - i] = list[n + 1 - (n + 1 - i)]
      BY <1>2, <3>1
    <3>. QED
      BY <1>6, <3>1, <3>2
  <2>. QED
    BY <1>1, <2>1 DEF Undoes
<1>. QED
  BY <1>2, <1>5, <1>6 DEF Undoes

\* Only what the maps hold matters.
LEMMA UndoesSame ==
  ASSUME NEW list, NEW old, NEW new, NEW other, Undoes(list, old, new), \A k \in Keys : other[k] = new[k]
  PROVE  Undoes(list, old, other)
BY DEF Undoes

\* The first recorded change is undone.
LEMMA UndoesHead ==
  ASSUME NEW list \in Seq(Transition), list # <<>>, NEW old, NEW new, NEW other, Undoes(list, old, new),
         other[Head(list).key] = Head(list).old,
         \A k \in Keys : k # Head(list).key => other[k] = new[k]
  PROVE  Undoes(Tail(list), old, other)
<1>1. PICK n \in Nat : n = Len(list)
  BY LenProperties
<1>2. n > 0 /\ Len(Tail(list)) = n - 1 /\ Head(list) = list[1]
      /\ \A i \in 1..(n - 1) : Tail(list)[i] = list[i + 1]
  BY <1>1, HeadTailProperties
<1>3. \A i \in 1..n : list[i].old = old[list[i].key]
  BY <1>1 DEF Undoes
<1>4. ASSUME NEW i \in 1..(n - 1)
      PROVE  Tail(list)[i].old = old[Tail(list)[i].key]
  <2>1. i + 1 \in 1..n /\ Tail(list)[i] = list[i + 1]
    BY <1>2
  <2>. QED
    BY <1>3, <2>1
<1>5. ASSUME NEW k \in Keys, \A i \in 1..(n - 1) : Tail(list)[i].key # k
      PROVE  other[k] = old[k]
  <2>1. CASE k = Head(list).key
    <3>1. 1 \in 1..n
      BY <1>2
    <3>2. Head(list).old = old[k]
      BY <1>2, <1>3, <2>1, <3>1
    <3>. QED
      BY <2>1, <3>2
  <2>2. CASE k # Head(list).key
    <3>1. ASSUME NEW i \in 1..n PROVE list[i].key # k
      <4>1. CASE i = 1
        BY <1>2, <2>2, <4>1
      <4>2. CASE i # 1
        <5>1. i - 1 \in 1..(n - 1) /\ (i - 1) + 1 = i
          BY <4>2
        <5>2. Tail(list)[i - 1] = list[i]
          BY <1>2, <5>1
        <5>. QED
          BY <1>5, <5>1, <5>2
      <4>. QED
        BY <4>1, <4>2
    <3>2. new[k] = old[k]
      BY <1>1, <3>1 DEF Undoes
    <3>. QED
      BY <2>2, <3>2
  <2>. QED
    BY <2>1, <2>2
<1>. QED
  BY <1>2, <1>4, <1>5 DEF Undoes

\* What the invariant is made of.
LEMMA RevertParts ==
  ASSUME RevertInvariant
  PROVE  /\ FreshInvariant /\ TypeOK /\ LayersAgree /\ FreshLayers /\ OnlyStorable /\ HistoryIsKept
         /\ height \in Nat /\ height <= MaxBlocks /\ past \in Seq([Keys -> Elements]) /\ Len(past) = height
         /\ job.kind = "revert" => Writable
<1>1. FreshInvariant /\ TypeOK /\ LayersAgree /\ CountsAgree /\ FreshLayers /\ OnlyStorable /\ HistoryIsKept
  BY DEF RevertInvariant, FreshInvariant, CountInvariant
<1>. QED
  BY <1>1, BoundAssumption DEF TypeOK, CountsAgree

\* What a reader sees after an element is deleted, or updated.
LEMMA SeenAfterDelete ==
  ASSUME TypeOK, NEW k \in Keys, DeleteEffect(k), committed' = committed, store' = store
  PROVE  Lookup(k)' = Nil /\ \A j \in Keys : j # k => Lookup(j)' = Lookup(j)
<1>1. /\ changes'[k].status = "del" /\ changes'[k].el = Nil
      /\ \A j \in Keys : j # k => changes'[j].status = changes[j].status /\ changes'[j].el = changes[j].el
  BY DeleteShape
<1>. QED
  BY <1>1 DEF Lookup

LEMMA SeenAfterUpdate ==
  ASSUME TypeOK, NEW k \in Keys, NEW v \in Values \ Deletable, UpdateEffect(k, v), committed' = committed,
         store' = store
  PROVE  Lookup(k)' = v /\ \A j \in Keys : j # k => Lookup(j)' = Lookup(j)
<1>1. /\ changes'[k].status = "update" /\ changes'[k].el = v
      /\ \A j \in Keys : j # k => changes'[j] = changes[j]
  BY UpdateShape
<1>. QED
  BY <1>1 DEF Lookup

\* What is seen may be stored.
LEMMA SeenIsStorable ==
  ASSUME RevertInvariant, Writable
  PROVE  \A k \in Keys : Lookup(k) \notin Deletable
<1>0. TypeOK /\ LayersAgree /\ FreshLayers /\ OnlyStorable
  BY RevertParts
<1>1. Nil \notin Deletable
  BY NilAssumption, DeletableAssumption
<1>2. ASSUME NEW k \in Keys PROVE Lookup(k) \notin Deletable
  <2>1. changes[k].status \in {"none", "view", "update", "del"} /\ store.map[k] \notin Deletable
    BY <1>0 DEF TypeOK, Change, OnlyStorable, Storable
  <2>2. CASE changes[k].status \in {"none", "view"}
    <3>1. Lookup(k) = OldElement(k)
      BY <1>0, <2>2 DEF FreshLayers, Lookup, OldElement
    <3>2. OldElement(k) = store.map[k]
      BY <1>0 DEF FreshLayers, OldElement
    <3>. QED
      BY <2>1, <3>1, <3>2
  <2>3. CASE changes[k].status \in {"update", "del"}
    <3>1. Lookup(k) = changes[k].el
      BY <2>3 DEF Lookup
    <3>. QED
      BY <1>0, <1>1, <2>3, <3>1 DEF LayersAgree, OnlyStorable
  <2>. QED
    BY <2>1, <2>2, <2>3
<1>. QED
  BY <1>2

\* A commit stores nothing that deletes itself.
LEMMA CommitStorable ==
  ASSUME RevertInvariant, CommitEffect
  PROVE  Storable(store'.map) /\ \A k \in Keys : changes'[k].status # "update"
<1>0. FreshInvariant /\ OnlyStorable
  BY RevertParts
<1>1. \A k \in Keys : changes'[k].status \in {"none", "view"}
  BY <1>0, CommitShape
<1>2. CASE Writable
  BY <1>0, <1>2, CommitShape, SeenIsStorable DEF Storable
<1>3. CASE ~Writable
  <2>1. store' = store
    BY <1>3 DEF CommitEffect
  <2>. QED
    BY <1>0, <1>1, <2>1 DEF OnlyStorable
<1>. QED
  BY <1>1, <1>2, <1>3

\* A step that saves and undoes no block, and commits nothing.
LEMMA StorableSame ==
  ASSUME OnlyStorable, store' = store, past' = past, height' = height,
         \A k \in Keys : changes'[k].status = "update" =>
            \/ changes[k].status = "update" /\ changes'[k].el = changes[k].el
            \/ changes'[k].el \notin Deletable
  PROVE  OnlyStorable'
BY DEF OnlyStorable

LEMMA StorableDelete ==
  ASSUME TypeOK, OnlyStorable, NEW k \in Keys, DeleteEffect(k), store' = store, past' = past, height' = height
  PROVE  OnlyStorable'
<1>1. /\ changes'[k].status = "del"
      /\ \A j \in Keys : j # k => changes'[j].status = changes[j].status /\ changes'[j].el = changes[j].el
  BY DeleteShape
<1>. QED
  BY <1>1, StorableSame

LEMMA StorableUpdate ==
  ASSUME TypeOK, OnlyStorable, NEW k \in Keys, NEW v \in Values, UpdateEffect(k, v), store' = store, past' = past,
         height' = height
  PROVE  OnlyStorable'
<1>1. CASE v \in Deletable
  <2>1. DeleteEffect(k)
    BY <1>1 DEF UpdateEffect
  <2>. QED
    BY <2>1, StorableDelete
<1>2. CASE v \notin Deletable
  <2>1. changes'[k].el = v /\ \A j \in Keys : j # k => changes'[j] = changes[j]
    BY <1>2, UpdateShape
  <2>. QED
    BY <1>2, <2>1, StorableSame
<1>. QED
  BY <1>1, <1>2

\* The past is shortened.
LEMMA PastShortened ==
  ASSUME RevertInvariant, NEW n \in Nat, n <= height, past' = SubSeq(past, 1, n)
  PROVE  \A h \in 1..n : past'[h] = past[h]
<1>1. past \in Seq([Keys -> Elements]) /\ Len(past) = height /\ height \in Nat
  BY RevertParts
<1>. QED
  BY <1>1

LEMMA StorableStep == RevertInvariant /\ [Next]_vars => OnlyStorable'
<1>. SUFFICES ASSUME RevertInvariant, [Next]_vars PROVE OnlyStorable'
  OBVIOUS
<1>0. /\ FreshInvariant /\ TypeOK /\ OnlyStorable /\ height \in Nat /\ past \in Seq([Keys -> Elements])
      /\ Len(past) = height
  BY RevertParts
<1>1. ASSUME NEW k \in Keys, Get(k) PROVE OnlyStorable'
  <2>1. store' = store /\ past' = past /\ height' = height
        /\ changes' = [changes EXCEPT ![k] = View(Lookup(k))] /\ View(Lookup(k)).status = "view"
    BY <1>1 DEF Get, View
  <2>2. \A j \in Keys : changes'[j].status = "update" => changes'[j] = changes[j]
    BY <1>0, <2>1 DEF TypeOK
  <2>. QED
    BY <1>0, <2>1, <2>2, StorableSame
<1>2. ASSUME NEW k \in Keys, Delete(k) PROVE OnlyStorable'
  BY <1>0, <1>2, StorableDelete DEF Delete
<1>3. ASSUME NEW k \in Keys, NEW v \in Values, Create(k, v) \/ Update(k, v) PROVE OnlyStorable'
  BY <1>0, <1>3, StorableUpdate DEF Create, Update
<1>4. ASSUME CommitChanges PROVE OnlyStorable'
  <2>1. CommitEffect /\ past' = past /\ height' = height
    BY <1>4 DEF CommitChanges
  <2>. QED
    BY <1>0, <2>1, CommitStorable DEF OnlyStorable
<1>5. ASSUME SaveBlock PROVE OnlyStorable'
  <2>1. CommitEffect /\ past' = Append(past, store.map) /\ height' = height + 1
    BY <1>5 DEF SaveBlock
  <2>2. \A h \in 1..(height + 1) : past'[h] = IF h = height + 1 THEN store.map ELSE past[h]
    BY <1>0, <2>1
  <2>3. \A h \in 1..(height + 1) : Storable(past'[h])
    <3>1. \A h \in 1..(height + 1) : h # height + 1 => h \in 1..height
      BY <1>0
    <3>. QED
      BY <1>0, <2>2, <3>1 DEF OnlyStorable
  <2>. QED
    BY <2>1, <2>3, CommitStorable DEF OnlyStorable
<1>6. ASSUME RevertCommit PROVE OnlyStorable'
  <2>1. CommitEffect /\ past' = SubSeq(past, 1, job.to) /\ height' = job.to /\ height = job.to + 1
    BY <1>6 DEF RevertCommit
  <2>2. job.to \in Nat /\ job.to <= height
    BY <1>0, <2>1 DEF TypeOK, Job
  <2>3. \A h \in 1..job.to : past'[h] = past[h] /\ h \in 1..height
    BY <1>0, <2>1, <2>2, PastShortened
  <2>. QED
    BY <1>0, <2>1, <2>3, CommitStorable DEF OnlyStorable
<1>7. ASSUME RevertNextBlock PROVE OnlyStorable'
  <2>1. /\ past' = SubSeq(past, 1, height - 1) /\ height' = height - 1 /\ height > job.to + 1
        /\ changes' = changes /\ store' = store
    BY <1>7 DEF RevertNextBlock
  <2>2. height - 1 \in Nat /\ height - 1 <= height
    BY <1>0, <2>1 DEF TypeOK, Job
  <2>3. \A h \in 1..(height - 1) : past'[h] = past[h] /\ h \in 1..height
    BY <1>0, <2>1, <2>2, PastShortened
  <2>. QED
    BY <1>0, <2>1, <2>3 DEF OnlyStorable
<1>8. ASSUME Rollback \/ CreateNewHashMap \/ \E to \in 0..MaxBlocks : BeginRevert(to) PROVE OnlyStorable'
  <2>1. store' = store /\ past' = past /\ height' = height /\ \A k \in Keys : changes'[k].status = "none"
    BY <1>8 DEF Rollback, CreateNewHashMap, BeginRevert, FreshMap, NoChange
  <2>. QED
    BY <1>0, <2>1, StorableSame
<1>9. ASSUME RevertChange PROVE OnlyStorable'
  <2>1. PICK t : t = Head(job.todo)
    OBVIOUS
  <2>2. /\ job.todo # <<>> /\ store' = store /\ past' = past /\ height' = height
        /\ (t.old = Nil /\ DeleteEffect(t.key)) \/ (t.old # Nil /\ UpdateEffect(t.key, t.old))
    BY <1>9, <2>1 DEF RevertChange
  <2>3. t \in Transition
    BY <1>0, <2>1, <2>2, HeadTailProperties DEF TypeOK, Job
  <2>4. t.key \in Keys /\ (t.old = Nil \/ t.old \in Values)
    BY <2>3 DEF Transition, Elements
  <2>. QED
    BY <1>0, <2>2, <2>4, StorableDelete, StorableUpdate
<1>10. ASSUME BeginDrain PROVE OnlyStorable'
  <2>1. store' = store /\ past' = past /\ height' = height
    BY <1>10 DEF BeginDrain
  <2>2. \A j \in Keys : changes'[j] = changes[j] \/ changes'[j] = View(Lookup(j))
    BY <1>10 DEF BeginDrain
  <2>3. ASSUME NEW j \in Keys, changes'[j].status = "update" PROVE changes'[j] = changes[j]
    <3>1. View(Lookup(j)).status = "view"
      BY DEF View
    <3>. QED
      BY <2>2, <2>3, <3>1
  <2>. QED
    BY <1>0, <2>1, <2>3, StorableSame
<1>11. ASSUME DrainDelete PROVE OnlyStorable'
  <2>1. PICK t : t = Head(job.todo)
    OBVIOUS
  <2>2. /\ job.todo # <<>> /\ store' = store /\ past' = past /\ height' = height /\ DeleteEffect(t.key)
    BY <1>11, <2>1 DEF DrainDelete
  <2>3. t \in Transition
    BY <1>0, <2>1, <2>2, HeadTailProperties DEF TypeOK, Job
  <2>4. t.key \in Keys
    BY <2>3 DEF Transition
  <2>. QED
    BY <1>0, <2>2, <2>4, StorableDelete
<1>12. ASSUME UNCHANGED vars PROVE OnlyStorable'
  BY <1>0, <1>12 DEF vars, OnlyStorable
<1>. QED
  BY <1>1, <1>2, <1>3, <1>4, <1>5, <1>6, <1>7, <1>8, <1>9, <1>10, <1>11, <1>12 DEF Next

\* A step that saves and undoes no block.
LEMMA HistorySame ==
  ASSUME RevertInvariant, job.kind # "revert", job'.kind # "revert", height' = height, past' = past,
         \A h \in 1..height : Effective(h)' = Effective(h),
         \A k \in Keys : store'.map[k] = store.map[k]
  PROVE  HistoryIsKept'
<1>0. HistoryIsKept /\ height \in Nat
  BY RevertParts
<1>1. ASSUME NEW h \in 1..(height - 1) PROVE Undoes(Effective(h)', past[h], past[h + 1])
  <2>1. h \in 1..height
    BY <1>0
  <2>. QED
    BY <1>0, <2>1 DEF HistoryIsKept
<1>2. ASSUME height > 0 PROVE Undoes(Effective(height)', past[height], store'.map)
  <2>1. height \in 1..height
    BY <1>0, <1>2
  <2>2. Undoes(Effective(height), past[height], store.map)
    BY <1>0, <1>2 DEF HistoryIsKept
  <2>3. Undoes(Effective(height), past[height], store'.map)
    BY <2>2, UndoesSame
  <2>4. Effective(height)' = Effective(height)
    BY <2>1
  <2>5. PICK n : n = height
    OBVIOUS
  <2>. QED
    BY <2>3, <2>4, <2>5
<1>. QED
  BY <1>1, <1>2 DEF HistoryIsKept

\* A new map clears only the transitions of heights that are not stored.
LEMMA FreshMapHistory ==
  ASSUME RevertInvariant, FreshMap
  PROVE  \A h \in 1..height : Effective(h)' = Effective(h)
<1>0. TypeOK /\ height \in Nat /\ height <= MaxBlocks
  BY RevertParts
<1>1. ASSUME NEW h \in 1..height PROVE Effective(h)' = Effective(h)
  <2>1. h \in Heights /\ ~(h > height) /\ h <= height
    BY <1>0, BoundAssumption DEF Heights
  <2>2. transitions'[h] = transitions[h] /\ (h \in recorded' <=> h \in recorded)
    BY <1>0, <2>1 DEF FreshMap, TypeOK
  <2>. QED
    BY <2>2 DEF Effective
<1>. QED
  BY <1>1

\* The list that a revert reads is the recorded one, backwards.
LEMMA ReadUndoes ==
  ASSUME RevertInvariant, NEW h \in 1..height, NEW old, NEW new, Undoes(Effective(h), old, new)
  PROVE  Undoes(ReadTransitional(h), old, new)
<1>0. TypeOK /\ height \in Nat /\ height <= MaxBlocks
  BY RevertParts
<1>1. h \in Heights
  BY <1>0, BoundAssumption DEF Heights
<1>2. Effective(h) \in Seq(Transition)
  BY <1>0, <1>1, EmptySeq DEF Effective, TypeOK
<1>3. PICK list : list = Effective(h)
  OBVIOUS
<1>4. ReadTransitional(h) = [i \in 1..Len(list) |-> list[Len(list) + 1 - i]]
  BY <1>3 DEF ReadTransitional, Effective
<1>. QED
  BY <1>2, <1>3, <1>4, UndoesBackwards

\* The highest block is about to be undone.
LEMMA BeginRevertHistory ==
  ASSUME RevertInvariant, NEW to \in 0..MaxBlocks, BeginRevert(to)
  PROVE  HistoryIsKept'
<1>0. HistoryIsKept /\ height \in Nat /\ job = Idle /\ to < height
  BY RevertParts DEF BeginRevert
<1>1. PICK n \in Nat : n = height
  BY <1>0
<1>2. /\ FreshMap /\ store' = store /\ height' = n /\ past' = past /\ n > 0 /\ n \in 1..n
      /\ job' = [kind |-> "revert", todo |-> ReadTransitional(n), to |-> to]
  BY <1>0, <1>1 DEF BeginRevert
<1>3. \A h \in 1..n : Effective(h)' = Effective(h)
  BY <1>1, <1>2, FreshMapHistory
<1>4. ASSUME NEW h \in 1..(n - 1) PROVE Undoes(Effective(h)', past'[h], past'[h + 1])
  <2>1. h \in 1..n
    OBVIOUS
  <2>. QED
    BY <1>0, <1>1, <1>2, <1>3, <2>1 DEF HistoryIsKept
<1>5. Undoes(Effective(n), past[n], store.map)
  BY <1>0, <1>1, <1>2 DEF HistoryIsKept, Idle
<1>6. Undoes(ReadTransitional(n), past[n], store.map)
  BY <1>1, <1>2, <1>5, ReadUndoes
<1>7. \A k \in Keys : Seen'[k] = store.map[k]
  <2>1. \A k \in Keys : changes'[k].status = "none" /\ ~committed'[k].known
    BY <1>2, FreshNew
  <2>. QED
    BY <1>2, <2>1 DEF Seen, Lookup
<1>8. Undoes(ReadTransitional(n), past[n], Seen')
  BY <1>6, <1>7, UndoesSame
<1>9. job'.kind = "revert" /\ job'.todo = ReadTransitional(n) /\ job'.to = to
  BY <1>2
<1>. QED
  BY <1>0, <1>1, <1>2, <1>4, <1>8, <1>9 DEF HistoryIsKept

\* One recorded change is undone.
LEMMA RevertChangeHistory ==
  ASSUME RevertInvariant, RevertChange
  PROVE  HistoryIsKept'
<1>0. TypeOK /\ OnlyStorable /\ HistoryIsKept /\ height \in Nat
  BY RevertParts
<1>1. PICK t, list, n : t = Head(list) /\ list = job.todo /\ n = height
  OBVIOUS
<1>2. /\ job.kind = "revert" /\ list # <<>> /\ committed' = committed /\ store' = store /\ past' = past /\ height' = n
      /\ transitions' = transitions /\ recorded' = recorded
      /\ job' = [job EXCEPT !.todo = Tail(list)]
      /\ (t.old = Nil /\ DeleteEffect(t.key)) \/ (t.old # Nil /\ UpdateEffect(t.key, t.old))
  BY <1>1 DEF RevertChange
<1>3. list \in Seq(Transition) /\ job \in Job
  BY <1>0, <1>1 DEF TypeOK, Job
<1>4. t \in Transition
  BY <1>1, <1>2, <1>3, HeadTailProperties
<1>5. t.key \in Keys /\ (t.old = Nil \/ t.old \in Values)
  BY <1>4 DEF Transition, Elements
<1>6. Undoes(list, past[n], Seen) /\ job.to < n /\ n \in Nat
  BY <1>0, <1>1, <1>2 DEF HistoryIsKept
<1>7. t.old = past[n][t.key] /\ n \in 1..n
  <2>1. 1 \in 1..Len(list) /\ t = list[1]
    BY <1>1, <1>2, <1>3, HeadTailProperties, LenProperties
  <2>2. n > 0
    BY <1>3, <1>6 DEF Job
  <2>. QED
    BY <1>6, <2>1, <2>2 DEF Undoes
<1>8. t.old \notin Deletable
  BY <1>0, <1>1, <1>5, <1>7 DEF OnlyStorable, Storable
<1>9. Lookup(t.key)' = t.old /\ \A j \in Keys : j # t.key => Lookup(j)' = Lookup(j)
  <2>1. CASE t.old = Nil /\ DeleteEffect(t.key)
    BY <1>0, <1>2, <1>5, <2>1, SeenAfterDelete
  <2>2. CASE t.old # Nil /\ UpdateEffect(t.key, t.old)
    BY <1>0, <1>2, <1>5, <1>8, <2>2, SeenAfterUpdate
  <2>. QED
    BY <1>2, <2>1, <2>2
<1>10. Undoes(Tail(list), past[n], Seen')
  <2>1. Seen'[Head(list).key] = Head(list).old
    BY <1>1, <1>5, <1>9 DEF Seen
  <2>2. \A k \in Keys : k # Head(list).key => Seen'[k] = Seen[k]
    BY <1>1, <1>9 DEF Seen
  <2>. QED
    BY <1>2, <1>3, <1>6, <2>1, <2>2, UndoesHead
<1>11. job'.kind = "revert" /\ job'.todo = Tail(list) /\ job'.to = job.to
  BY <1>2, <1>3 DEF Job
<1>12. \A h \in 1..(n - 1) : Undoes(Effective(h)', past[h], past[h + 1])
  BY <1>0, <1>1, <1>2 DEF HistoryIsKept, Effective
<1>. QED
  BY <1>2, <1>6, <1>10, <1>11, <1>12 DEF HistoryIsKept

\* A block is undone, the one below it is next.
LEMMA RevertNextHistory ==
  ASSUME RevertInvariant, RevertNextBlock
  PROVE  HistoryIsKept'
<1>0. TypeOK /\ HistoryIsKept /\ height \in Nat
  BY RevertParts
<1>1. PICK n : n = height - 1
  OBVIOUS
<1>2. /\ job.kind = "revert" /\ job.todo = <<>> /\ height > job.to + 1 /\ height' = n
      /\ job' = [job EXCEPT !.todo = ReadTransitional(n)] /\ past' = SubSeq(past, 1, n)
      /\ changes' = changes /\ committed' = committed /\ store' = store /\ transitions' = transitions
      /\ recorded' = recorded
  BY <1>1 DEF RevertNextBlock
<1>3. job \in Job /\ job.to \in Nat
  BY <1>0 DEF TypeOK, Job
<1>4. n \in Nat /\ n + 1 = height /\ n \in 1..n /\ n \in 1..height /\ n <= height /\ job.to < n
  BY <1>0, <1>1, <1>2, <1>3
<1>5. \A h \in 1..n : past'[h] = past[h]
  BY <1>2, <1>4, PastShortened
<1>6. \A k \in Keys : Seen[k] = past[height][k]
  <2>1. Undoes(<<>>, past[height], Seen)
    BY <1>0, <1>2 DEF HistoryIsKept
  <2>. QED
    BY <2>1 DEF Undoes
<1>7. \A h \in 1..n : Undoes(Effective(h), past[h], past[h + 1])
  <2>1. height - 1 = n
    BY <1>1
  <2>. QED
    BY <1>0, <2>1 DEF HistoryIsKept
<1>8. Undoes(ReadTransitional(n), past[n], past[n + 1])
  BY <1>4, <1>7, ReadUndoes
<1>9. Undoes(ReadTransitional(n), past'[n], Seen')
  <2>1. Seen' = Seen
    BY <1>2 DEF Seen, Lookup
  <2>2. \A k \in Keys : Seen[k] = past[n + 1][k]
    BY <1>4, <1>6
  <2>. QED
    BY <1>4, <1>5, <1>8, <2>1, <2>2, UndoesSame
<1>10. \A h \in 1..(n - 1) : Undoes(Effective(h)', past'[h], past'[h + 1])
  <2>1. ASSUME NEW h \in 1..(n - 1) PROVE h \in 1..n /\ h + 1 \in 1..n
    BY <1>4
  <2>2. \A h \in 1..n : Effective(h)' = Effective(h)
    BY <1>2 DEF Effective
  <2>. QED
    BY <1>5, <1>7, <2>1, <2>2
<1>11. job'.kind = "revert" /\ job'.todo = ReadTransitional(n) /\ job'.to = job.to
  BY <1>2, <1>3 DEF Job
<1>. QED
  BY <1>2, <1>4, <1>9, <1>10, <1>11 DEF HistoryIsKept

\* All the blocks are undone: the store holds what was stored before them.
LEMMA RevertCommitHistory ==
  ASSUME RevertInvariant, RevertCommit
  PROVE  HistoryIsKept' /\ \A k \in Keys : store'.map[k] = past[job.to + 1][k]
<1>0. FreshInvariant /\ TypeOK /\ HistoryIsKept /\ height \in Nat
  BY RevertParts
<1>1. PICK n : n = job.to
  OBVIOUS
<1>2. /\ job.kind = "revert" /\ job.todo = <<>> /\ height = n + 1 /\ height' = n /\ job' = Extend
      /\ past' = SubSeq(past, 1, n) /\ CommitEffect /\ transitions' = transitions /\ recorded' = recorded
  BY <1>1 DEF RevertCommit
<1>3. n \in Nat /\ n <= height /\ Writable
  BY <1>0, <1>1, <1>2, RevertParts DEF TypeOK, Job
<1>4. \A h \in 1..n : past'[h] = past[h]
  BY <1>2, <1>3, PastShortened
<1>5. \A k \in Keys : store'.map[k] = past[n + 1][k]
  <2>1. Undoes(<<>>, past[n + 1], Seen)
    BY <1>0, <1>2 DEF HistoryIsKept
  <2>2. \A k \in Keys : Lookup(k) = past[n + 1][k]
    BY <2>1 DEF Undoes, Seen
  <2>3. \A k \in Keys : store'.map[k] = Lookup(k)
    BY <1>0, <1>2, <1>3, CommitShape
  <2>. QED
    BY <2>2, <2>3
<1>6. \A h \in 1..n : Undoes(Effective(h), past[h], past[h + 1])
  <2>1. height - 1 = n
    BY <1>2, <1>3
  <2>. QED
    BY <1>0, <2>1 DEF HistoryIsKept
<1>7. \A h \in 1..n : Effective(h)' = Effective(h)
  BY <1>2 DEF Effective
<1>8. \A h \in 1..(n - 1) : Undoes(Effective(h)', past'[h], past'[h + 1])
  <2>1. ASSUME NEW h \in 1..(n - 1) PROVE h \in 1..n /\ h + 1 \in 1..n
    BY <1>3
  <2>. QED
    BY <1>4, <1>6, <1>7, <2>1
<1>9. ASSUME n > 0 PROVE Undoes(Effective(n)', past'[n], store'.map)
  <2>1. n \in 1..n
    BY <1>3, <1>9
  <2>2. Undoes(Effective(n), past[n], past[n + 1])
    BY <1>6, <2>1
  <2>. QED
    BY <1>4, <1>5, <1>7, <2>1, <2>2, UndoesSame
<1>10. job'.kind = "extend"
  BY <1>2 DEF Extend
<1>. QED
  BY <1>1, <1>2, <1>5, <1>8, <1>9, <1>10 DEF HistoryIsKept

\* What a saved block records undoes it.
LEMMA RecordedBlock ==
  ASSUME RevertInvariant, Collected, Writable, CommitEffect, NEW h \in Heights, NEW order \in Orders(Touched),
         WriteTransitional(order, h)
  PROVE  Undoes(Effective(h)', store.map, store'.map)
<1>0. FreshInvariant /\ TypeOK /\ FreshLayers
  BY RevertParts
<1>1. order \in Seq(Keys)
  BY OrdersAreSequences DEF Touched
<1>2. \A k \in Keys : OldElement(k) = store.map[k]
  BY <1>0 DEF FreshLayers, OldElement
<1>3. ASSUME NEW k \in Keys, k \notin Touched PROVE store'.map[k] = store.map[k]
  <2>1. changes[k].status \in {"none", "view"}
    BY <1>0, <1>3 DEF Touched, TypeOK, Change
  <2>2. Lookup(k) = OldElement(k)
    BY <1>0, <2>1 DEF FreshLayers, Lookup, OldElement
  <2>3. store'.map[k] = Lookup(k)
    BY <1>0, CommitShape
  <2>. QED
    BY <1>2, <2>2, <2>3
<1>4. ASSUME NEW k \in Keys, \A i \in 1..Len(order) : order[i] # k PROVE store'.map[k] = store.map[k]
  <2>1. k \notin Touched
    <3>. SUFFICES ASSUME k \in Touched PROVE FALSE
      OBVIOUS
    <3>1. Touched \in SUBSET Keys
      BY DEF Touched
    <3>2. \E i \in 1..Len(order) : order[i] = k
      BY <3>1, OrdersCover
    <3>. QED
      BY <1>4, <3>2
  <2>. QED
    BY <1>3, <2>1
<1>5. CASE order = <<>>
  <2>1. h \notin recorded'
    BY <1>5 DEF WriteTransitional
  <2>2. Effective(h)' = <<>>
    BY <2>1 DEF Effective
  <2>3. Len(order) = 0
    BY <1>5
  <2>4. \A k \in Keys : store'.map[k] = store.map[k]
    BY <1>4, <2>3
  <2>. QED
    BY <2>2, <2>4 DEF Undoes
<1>6. CASE order # <<>>
  <2>1. PICK list : list = [i \in 1..Len(order) |-> [key |-> order[i], old |-> OldElement(order[i])]]
    OBVIOUS
  <2>2. h \in recorded' /\ transitions' = [transitions EXCEPT ![h] = list]
    BY <1>6, <2>1 DEF WriteTransitional
  <2>3. Effective(h)' = list
    BY <1>0, <2>2 DEF Effective, TypeOK
  <2>4. PICK n \in Nat : n = Len(order)
    BY <1>1, LenProperties
  <2>5. \A i \in 1..n : order[i] \in Keys
    BY <1>1, <2>4, ElementOfSeq
  <2>6. \A i \in 1..n : list[i].key = order[i] /\ list[i].old = OldElement(order[i])
    BY <2>1, <2>4
  <2>7. Len(list) = n
    <3>1. list \in [1..n -> Transition]
      <4>1. \A k \in Keys : OldElement(k) \in Elements
        BY <1>0 DEF OldElement, TypeOK, CommittedElement, Store
      <4>. QED
        BY <2>1, <2>4, <2>5, <4>1 DEF Transition
    <3>2. list \in Seq(Transition)
      BY <3>1, SeqDef
    <3>. QED
      BY <3>1, <3>2, LenProperties
  <2>8. \A i \in 1..n : list[i].old = store.map[list[i].key]
    BY <1>2, <2>5, <2>6
  <2>9. ASSUME NEW k \in Keys, \A i \in 1..n : list[i].key # k PROVE store'.map[k] = store.map[k]
    <3>1. \A i \in 1..Len(order) : order[i] # k
      BY <2>4, <2>6, <2>9
    <3>. QED
      BY <1>4, <3>1
  <2>10. Undoes(list, store.map, store'.map)
    BY <2>7, <2>8, <2>9 DEF Undoes
  <2>. QED
    BY <2>3, <2>10
<1>. QED
  BY <1>5, <1>6

LEMMA SaveBlockHistory ==
  ASSUME RevertInvariant, Collected, SaveBlock
  PROVE  HistoryIsKept'
<1>0. /\ TypeOK /\ HistoryIsKept /\ height \in Nat /\ height <= MaxBlocks /\ past \in Seq([Keys -> Elements])
      /\ Len(past) = height
  BY RevertParts
<1>1. PICK n : n = height + 1
  OBVIOUS
<1>2. /\ Writable /\ height < MaxBlocks /\ CommitEffect /\ height' = n /\ past' = Append(past, store.map)
      /\ job' = Idle /\ job.kind # "revert"
  BY <1>1 DEF SaveBlock, Idle, Extend
<1>3. PICK order \in Orders(Touched) : WriteTransitional(order, n)
  BY <1>1 DEF SaveBlock
<1>4. n \in Heights /\ n > 0 /\ n \in Nat /\ n - 1 = height
  BY <1>0, <1>1, <1>2, BoundAssumption DEF Heights
<1>5. /\ past'[n] = store.map
      /\ \A h \in 1..height : past'[h] = past[h]
  BY <1>0, <1>1, <1>2
<1>6. Undoes(Effective(n)', store.map, store'.map)
  BY <1>2, <1>3, <1>4, RecordedBlock
<1>7. ASSUME NEW h \in 1..height PROVE Effective(h)' = Effective(h)
  <2>1. h # n
    BY <1>0, <1>1
  <2>2. transitions' = transitions \/ \E list : transitions' = [transitions EXCEPT ![n] = list]
    BY <1>3 DEF WriteTransitional
  <2>3. h \in Heights
    BY <1>0, BoundAssumption DEF Heights
  <2>4. transitions'[h] = transitions[h]
    BY <1>0, <2>1, <2>2, <2>3 DEF TypeOK
  <2>5. h \in recorded' <=> h \in recorded
    BY <1>3, <2>1 DEF WriteTransitional
  <2>. QED
    BY <2>4, <2>5 DEF Effective
<1>8. ASSUME NEW h \in 1..height PROVE Undoes(Effective(h)', past'[h], past'[h + 1])
  <2>1. CASE h = height
    <3>1. Undoes(Effective(h), past[h], store.map)
      BY <1>0, <1>2, <2>1 DEF HistoryIsKept
    <3>. QED
      BY <1>1, <1>5, <1>7, <2>1, <3>1
  <2>2. CASE h # height
    <3>1. h \in 1..(height - 1) /\ h + 1 \in 1..height
      BY <1>0, <2>2
    <3>2. Undoes(Effective(h), past[h], past[h + 1])
      BY <1>0, <3>1 DEF HistoryIsKept
    <3>. QED
      BY <1>5, <1>7, <3>1, <3>2
  <2>. QED
    BY <2>1, <2>2
<1>9. job'.kind = "idle"
  BY <1>2 DEF Idle
<1>10. \A h \in 1..(n - 1) : Undoes(Effective(h)', past'[h], past'[h + 1])
  BY <1>4, <1>8
<1>. QED
  BY <1>2, <1>5, <1>6, <1>9, <1>10 DEF HistoryIsKept

LEMMA HistoryStep ==
  ASSUME Collected
  PROVE  RevertInvariant /\ [Next]_vars => HistoryIsKept'
<1>. SUFFICES ASSUME RevertInvariant, [Next]_vars PROVE HistoryIsKept'
  OBVIOUS
<1>0. TypeOK /\ HistoryIsKept
  BY RevertParts
<1>1. ASSUME job.kind # "revert", job'.kind # "revert", height' = height, past' = past, store' = store,
             transitions' = transitions, recorded' = recorded
      PROVE  HistoryIsKept'
  <2>1. \A h \in 1..height : Effective(h)' = Effective(h)
    BY <1>1 DEF Effective
  <2>. QED
    BY <1>1, <2>1, HistorySame
<1>2. Idle.kind = "idle" /\ Extend.kind = "extend"
  BY DEF Idle, Extend
<1>3. ASSUME NEW k \in Keys, Get(k) \/ Delete(k) PROVE HistoryIsKept'
  BY <1>1, <1>2, <1>3 DEF Get, Delete, Open
<1>4. ASSUME NEW k \in Keys, NEW v \in Values, Create(k, v) \/ Update(k, v) PROVE HistoryIsKept'
  BY <1>1, <1>2, <1>4 DEF Create, Update, Open
<1>5. ASSUME CommitChanges PROVE HistoryIsKept'
  <2>1. store' = store
    BY <1>5 DEF CommitChanges, CommitEffect
  <2>. QED
    BY <1>1, <1>2, <1>5, <2>1 DEF CommitChanges
<1>6. ASSUME Rollback PROVE HistoryIsKept'
  BY <1>1, <1>2, <1>6 DEF Rollback
<1>7. ASSUME CreateNewHashMap PROVE HistoryIsKept'
  <2>1. FreshMap /\ job' = job /\ job = Idle /\ store' = store /\ height' = height /\ past' = past
    BY <1>7 DEF CreateNewHashMap
  <2>. QED
    BY <1>2, <2>1, FreshMapHistory, HistorySame
<1>8. ASSUME BeginDrain PROVE HistoryIsKept'
  <2>1. job.kind # "revert" /\ job'.kind = "drain"
    BY <1>2, <1>8 DEF BeginDrain
  <2>. QED
    BY <1>1, <1>8, <2>1 DEF BeginDrain
<1>9. ASSUME DrainDelete PROVE HistoryIsKept'
  <2>1. job \in Job /\ job.kind = "drain" /\ job' = [job EXCEPT !.todo = Tail(@)]
    BY <1>0, <1>9 DEF TypeOK, DrainDelete
  <2>2. job'.kind = "drain"
    BY <2>1 DEF Job
  <2>. QED
    BY <1>1, <1>9, <2>1, <2>2 DEF DrainDelete
<1>10. ASSUME UNCHANGED vars PROVE HistoryIsKept'
  BY <1>0, <1>10 DEF vars, HistoryIsKept, Effective, Seen, Lookup
<1>. QED
  BY <1>3, <1>4, <1>5, <1>6, <1>7, <1>8, <1>9, <1>10, SaveBlockHistory, BeginRevertHistory, RevertChangeHistory,
     RevertNextHistory, RevertCommitHistory DEF Next

LEMMA InitRevert == Init => RevertInvariant
<1>. SUFFICES ASSUME Init PROVE RevertInvariant
  OBVIOUS
<1>1. FreshInvariant
  BY InitCountInvariant, InitFresh DEF FreshInvariant
<1>2. PICK map \in [Keys -> (Values \ Deletable) \cup {Nil}] : store.map = map
  BY DEF Init, StoreWith
<1>3. Storable(store.map)
  BY <1>2, NilAssumption, DeletableAssumption DEF Storable
<1>4. height = 0 /\ \A k \in Keys : changes[k].status = "none"
  BY DEF Init, NoChange
<1>5. OnlyStorable
  BY <1>3, <1>4 DEF OnlyStorable
<1>6. HistoryIsKept
  <2>1. job.kind = "idle"
    BY DEF Init, Idle
  <2>. QED
    BY <1>4, <2>1 DEF HistoryIsKept
<1>. QED
  BY <1>1, <1>5, <1>6 DEF RevertInvariant

LEMMA RevertStep ==
  ASSUME Collected
  PROVE  RevertInvariant /\ [Next]_vars => RevertInvariant'
<1>1. RevertInvariant => FreshInvariant /\ CountInvariant
  BY DEF RevertInvariant, FreshInvariant
<1>2. RevertInvariant /\ [Next]_vars => FreshInvariant'
  BY <1>1, NextCountInvariant, FreshStep DEF FreshInvariant
<1>. QED
  BY <1>2, StorableStep, HistoryStep DEF RevertInvariant

\* In a map of a collection, undoing the blocks above any height from the changes recorded under
\* their heights gives back exactly the map that was stored there, whatever the undone blocks
\* created, updated, deleted or emptied, in whatever order Go's maps listed the changes, and
\* however often the heights were used before (WriteTransitionalChangesToStore,
\* ReadTransitionalChangesToStore).
THEOREM RevertIsExact ==
  ASSUME Collected
  PROVE  Spec => RevertRestores
<1>1. Init => RevertInvariant
  BY InitRevert
<1>2. RevertInvariant /\ [Next]_vars => RevertInvariant'
  BY RevertStep
<1>3. RevertInvariant /\ RevertInvariant' /\ [Next]_vars => [RevertCommit => store'.map = past[job.to + 1]]_vars
  <2>. SUFFICES ASSUME RevertInvariant, RevertInvariant', RevertCommit PROVE store'.map = past[job.to + 1]
    OBVIOUS
  <2>1. \A k \in Keys : store'.map[k] = past[job.to + 1][k]
    BY RevertCommitHistory
  <2>2. TypeOK' /\ TypeOK /\ past \in Seq([Keys -> Elements]) /\ Len(past) = height
    BY RevertParts DEF RevertInvariant, FreshInvariant, CountInvariant
  <2>3. store'.map \in [Keys -> Elements]
    BY <2>2 DEF TypeOK, Store
  <2>4. past[job.to + 1] \in [Keys -> Elements]
    <3>1. height = job.to + 1 /\ job.to \in Nat
      BY <2>2 DEF RevertCommit, TypeOK, Job
    <3>. QED
      BY <2>2, <3>1, ElementOfSeq
  <2>. QED
    BY <2>1, <2>3, <2>4
<1>. QED
  BY <1>1, <1>2, <1>3, PTL DEF Spec, RevertRestores

-----------------------------------------------------------------------------
(* How the elements of an indexable map are numbered *)

\* The keys that have an element in a map.
Held(map) == {k \in Keys : map[k] # Nil}

\* The keys whose entry of Changes carries an index to be written or freed by the commit.
Processed(ch) == {k \in Keys : ch[k].indexProcess}

\* The entries of the keys in S carry the indexes from, from + 1 .. to - 1, each once.
Numbers(ch, S, from, to) ==
    /\ from <= to
    /\ \A k \in S : ch[k].index \in from..(to - 1)
    /\ \A i \in from..(to - 1) : \E k \in S : ch[k].index = i
    /\ \A j, k \in S : ch[j].index = ch[k].index => j = k

\* ":list:" and ":listKeys:" are inverse to each other between 0..count-1 and the stored keys.
StoreIsNumbered(s) ==
    /\ \A k \in s.exists : s.listKeys[k] \in 0..(s.count - 1) /\ s.list[s.listKeys[k]] = k
    /\ \A i \in Slots : i < s.count => s.list[i] \in s.exists /\ s.listKeys[s.list[i]] = i
    /\ \A i \in Slots : i >= s.count => s.list[i] = Nil
    /\ \A k \in Keys \ s.exists : s.listKeys[k] = Nil

\* The keys in S are the stored keys with the lowest indexes.
NumberedFirst(s, S) == \E n \in 0..s.count : S = {k \in s.exists : s.listKeys[k] < n}

\* What was stored before a block is numbered before what came later, and is still stored: the
\* keys that undoing the blocks deletes are those with the highest indexes.
OldAreFirst ==
    /\ \A h \in 1..height : NumberedFirst(store, Held(past[h]))
    /\ \A g, h \in 1..height : g <= h => Held(past[g]) \subseteq Held(past[h])

\* While blocks are added, the indexes to be written continue those of the store and belong to
\* the keys created since the last commit; no stored key is deleted.
Numbering ==
    /\ \A k \in Keys : changes[k].indexProcess <=> (changes[k].status = "update" /\ k \notin store.exists)
    /\ \A k \in Keys : changes[k].status = "del" => k \notin store.exists
    /\ Numbers(changes, Processed(changes), store.count, count)

\* While blocks are undone, the indexes to be freed are the last ones of the store, as many as
\* stored keys are deleted; no key is created.
Freeing ==
    /\ \A k \in Keys : changes[k].indexProcess <=> (changes[k].status = "del" /\ k \in store.exists)
    /\ \A k \in Keys : changes[k].status = "update" => k \in store.exists
    /\ Held(past[height]) \subseteq Live
    /\ Numbers(changes, Processed(changes), count, store.count)

IndexParts ==
    /\ StoreIsNumbered(store)
    /\ OldAreFirst
    /\ job.kind \in {"idle", "extend", "revert"}
    /\ job.kind # "revert" => Numbering
    /\ job.kind = "revert" => Freeing

IndexInvariant == RevertInvariant /\ (Indexable /\ Writable => IndexParts)

\* One more index at the end, one more at the front, one less in the middle.
LEMMA NumbersAppend ==
  ASSUME NEW ch, NEW ch2, NEW S, NEW from \in Nat, NEW to \in Nat, NEW k,
         Numbers(ch, S, from, to), k \notin S, ch2[k].index = to,
         \A j \in S : ch2[j].index = ch[j].index
  PROVE  Numbers(ch2, S \cup {k}, from, to + 1)
<1>1. from <= to + 1 /\ \A j \in S \cup {k} : ch2[j].index \in from..to
  BY DEF Numbers
<1>2. ASSUME NEW i \in from..to PROVE \E j \in S \cup {k} : ch2[j].index = i
  BY DEF Numbers
<1>3. \A i, j \in S \cup {k} : ch2[i].index = ch2[j].index => i = j
  BY DEF Numbers
<1>4. (to + 1) - 1 = to
  OBVIOUS
<1>. QED
  BY <1>1, <1>2, <1>3, <1>4 DEF Numbers

LEMMA NumbersPrepend ==
  ASSUME NEW ch, NEW ch2, NEW S, NEW from \in Nat, NEW to \in Nat, NEW k,
         Numbers(ch, S, from, to), k \notin S, ch2[k].index = from - 1,
         \A j \in S : ch2[j].index = ch[j].index
  PROVE  Numbers(ch2, S \cup {k}, from - 1, to)
<1>1. from - 1 <= to /\ \A j \in S \cup {k} : ch2[j].index \in (from - 1)..(to - 1)
  BY DEF Numbers
<1>2. ASSUME NEW i \in (from - 1)..(to - 1) PROVE \E j \in S \cup {k} : ch2[j].index = i
  BY DEF Numbers
<1>3. \A i, j \in S \cup {k} : ch2[i].index = ch2[j].index => i = j
  BY DEF Numbers
<1>. QED
  BY <1>1, <1>2, <1>3 DEF Numbers

LEMMA NumbersRemove ==
  ASSUME NEW ch, NEW ch2, NEW S, NEW from \in Nat, NEW to \in Nat, NEW k \in S,
         Numbers(ch, S, from, to),
         \A j \in S \ {k} : ch2[j].index = IF ch[j].index > ch[k].index THEN ch[j].index - 1
                                           ELSE ch[j].index
  PROVE  Numbers(ch2, S \ {k}, from, to - 1)
<1>1. \A j \in S : ch[j].index \in from..(to - 1) /\ (ch[j].index = ch[k].index => j = k)
  BY DEF Numbers
<1>2. from <= to - 1
  BY <1>1
<1>3. \A j \in S \ {k} : ch2[j].index \in from..((to - 1) - 1)
  BY <1>1
<1>4. ASSUME NEW i \in from..((to - 1) - 1) PROVE \E j \in S \ {k} : ch2[j].index = i
  <2>1. CASE i < ch[k].index
    <3>1. PICK j \in S : ch[j].index = i
      BY DEF Numbers
    <3>. QED
      BY <1>1, <2>1, <3>1
  <2>2. CASE i >= ch[k].index
    <3>1. i + 1 \in from..(to - 1)
      OBVIOUS
    <3>2. PICK j \in S : ch[j].index = i + 1
      BY <3>1 DEF Numbers
    <3>. QED
      BY <1>1, <2>2, <3>2
  <2>. QED
    BY <1>1, <2>1, <2>2
<1>5. ASSUME NEW i \in S \ {k}, NEW j \in S \ {k}, ch2[i].index = ch2[j].index PROVE i = j
  BY <1>1, <1>5 DEF Numbers
<1>. QED
  BY <1>2, <1>3, <1>4, <1>5 DEF Numbers

LEMMA NumbersSame ==
  ASSUME NEW ch, NEW ch2, NEW S, NEW from, NEW to, Numbers(ch, S, from, to),
         \A j \in S : ch2[j].index = ch[j].index
  PROVE  Numbers(ch2, S, from, to)
BY DEF Numbers

LEMMA NumbersNone ==
  ASSUME NEW ch, NEW n \in Nat
  PROVE  Numbers(ch, {}, n, n)
BY DEF Numbers

\* What the invariant is made of.
LEMMA IndexFacts ==
  ASSUME IndexInvariant, Indexable, Writable
  PROVE  /\ RevertInvariant /\ IndexParts /\ TypeOK /\ LayersAgree /\ CountsAgree /\ FreshLayers
         /\ OnlyStorable /\ HistoryIsKept
         /\ count \in Nat /\ store.count \in Nat /\ store.exists \subseteq Keys
         /\ countCommitted = store.count
         /\ height \in Nat /\ past \in Seq([Keys -> Elements]) /\ Len(past) = height
         /\ \A k \in Keys : changes[k] \in Change /\ changes[k].index \in Nat
<1>1. RevertInvariant /\ IndexParts
  BY DEF IndexInvariant
<1>2. TypeOK /\ LayersAgree /\ CountsAgree /\ FreshLayers /\ OnlyStorable /\ HistoryIsKept
  BY <1>1 DEF RevertInvariant, FreshInvariant, CountInvariant
<1>3. count \in Nat /\ store.count \in Nat /\ store.exists \subseteq Keys
  BY <1>2 DEF TypeOK, Store
<1>4. {k \in Keys : Base(k)} = store.exists
  BY <1>2, <1>3 DEF LayersAgree
<1>5. countCommitted = store.count
  BY <1>2, <1>4 DEF CountsAgree
<1>6. \A k \in Keys : changes[k] \in Change
  BY <1>2 DEF TypeOK
<1>7. \A k \in Keys : changes[k].index \in Nat
  BY <1>6 DEF Change
<1>8. height \in Nat /\ past \in Seq([Keys -> Elements]) /\ Len(past) = height
  BY <1>1, RevertParts
<1>. QED
  BY <1>1, <1>2, <1>3, <1>5, <1>6, <1>7, <1>8

\* What an update writes into Changes, in an indexable map.
LEMMA UpdateNumbers ==
  ASSUME TypeOK, Indexable, NEW k \in Keys, NEW v \in Values \ Deletable, UpdateEffect(k, v)
  PROVE  /\ changes'[k].status = "update" /\ changes'[k].el = v
         /\ \A j \in Keys : j # k => changes'[j] = changes[j]
         /\ Increases(k) => count' = count + 1 /\ changes'[k].index = count /\ changes'[k].indexProcess
         /\ ~Increases(k) => /\ count' = count /\ changes'[k].index = changes[k].index
                             /\ changes'[k].indexProcess = changes[k].indexProcess
<1>1. changes' = [changes EXCEPT ![k] =
                    [status |-> "update", el |-> v,
                     index |-> IF Increases(k) THEN count ELSE changes[k].index,
                     indexProcess |-> IF Increases(k) THEN TRUE ELSE changes[k].indexProcess]]
  BY DEF UpdateEffect
<1>2. changes'[k] = [status |-> "update", el |-> v,
                     index |-> IF Increases(k) THEN count ELSE changes[k].index,
                     indexProcess |-> IF Increases(k) THEN TRUE ELSE changes[k].indexProcess]
  BY <1>1 DEF TypeOK
<1>3. \A j \in Keys : j # k => changes'[j] = changes[j]
  BY <1>1 DEF TypeOK
<1>4. count' = IF Increases(k) THEN count + 1 ELSE count
  BY DEF UpdateEffect
<1>5. CASE Increases(k)
  <2>1. changes'[k] = [status |-> "update", el |-> v, index |-> count, indexProcess |-> TRUE]
    BY <1>2, <1>5
  <2>. QED
    BY <1>3, <1>4, <1>5, <2>1
<1>6. CASE ~Increases(k)
  <2>1. changes'[k] = [status |-> "update", el |-> v, index |-> changes[k].index,
                       indexProcess |-> changes[k].indexProcess]
    BY <1>2, <1>6
  <2>. QED
    BY <1>3, <1>4, <1>6, <2>1
<1>. QED
  BY <1>5, <1>6

\* What a deletion writes: the indexes above that of an element created since the last commit move
\* down; a stored element takes the last index along.
LEMMA DeleteNumbers ==
  ASSUME TypeOK, Indexable, NEW k \in Keys, DeleteEffect(k)
  PROVE  /\ changes'[k].status = "del" /\ changes'[k].el = Nil
         /\ \A j \in Keys : j # k => /\ changes'[j].status = changes[j].status
                                     /\ changes'[j].indexProcess = changes[j].indexProcess
         /\ count' = IF Decreases(k) THEN count - 1 ELSE count
         /\ ~Decreases(k) => changes'[k].indexProcess = changes[k].indexProcess
         /\ ~Decreases(k) => changes'[k].index = changes[k].index
         /\ Decreases(k) /\ changes[k].indexProcess =>
              /\ ~changes'[k].indexProcess
              /\ \A j \in Keys : j # k /\ changes[j].status # "none" =>
                   changes'[j].index = IF changes[j].index > changes[k].index THEN changes[j].index - 1
                                       ELSE changes[j].index
         /\ Decreases(k) /\ ~changes[k].indexProcess => changes'[k].indexProcess /\ changes'[k].index = count - 1
         /\ ~(Decreases(k) /\ changes[k].indexProcess) => \A j \in Keys : j # k => changes'[j] = changes[j]
<1>0. changes[k] \in Change /\ changes[k].indexProcess \in BOOLEAN
  BY DEF TypeOK, Change
<1>1. changes'[k].status = "del" /\ changes'[k].el = Nil
  BY DeleteShape
<1>2. /\ changes'[k].index = IF Decreases(k) /\ ~changes[k].indexProcess THEN count - 1 ELSE changes[k].index
      /\ changes'[k].indexProcess = IF Decreases(k) /\ ~changes[k].indexProcess THEN TRUE
                                    ELSE IF Decreases(k) /\ changes[k].indexProcess THEN FALSE
                                    ELSE changes[k].indexProcess
  BY DEF DeleteEffect
<1>3. \A j \in Keys : j # k => changes'[j] = IF Decreases(k) /\ changes[k].indexProcess /\ Above(j, k)
                                             THEN [changes[j] EXCEPT !.index = @ - 1] ELSE changes[j]
  BY DEF DeleteEffect
<1>4. ASSUME NEW j \in Keys, j # k
      PROVE  /\ changes'[j].status = changes[j].status /\ changes'[j].indexProcess = changes[j].indexProcess
             /\ changes'[j].index = IF Decreases(k) /\ changes[k].indexProcess /\ Above(j, k)
                                    THEN changes[j].index - 1 ELSE changes[j].index
  <2>1. changes[j] \in Change
    BY DEF TypeOK
  <2>2. CASE Decreases(k) /\ changes[k].indexProcess /\ Above(j, k)
    <3>1. changes'[j] = [changes[j] EXCEPT !.index = changes[j].index - 1]
      BY <1>3, <1>4, <2>2
    <3>. QED
      BY <2>1, <2>2, <3>1 DEF Change
  <2>3. CASE ~(Decreases(k) /\ changes[k].indexProcess /\ Above(j, k))
    BY <1>3, <1>4, <2>3
  <2>. QED
    BY <2>2, <2>3
<1>5. count' = IF Decreases(k) THEN count - 1 ELSE count
  BY DEF DeleteEffect
<1>6. ASSUME Decreases(k), changes[k].indexProcess, NEW j \in Keys, j # k, changes[j].status # "none"
      PROVE  changes'[j].index = IF changes[j].index > changes[k].index THEN changes[j].index - 1
                                 ELSE changes[j].index
  BY <1>4, <1>6 DEF Above
<1>. QED
  BY <1>0, <1>1, <1>2, <1>3, <1>4, <1>5, <1>6

\* A key is created or updated while blocks are added.
LEMMA NumberingUpdate ==
  ASSUME IndexInvariant, Indexable, Writable, Numbering, NEW k \in Keys, NEW v \in Values \ Deletable,
         UpdateEffect(k, v), store' = store
  PROVE  Numbering'
<1>0. /\ TypeOK /\ LayersAgree /\ count \in Nat /\ store.count \in Nat
      /\ \A j \in Keys : changes[j].status \in {"none", "view", "update", "del"}
  BY IndexFacts DEF TypeOK, Change
<1>1. /\ changes'[k].status = "update"
      /\ \A j \in Keys : j # k => changes'[j] = changes[j]
      /\ Increases(k) => count' = count + 1 /\ changes'[k].index = count /\ changes'[k].indexProcess
      /\ ~Increases(k) => /\ count' = count /\ changes'[k].index = changes[k].index
                          /\ changes'[k].indexProcess = changes[k].indexProcess
  BY <1>0, UpdateNumbers
<1>2. /\ changes[k].status = "view" => (changes[k].el # Nil <=> k \in store.exists)
      /\ changes[k].status = "update" => changes[k].el # Nil
      /\ changes[k].status = "del" => changes[k].el = Nil
  BY <1>0 DEF LayersAgree
<1>3. CASE Increases(k)
  <2>1. k \notin store.exists /\ ~changes[k].indexProcess
    BY <1>0, <1>2, <1>3 DEF Increases, Numbering
  <2>2. Processed(changes') = Processed(changes) \cup {k} /\ k \notin Processed(changes)
    BY <1>1, <1>3, <2>1 DEF Processed
  <2>3. \A j \in Processed(changes) : changes'[j].index = changes[j].index
    BY <1>1, <2>2 DEF Processed
  <2>4. Numbers(changes, Processed(changes), store.count, count)
    BY DEF Numbering
  <2>5. Numbers(changes', Processed(changes) \cup {k}, store.count, count + 1)
    BY <1>0, <1>1, <1>3, <2>2, <2>3, <2>4, NumbersAppend
  <2>6. Numbers(changes', Processed(changes'), store'.count, count')
    BY <1>1, <1>3, <2>2, <2>5
  <2>. QED
    BY <1>1, <1>3, <2>1, <2>6 DEF Numbering
<1>4. CASE ~Increases(k)
  <2>1. changes[k].indexProcess <=> k \notin store.exists
    BY <1>0, <1>2, <1>4 DEF Increases, Numbering
  <2>2. Processed(changes') = Processed(changes)
    BY <1>1, <1>4 DEF Processed
  <2>3. \A j \in Processed(changes) : changes'[j].index = changes[j].index
    BY <1>1, <1>4 DEF Processed
  <2>4. Numbers(changes', Processed(changes'), store'.count, count')
    BY <1>1, <1>4, <2>2, <2>3, NumbersSame DEF Numbering
  <2>. QED
    BY <1>1, <1>4, <2>1, <2>4 DEF Numbering
<1>. QED
  BY <1>3, <1>4

\* A key created since the last commit is deleted.
LEMMA NumberingDelete ==
  ASSUME IndexInvariant, Indexable, Writable, Numbering, NEW k \in Keys, changes[k].indexProcess,
         DeleteEffect(k), store' = store
  PROVE  Numbering'
<1>0. TypeOK /\ LayersAgree /\ count \in Nat /\ store.count \in Nat
  BY IndexFacts
<1>1. changes[k].status = "update" /\ k \notin store.exists /\ changes[k].el # Nil
  BY <1>0 DEF Numbering, LayersAgree
<1>2. Decreases(k)
  BY <1>1 DEF Decreases
<1>3. /\ changes'[k].status = "del" /\ ~changes'[k].indexProcess /\ count' = count - 1
      /\ \A j \in Keys : j # k => /\ changes'[j].status = changes[j].status
                                  /\ changes'[j].indexProcess = changes[j].indexProcess
      /\ \A j \in Keys : j # k /\ changes[j].status # "none" =>
           changes'[j].index = IF changes[j].index > changes[k].index THEN changes[j].index - 1
                               ELSE changes[j].index
  BY <1>0, <1>2, DeleteNumbers
<1>4. Processed(changes') = Processed(changes) \ {k} /\ k \in Processed(changes)
  BY <1>3 DEF Processed
<1>5. \A j \in Processed(changes) \ {k} :
        changes'[j].index = IF changes[j].index > changes[k].index THEN changes[j].index - 1
                            ELSE changes[j].index
  BY <1>3 DEF Processed, Numbering
<1>6. Numbers(changes, Processed(changes), store.count, count)
  BY DEF Numbering
<1>7. Numbers(changes', Processed(changes) \ {k}, store.count, count - 1)
  BY <1>0, <1>4, <1>5, <1>6, NumbersRemove
<1>8. Numbers(changes', Processed(changes'), store'.count, count')
  BY <1>3, <1>4, <1>7
<1>. QED
  BY <1>1, <1>3, <1>8 DEF Numbering

\* Nothing is pending after a commit, a rollback or over a new map.
LEMMA NumberingNone ==
  ASSUME store'.count \in Nat, count' = store'.count,
         \A k \in Keys : ~changes'[k].indexProcess /\ changes'[k].status \in {"none", "view"}
  PROVE  Numbering'
<1>1. Processed(changes') = {}
  BY DEF Processed
<1>2. Numbers(changes', Processed(changes'), store'.count, count')
  BY <1>1, NumbersNone
<1>. QED
  BY <1>2 DEF Numbering

\* A key is only read.
LEMMA NumberingGet ==
  ASSUME IndexInvariant, Indexable, Writable, Numbering, NEW k \in Keys, Get(k)
  PROVE  Numbering'
<1>0. TypeOK
  BY IndexFacts
<1>1. changes' = [changes EXCEPT ![k] = View(Lookup(k))] /\ changes[k].status = "none"
      /\ store' = store /\ count' = count
  BY DEF Get
<1>2. changes'[k].status = "view" /\ ~changes'[k].indexProcess /\ \A j \in Keys : j # k => changes'[j] = changes[j]
  BY <1>0, <1>1 DEF TypeOK, View
<1>3. Processed(changes') = Processed(changes) /\ k \notin Processed(changes)
  BY <1>1, <1>2 DEF Processed, Numbering
<1>4. \A j \in Processed(changes) : changes'[j].index = changes[j].index
  BY <1>2, <1>3 DEF Processed
<1>5. Numbers(changes', Processed(changes'), store'.count, count')
  BY <1>1, <1>3, <1>4, NumbersSame DEF Numbering
<1>. QED
  BY <1>1, <1>2, <1>3, <1>5 DEF Numbering, Processed

\* Undoing a block deletes a key that it created.
LEMMA FreeingDelete ==
  ASSUME IndexInvariant, Indexable, Writable, Freeing, NEW k \in Keys, past[height][k] = Nil,
         DeleteEffect(k), store' = store, committed' = committed, past' = past, height' = height
  PROVE  Freeing'
<1>0. /\ TypeOK /\ LayersAgree /\ count \in Nat /\ store.count \in Nat
      /\ \A j \in Keys : changes[j].status \in {"none", "view", "update", "del"}
      /\ \A j \in Keys : changes[j].indexProcess \in BOOLEAN
  BY IndexFacts DEF TypeOK, Change
<1>1. /\ changes[k].status = "view" => (changes[k].el # Nil <=> k \in store.exists)
      /\ changes[k].status = "update" => changes[k].el # Nil
      /\ changes[k].status = "del" => changes[k].el = Nil
  BY <1>0 DEF LayersAgree
<1>2. Decreases(k) => ~changes[k].indexProcess /\ k \in store.exists
  BY <1>0, <1>1 DEF Decreases, Freeing
<1>3. /\ changes'[k].status = "del" /\ changes'[k].el = Nil
      /\ \A j \in Keys : j # k => changes'[j] = changes[j]
      /\ count' = IF Decreases(k) THEN count - 1 ELSE count
      /\ ~Decreases(k) => changes'[k].indexProcess = changes[k].indexProcess /\ changes'[k].index = changes[k].index
      /\ Decreases(k) => changes'[k].indexProcess /\ changes'[k].index = count - 1
  BY <1>0, <1>2, DeleteNumbers
<1>4. Held(past'[height']) \subseteq Live'
  <2>1. \A j \in Keys : j # k => (Exists(j)' <=> Exists(j))
    BY <1>3 DEF Exists
  <2>2. k \notin Held(past'[height']) /\ Held(past'[height']) \subseteq Live
    BY DEF Held, Freeing
  <2>. QED
    BY <2>1, <2>2 DEF Live
<1>5. Numbers(changes, Processed(changes), count, store.count)
  BY DEF Freeing
<1>6. CASE Decreases(k)
  <2>1. Processed(changes') = Processed(changes) \cup {k} /\ k \notin Processed(changes)
    BY <1>2, <1>3, <1>6 DEF Processed
  <2>2. \A j \in Processed(changes) : changes'[j].index = changes[j].index
    BY <1>3, <2>1 DEF Processed
  <2>3. Numbers(changes', Processed(changes) \cup {k}, count - 1, store.count)
    BY <1>0, <1>3, <1>5, <1>6, <2>1, <2>2, NumbersPrepend
  <2>4. Numbers(changes', Processed(changes'), count', store'.count)
    BY <1>3, <1>6, <2>1, <2>3
  <2>. QED
    BY <1>2, <1>3, <1>4, <1>6, <2>4 DEF Freeing
<1>7. CASE ~Decreases(k)
  <2>1. Processed(changes') = Processed(changes)
    BY <1>3, <1>7 DEF Processed
  <2>2. \A j \in Processed(changes) : changes'[j].index = changes[j].index
    BY <1>3, <1>7 DEF Processed
  <2>3. Numbers(changes', Processed(changes'), count', store'.count)
    BY <1>3, <1>5, <1>7, <2>1, <2>2, NumbersSame
  <2>4. changes[k].indexProcess <=> k \in store.exists
    BY <1>0, <1>1, <1>7 DEF Decreases, Freeing
  <2>. QED
    BY <1>3, <1>4, <1>7, <2>3, <2>4 DEF Freeing
<1>. QED
  BY <1>6, <1>7

\* Undoing a block restores a key that was stored before it, and still is.
LEMMA FreeingUpdate ==
  ASSUME IndexInvariant, Indexable, Writable, Freeing, NEW k \in Keys, NEW v \in Values \ Deletable,
         past[height][k] # Nil,
         UpdateEffect(k, v), store' = store, committed' = committed, past' = past, height' = height
  PROVE  Freeing'
<1>0. /\ TypeOK /\ LayersAgree
      /\ \A j \in Keys : changes[j].status \in {"none", "view", "update", "del"}
  BY IndexFacts DEF TypeOK, Change
<1>1. /\ changes[k].status = "view" => (changes[k].el # Nil <=> k \in store.exists)
      /\ changes[k].status = "update" => changes[k].el # Nil
      /\ changes[k].status = "del" => changes[k].el = Nil
      /\ changes[k].status = "none" => (Exists(k) <=> k \in store.exists)
  BY <1>0 DEF LayersAgree, Exists, Base
<1>2. Exists(k)
  BY DEF Freeing, Held, Live
<1>3. ~Increases(k) /\ k \in store.exists /\ changes[k].status # "del"
  BY <1>0, <1>1, <1>2 DEF Increases, Exists, Freeing
<1>4. ~changes[k].indexProcess
  BY <1>3 DEF Freeing
<1>5. /\ changes'[k].status = "update" /\ changes'[k].el = v /\ count' = count
      /\ \A j \in Keys : j # k => changes'[j] = changes[j]
      /\ changes'[k].indexProcess = changes[k].indexProcess
  BY <1>0, <1>3, UpdateNumbers
<1>6. Processed(changes') = Processed(changes) /\ k \notin Processed(changes)
  BY <1>4, <1>5 DEF Processed
<1>7. \A j \in Processed(changes) : changes'[j].index = changes[j].index
  BY <1>5, <1>6 DEF Processed
<1>8. Numbers(changes', Processed(changes'), count', store'.count)
  BY <1>5, <1>6, <1>7, NumbersSame DEF Freeing
<1>9. v # Nil
  BY NilAssumption
<1>10. \A j \in Keys : Exists(j) => Exists(j)'
  BY <1>5, <1>9 DEF Exists
<1>11. Held(past'[height']) \subseteq Live'
  BY <1>10 DEF Freeing, Live
<1>. QED
  BY <1>3, <1>4, <1>5, <1>8, <1>11 DEF Freeing

\* The stored keys with an index below n are n keys.
LEMMA FirstIndexes ==
  ASSUME NEW s \in Store, StoreIsNumbered(s), s.count \in Nat, s.count <= Cardinality(Keys),
         NEW n \in 0..s.count, NEW S, S = {k \in s.exists : s.listKeys[k] < n}
  PROVE  Cardinality(S) = n
<1>0. Cardinality(Keys) \in Nat
  BY KeysFinite, FS_CardinalityType
<1>1. PICK f : f = [k \in S |-> s.listKeys[k]]
  OBVIOUS
<1>2. \A k \in S : s.listKeys[k] \in 0..(n - 1) /\ s.list[s.listKeys[k]] = k
  BY DEF StoreIsNumbered
<1>3. f \in [S -> 0..(n - 1)]
  BY <1>1, <1>2
<1>4. \A j, k \in S : f[j] = f[k] => j = k
  BY <1>1, <1>2
<1>5. ASSUME NEW i \in 0..(n - 1) PROVE \E k \in S : f[k] = i
  <2>1. i \in Slots /\ i < s.count
    BY <1>0 DEF Slots
  <2>2. s.list[i] \in s.exists /\ s.listKeys[s.list[i]] = i
    BY <2>1 DEF StoreIsNumbered
  <2>3. s.list[i] \in S
    BY <2>2
  <2>. QED
    BY <1>1, <2>2, <2>3
<1>6. f \in Bijection(S, 0..(n - 1))
  BY <1>3, <1>4, <1>5 DEF Bijection, Injection, Surjection, IsInjective
<1>7. ExistsBijection(S, 0..(n - 1))
  BY <1>6 DEF ExistsBijection
<1>8. S \in SUBSET Keys
  BY DEF Store
<1>9. IsFiniteSet(S)
  BY <1>8, FiniteParts
<1>10. Cardinality(0..(n - 1)) = Cardinality(S)
  BY <1>7, <1>9, FS_Bijection
<1>11. Cardinality(0..(n - 1)) = n
  BY FS_Interval
<1>. QED
  BY <1>10, <1>11

\* The keys a commit adds to the store, and those it removes.
FreshKeys == {k \in Keys : changes[k].status = "update"} \ store.exists
GoneKeys == {k \in Keys : changes[k].status = "del"} \cap store.exists

\* What a commit writes into the lists.
LEMMA CommitLists ==
  ASSUME Indexable, Writable, CommitEffect
  PROVE  /\ store'.exists = (store.exists \ GoneKeys) \cup FreshKeys /\ store'.count = count /\ count' = count
         /\ \A i \in Slots :
              \/ \E k \in FreshKeys : changes[k].indexProcess /\ changes[k].index = i /\ store'.list[i] = k
              \/ /\ \A k \in FreshKeys : ~(changes[k].indexProcess /\ changes[k].index = i)
                 /\ store'.list[i] = IF \E k \in GoneKeys : changes[k].indexProcess /\ changes[k].index = i
                                     THEN Nil ELSE store.list[i]
         /\ \A k \in Keys : store'.listKeys[k] =
              IF k \in FreshKeys /\ changes[k].indexProcess THEN changes[k].index
              ELSE IF k \in GoneKeys /\ changes[k].indexProcess THEN Nil
              ELSE store.listKeys[k]
<1>1. store'.exists = (store.exists \ GoneKeys) \cup FreshKeys /\ store'.count = count /\ count' = count
  BY DEF CommitEffect, FreshKeys, GoneKeys
<1>2. ASSUME NEW i \in Slots
      PROVE  \/ \E k \in FreshKeys : changes[k].indexProcess /\ changes[k].index = i /\ store'.list[i] = k
             \/ /\ \A k \in FreshKeys : ~(changes[k].indexProcess /\ changes[k].index = i)
                /\ store'.list[i] = IF \E k \in GoneKeys : changes[k].indexProcess /\ changes[k].index = i
                                    THEN Nil ELSE store.list[i]
  <2>1. PICK A : A = {k \in FreshKeys : Indexable /\ changes[k].indexProcess /\ changes[k].index = i}
    OBVIOUS
  <2>2. PICK B : B = {k \in GoneKeys : Indexable /\ changes[k].indexProcess /\ changes[k].index = i}
    OBVIOUS
  <2>3. store'.list[i] = IF A # {} THEN CHOOSE k \in A : TRUE ELSE IF B # {} THEN Nil ELSE store.list[i]
    <3>1. store'.list = [n \in Slots |->
               IF {k \in FreshKeys : Indexable /\ changes[k].indexProcess /\ changes[k].index = n} # {}
               THEN CHOOSE k \in {k \in FreshKeys : Indexable /\ changes[k].indexProcess /\ changes[k].index = n} : TRUE
               ELSE IF {k \in GoneKeys : Indexable /\ changes[k].indexProcess /\ changes[k].index = n} # {} THEN Nil
               ELSE store.list[n]]
      BY Zenon DEF CommitEffect, FreshKeys, GoneKeys
    <3>. QED
      BY <2>1, <2>2, <3>1
  <2>4. A # {} => (CHOOSE k \in A : TRUE) \in A
    OBVIOUS
  <2>. QED
    BY <2>1, <2>2, <2>3, <2>4
<1>3. ASSUME NEW k \in Keys
      PROVE  store'.listKeys[k] =
               IF k \in FreshKeys /\ changes[k].indexProcess THEN changes[k].index
               ELSE IF k \in GoneKeys /\ changes[k].indexProcess THEN Nil
               ELSE store.listKeys[k]
  BY DEF CommitEffect, FreshKeys, GoneKeys
<1>. QED
  BY <1>1, <1>2, <1>3

\* The counts are bounded by the number of keys.
LEMMA CountBound ==
  ASSUME IndexInvariant, Indexable, Writable
  PROVE  /\ Cardinality(Keys) \in Nat /\ count <= Cardinality(Keys) /\ store.count <= Cardinality(Keys)
<1>1. CountsAgree /\ store.exists \subseteq Keys
  BY IndexFacts
<1>2. Live \in SUBSET Keys /\ store.exists \in SUBSET Keys
  BY <1>1 DEF Live
<1>. QED
  BY <1>1, <1>2, KeysFinite, FS_Subset, FS_CardinalityType DEF CountsAgree

\* A commit while blocks are added: the created keys follow the stored ones.
LEMMA CommitAppends ==
  ASSUME IndexInvariant, Indexable, Writable, Numbering, CommitEffect
  PROVE  /\ store'.exists = store.exists \cup Processed(changes)
         /\ Processed(changes) \cap store.exists = {}
         /\ store'.count = count /\ store.count <= count
         /\ \A k \in Processed(changes) : store'.listKeys[k] = changes[k].index
         /\ \A k \in Processed(changes) : store'.list[changes[k].index] = k
         /\ \A k \in Keys \ Processed(changes) : store'.listKeys[k] = store.listKeys[k]
         /\ \A i \in Slots : i \notin store.count..(count - 1) => store'.list[i] = store.list[i]
<1>0. /\ count \in Nat /\ store.count \in Nat /\ count <= Cardinality(Keys) /\ Cardinality(Keys) \in Nat
      /\ store.exists \subseteq Keys
  BY IndexFacts, CountBound
<1>1. PICK fresh : fresh = FreshKeys
  OBVIOUS
<1>2. PICK gone : gone = GoneKeys
  OBVIOUS
<1>3. fresh = Processed(changes) /\ gone = {} /\ \A k \in fresh : k \in Keys /\ changes[k].indexProcess
  BY <1>1, <1>2 DEF Numbering, Processed, FreshKeys, GoneKeys
<1>4. /\ store'.exists = (store.exists \ gone) \cup fresh /\ store'.count = count
      /\ \A i \in Slots :
              \/ \E k \in fresh : changes[k].indexProcess /\ changes[k].index = i /\ store'.list[i] = k
              \/ /\ \A k \in fresh : ~(changes[k].indexProcess /\ changes[k].index = i)
                 /\ store'.list[i] = IF \E k \in gone : changes[k].indexProcess /\ changes[k].index = i
                                     THEN Nil ELSE store.list[i]
      /\ \A k \in Keys : store'.listKeys[k] =
              IF k \in fresh /\ changes[k].indexProcess THEN changes[k].index
              ELSE IF k \in gone /\ changes[k].indexProcess THEN Nil
              ELSE store.listKeys[k]
  BY <1>1, <1>2, CommitLists
<1>5. Numbers(changes, fresh, store.count, count)
  BY <1>3 DEF Numbering
<1>6. \A k \in fresh : store'.listKeys[k] = changes[k].index
  BY <1>3, <1>4
<1>7. \A k \in Keys \ fresh : store'.listKeys[k] = store.listKeys[k]
  BY <1>3, <1>4
<1>8. ASSUME NEW k \in fresh PROVE store'.list[changes[k].index] = k
  <2>1. PICK i : i = changes[k].index
    OBVIOUS
  <2>2. i \in store.count..(count - 1)
    BY <1>5, <2>1 DEF Numbers
  <2>3. i \in Slots
    BY <1>0, <2>2 DEF Slots
  <2>4. changes[k].indexProcess /\ \A j \in fresh : changes[j].index = i => j = k
    BY <1>3, <1>5, <2>1 DEF Numbers
  <2>. QED
    BY <1>4, <2>1, <2>3, <2>4
<1>9. ASSUME NEW i \in Slots, i \notin store.count..(count - 1) PROVE store'.list[i] = store.list[i]
  <2>1. \A j \in fresh : changes[j].index # i
    BY <1>5, <1>9 DEF Numbers
  <2>2. ~ \E j \in gone : changes[j].indexProcess /\ changes[j].index = i
    BY <1>3
  <2>. QED
    BY <1>4, <2>1, <2>2
<1>10. fresh \cap store.exists = {} /\ store.count <= count
  BY <1>1, <1>5 DEF Numbers, FreshKeys
<1>. QED
  BY <1>3, <1>4, <1>6, <1>7, <1>8, <1>9, <1>10

\* The store is numbered after such a commit, and what was stored is numbered first.
LEMMA CommitAppendsNumbered ==
  ASSUME IndexInvariant, Indexable, Writable, Numbering, CommitEffect
  PROVE  /\ StoreIsNumbered(store')
         /\ store.exists = {k \in store'.exists : store'.listKeys[k] < store.count}
         /\ \A k \in store.exists : k \in store'.exists /\ store'.listKeys[k] = store.listKeys[k]
         /\ store'.count \in Nat /\ store.count <= store'.count
<1>0. /\ count \in Nat /\ store.count \in Nat /\ count <= Cardinality(Keys) /\ Cardinality(Keys) \in Nat
      /\ store.exists \subseteq Keys /\ StoreIsNumbered(store)
  BY IndexFacts, CountBound DEF IndexParts
<1>1. PICK fresh : fresh = Processed(changes)
  OBVIOUS
<1>2. /\ store'.exists = store.exists \cup fresh
      /\ fresh \cap store.exists = {} /\ fresh \subseteq Keys
      /\ store'.count = count /\ store.count <= count
      /\ \A k \in fresh : store'.listKeys[k] = changes[k].index
      /\ \A k \in fresh : store'.list[changes[k].index] = k
      /\ \A k \in Keys \ fresh : store'.listKeys[k] = store.listKeys[k]
      /\ \A i \in Slots : i \notin store.count..(count - 1) => store'.list[i] = store.list[i]
  BY <1>1, CommitAppends DEF Processed
<1>3. Numbers(changes, fresh, store.count, count)
  BY <1>1 DEF Numbering
<1>4. \A k \in store.exists : /\ store.listKeys[k] \in 0..(store.count - 1) /\ store.list[store.listKeys[k]] = k
                              /\ store'.listKeys[k] = store.listKeys[k]
  BY <1>0, <1>2 DEF StoreIsNumbered
<1>5. \A k \in fresh : store'.listKeys[k] \in store.count..(count - 1)
  BY <1>2, <1>3 DEF Numbers
<1>6. ASSUME NEW k \in store'.exists
      PROVE  store'.listKeys[k] \in 0..(store'.count - 1) /\ store'.list[store'.listKeys[k]] = k
  <2>1. CASE k \in fresh
    BY <1>0, <1>2, <1>5, <2>1
  <2>2. CASE k \in store.exists
    <3>1. PICK i \in 0..(store.count - 1) : i = store.listKeys[k]
      BY <1>4, <2>2
    <3>2. i \in Slots /\ i \notin store.count..(count - 1) /\ i \in 0..(count - 1)
      BY <1>0, <1>2 DEF Slots
    <3>3. store'.list[i] = k /\ store'.listKeys[k] = i
      BY <1>2, <1>4, <2>2, <3>1, <3>2
    <3>. QED
      BY <1>2, <3>2, <3>3
  <2>. QED
    BY <1>2, <2>1, <2>2
<1>7. ASSUME NEW i \in Slots, i < store'.count
      PROVE  store'.list[i] \in store'.exists /\ store'.listKeys[store'.list[i]] = i
  <2>0. i \in Nat
    BY <1>0 DEF Slots
  <2>1. CASE i < store.count
    <3>1. store.list[i] \in store.exists /\ store.listKeys[store.list[i]] = i
      BY <1>0, <2>1 DEF StoreIsNumbered
    <3>2. store'.list[i] = store.list[i]
      BY <1>0, <1>2, <2>0, <2>1
    <3>. QED
      BY <1>2, <1>4, <3>1, <3>2
  <2>2. CASE i >= store.count
    <3>1. i \in store.count..(count - 1)
      BY <1>0, <1>2, <1>7, <2>0, <2>2
    <3>2. PICK k \in fresh : changes[k].index = i
      BY <1>3, <3>1 DEF Numbers
    <3>. QED
      BY <1>2, <3>2
  <2>. QED
    BY <1>0, <2>0, <2>1, <2>2
<1>8. ASSUME NEW i \in Slots, i >= store'.count PROVE store'.list[i] = Nil
  <2>1. i \in Nat /\ i >= store.count /\ i \notin store.count..(count - 1)
    BY <1>0, <1>2, <1>8 DEF Slots
  <2>. QED
    BY <1>0, <1>2, <2>1 DEF StoreIsNumbered
<1>9. \A k \in Keys \ store'.exists : store'.listKeys[k] = Nil
  BY <1>0, <1>2 DEF StoreIsNumbered
<1>10. StoreIsNumbered(store')
  BY <1>6, <1>7, <1>8, <1>9 DEF StoreIsNumbered
<1>11. store.exists = {k \in store'.exists : store'.listKeys[k] < store.count}
  <2>1. \A k \in store.exists : k \in store'.exists /\ store'.listKeys[k] < store.count
    BY <1>0, <1>2, <1>4
  <2>2. \A k \in fresh : ~(store'.listKeys[k] < store.count)
    BY <1>0, <1>5
  <2>. QED
    BY <1>2, <2>1, <2>2
<1>. QED
  BY <1>0, <1>2, <1>4, <1>10, <1>11

\* A commit after blocks were undone: the deleted keys leave, and the last slots become free.
LEMMA CommitFrees ==
  ASSUME IndexInvariant, Indexable, Writable, Freeing, CommitEffect
  PROVE  /\ store'.exists = store.exists \ Processed(changes) /\ store'.exists = Live
         /\ Processed(changes) \subseteq store.exists
         /\ store'.count = count /\ count <= store.count
         /\ \A k \in Processed(changes) : store'.listKeys[k] = Nil
         /\ \A k \in Keys \ Processed(changes) : store'.listKeys[k] = store.listKeys[k]
         /\ \A i \in Slots : store'.list[i] = IF i \in count..(store.count - 1) THEN Nil ELSE store.list[i]
<1>0. /\ count \in Nat /\ store.count \in Nat /\ LayersAgree /\ store.exists \subseteq Keys
      /\ \A k \in Keys : changes[k].status \in {"none", "view", "update", "del"}
  BY IndexFacts DEF Change
<1>1. PICK fresh : fresh = FreshKeys
  OBVIOUS
<1>2. PICK gone : gone = GoneKeys
  OBVIOUS
<1>3. fresh = {} /\ gone = Processed(changes) /\ \A k \in gone : k \in Keys /\ changes[k].indexProcess
  BY <1>1, <1>2 DEF Freeing, Processed, FreshKeys, GoneKeys
<1>4. /\ store'.exists = (store.exists \ gone) \cup fresh /\ store'.count = count
      /\ \A i \in Slots :
              \/ \E k \in fresh : changes[k].indexProcess /\ changes[k].index = i /\ store'.list[i] = k
              \/ /\ \A k \in fresh : ~(changes[k].indexProcess /\ changes[k].index = i)
                 /\ store'.list[i] = IF \E k \in gone : changes[k].indexProcess /\ changes[k].index = i
                                     THEN Nil ELSE store.list[i]
      /\ \A k \in Keys : store'.listKeys[k] =
              IF k \in fresh /\ changes[k].indexProcess THEN changes[k].index
              ELSE IF k \in gone /\ changes[k].indexProcess THEN Nil
              ELSE store.listKeys[k]
  BY <1>1, <1>2, CommitLists
<1>5. Numbers(changes, gone, count, store.count)
  BY <1>3 DEF Freeing
<1>6. \A k \in gone : store'.listKeys[k] = Nil
  BY <1>3, <1>4
<1>7. \A k \in Keys \ gone : store'.listKeys[k] = store.listKeys[k]
  BY <1>3, <1>4
<1>8. ASSUME NEW i \in Slots
      PROVE  store'.list[i] = IF i \in count..(store.count - 1) THEN Nil ELSE store.list[i]
  <2>1. (\E k \in gone : changes[k].indexProcess /\ changes[k].index = i) <=> i \in count..(store.count - 1)
    BY <1>3, <1>5 DEF Numbers
  <2>. QED
    BY <1>3, <1>4, <2>1
<1>9. store.exists \ gone = Live
  <2>1. ASSUME NEW k \in Keys PROVE Exists(k) <=> (k \in store.exists /\ changes[k].status # "del")
    <3>1. /\ changes[k].status = "view" => (changes[k].el # Nil <=> k \in store.exists)
          /\ changes[k].status = "update" => changes[k].el # Nil /\ k \in store.exists
          /\ changes[k].status = "del" => changes[k].el = Nil
          /\ changes[k].status = "none" => (Exists(k) <=> k \in store.exists)
      BY <1>0 DEF LayersAgree, Exists, Base, Freeing
    <3>2. changes[k].status # "none" => (Exists(k) <=> changes[k].el # Nil)
      BY DEF Exists
    <3>. QED
      BY <1>0, <3>1, <3>2
  <2>2. \A k \in Keys : k \in gone <=> (changes[k].status = "del" /\ k \in store.exists)
    BY <1>2 DEF GoneKeys
  <2>. QED
    BY <1>0, <2>1, <2>2 DEF Live
<1>10. gone \subseteq store.exists /\ count <= store.count
  BY <1>2, <1>5 DEF Numbers, GoneKeys
<1>. QED
  BY <1>3, <1>4, <1>6, <1>7, <1>8, <1>9, <1>10

\* The keys that are left are those with the lowest indexes, so the lists stay exact.
LEMMA CommitFreesNumbered ==
  ASSUME IndexInvariant, Indexable, Writable, Freeing, CommitEffect, NumberedFirst(store, Live)
  PROVE  /\ StoreIsNumbered(store') /\ store'.exists = Live
         /\ Live = {k \in store.exists : store.listKeys[k] < count}
         /\ \A k \in Live : store'.listKeys[k] = store.listKeys[k]
         /\ store'.count = count
<1>0. /\ count \in Nat /\ store.count \in Nat /\ store.count <= Cardinality(Keys) /\ Cardinality(Keys) \in Nat
      /\ store.exists \subseteq Keys /\ StoreIsNumbered(store) /\ store \in Store /\ count = Cardinality(Live)
  BY IndexFacts, CountBound DEF IndexParts, TypeOK, CountsAgree
<1>1. PICK n \in 0..store.count : Live = {k \in store.exists : store.listKeys[k] < n}
  BY DEF NumberedFirst
<1>2. n = count
  BY <1>0, <1>1, FirstIndexes
<1>3. Live = {k \in store.exists : store.listKeys[k] < count}
  BY <1>1, <1>2
<1>4. PICK gone : gone = Processed(changes)
  OBVIOUS
<1>5. /\ store'.exists = store.exists \ gone /\ store'.exists = Live
      /\ gone \subseteq store.exists
      /\ store'.count = count /\ count <= store.count
      /\ \A k \in gone : store'.listKeys[k] = Nil
      /\ \A k \in Keys \ gone : store'.listKeys[k] = store.listKeys[k]
      /\ \A i \in Slots : store'.list[i] = IF i \in count..(store.count - 1) THEN Nil ELSE store.list[i]
  BY <1>4, CommitFrees
<1>6. \A k \in Live : store'.listKeys[k] = store.listKeys[k]
  BY <1>0, <1>5
<1>7. ASSUME NEW k \in store'.exists
      PROVE  store'.listKeys[k] \in 0..(store'.count - 1) /\ store'.list[store'.listKeys[k]] = k
  <2>1. k \in Live /\ k \in store.exists
    BY <1>3, <1>5
  <2>2. PICK i \in 0..(store.count - 1) : i = store.listKeys[k] /\ store.list[i] = k
    BY <1>0, <2>1 DEF StoreIsNumbered
  <2>3. i < count
    BY <1>3, <2>1, <2>2
  <2>4. i \in Slots /\ i \notin count..(store.count - 1)
    BY <1>0, <2>3 DEF Slots
  <2>. QED
    BY <1>0, <1>5, <1>6, <2>1, <2>2, <2>3, <2>4
<1>8. ASSUME NEW i \in Slots, i < store'.count
      PROVE  store'.list[i] \in store'.exists /\ store'.listKeys[store'.list[i]] = i
  <2>1. i \in Nat /\ i < store.count /\ i \notin count..(store.count - 1) /\ i < count
    BY <1>0, <1>5, <1>8 DEF Slots
  <2>2. store.list[i] \in store.exists /\ store.listKeys[store.list[i]] = i /\ store'.list[i] = store.list[i]
    BY <1>0, <1>5, <2>1 DEF StoreIsNumbered
  <2>3. store.list[i] \in Live
    BY <1>3, <2>1, <2>2
  <2>. QED
    BY <1>5, <1>6, <2>2, <2>3
<1>9. ASSUME NEW i \in Slots, i >= store'.count PROVE store'.list[i] = Nil
  <2>0. i \in Nat
    BY <1>0 DEF Slots
  <2>1. CASE i < store.count
    BY <1>0, <1>5, <1>9, <2>0, <2>1
  <2>2. CASE i >= store.count
    BY <1>0, <1>5, <2>0, <2>2 DEF StoreIsNumbered
  <2>. QED
    BY <1>0, <2>0, <2>1, <2>2
<1>10. \A k \in Keys \ store'.exists : store'.listKeys[k] = Nil
  BY <1>0, <1>5 DEF StoreIsNumbered
<1>11. StoreIsNumbered(store')
  BY <1>7, <1>8, <1>9, <1>10 DEF StoreIsNumbered
<1>. QED
  BY <1>3, <1>5, <1>6, <1>11

\* After a commit no index is left to be written.
LEMMA CommitClears ==
  ASSUME IndexInvariant, Indexable, Writable, CommitEffect, Numbering \/ Freeing
  PROVE  \A k \in Keys : ~changes'[k].indexProcess /\ changes'[k].status \in {"none", "view"}
<1>0. \A k \in Keys : /\ changes[k] \in Change /\ changes[k].status \in {"none", "view", "update", "del"}
                     /\ changes[k].indexProcess \in BOOLEAN
  BY IndexFacts DEF Change
<1>1. ASSUME NEW k \in Keys PROVE ~changes'[k].indexProcess /\ changes'[k].status \in {"none", "view"}
  <2>1. CASE changes[k].status = "update"
    <3>1. changes'[k] = NoChange
      BY <2>1 DEF CommitEffect
    <3>. QED
      BY <3>1 DEF NoChange
  <2>2. CASE changes[k].status = "del"
    <3>1. changes'[k] = [changes[k] EXCEPT !.status = "view", !.indexProcess = FALSE]
      BY <2>2 DEF CommitEffect
    <3>. QED
      BY <1>0, <3>1 DEF Change
  <2>3. CASE changes[k].status \notin {"update", "del"}
    <3>1. changes'[k] = changes[k]
      BY <2>3 DEF CommitEffect
    <3>. QED
      BY <1>0, <2>3, <3>1 DEF Numbering, Freeing
  <2>. QED
    BY <2>1, <2>2, <2>3
<1>. QED
  BY <1>1

\* The block is saved: what it created is numbered after what was stored.
LEMMA SaveBlockIndexes ==
  ASSUME IndexInvariant, Indexable, Writable, DrainHeight = 0, SaveBlock
  PROVE  IndexParts'
<1>0. /\ IndexParts /\ TypeOK /\ LayersAgree /\ OldAreFirst /\ height \in Nat /\ past \in Seq([Keys -> Elements])
      /\ Len(past) = height /\ store.count \in Nat /\ store.exists \subseteq Keys
  BY IndexFacts DEF IndexParts
<1>1. PICK n : n = height + 1
  OBVIOUS
<1>2. CommitEffect /\ height' = n /\ past' = Append(past, store.map) /\ job' = Idle
  BY <1>1 DEF SaveBlock
<1>3. Numbering
  <2>1. job.kind # "revert"
    BY DEF SaveBlock, Idle, Extend
  <2>. QED
    BY <1>0, <2>1 DEF IndexParts
<1>4. /\ StoreIsNumbered(store')
      /\ store.exists = {k \in store'.exists : store'.listKeys[k] < store.count}
      /\ \A k \in store.exists : k \in store'.exists /\ store'.listKeys[k] = store.listKeys[k]
      /\ store'.count \in Nat /\ store.count <= store'.count
  BY <1>2, <1>3, CommitAppendsNumbered
<1>5. past'[n] = store.map /\ \A h \in 1..height : past'[h] = past[h]
  BY <1>0, <1>1, <1>2
<1>6. Held(store.map) = store.exists
  BY <1>0 DEF Held, LayersAgree
<1>7. ASSUME NEW h \in 1..height PROVE NumberedFirst(store', Held(past[h])) /\ Held(past[h]) \subseteq store.exists
  <2>1. PICK m \in 0..store.count : Held(past[h]) = {k \in store.exists : store.listKeys[k] < m}
    BY <1>0 DEF OldAreFirst, NumberedFirst
  <2>2. m \in 0..store'.count
    BY <1>0, <1>4
  <2>3. \A k \in store'.exists : store'.listKeys[k] \in Int
    BY <1>4 DEF StoreIsNumbered
  <2>4. {k \in store'.exists : store'.listKeys[k] < m} = {k \in store.exists : store.listKeys[k] < m}
    <3>1. ASSUME NEW k \in store'.exists, store'.listKeys[k] < m PROVE k \in store.exists
      BY <1>0, <1>4, <2>1, <2>3, <3>1
    <3>. QED
      BY <1>4, <3>1
  <2>. QED
    BY <2>1, <2>2, <2>4 DEF NumberedFirst
<1>8. NumberedFirst(store', store.exists)
  BY <1>0, <1>4 DEF NumberedFirst
<1>9. OldAreFirst'
  <2>1. ASSUME NEW h \in 1..n PROVE NumberedFirst(store', Held(past'[h]))
    <3>1. h = n \/ h \in 1..height
      BY <1>0, <1>1
    <3>. QED
      BY <1>5, <1>6, <1>7, <1>8, <3>1
  <2>2. ASSUME NEW g \in 1..n, NEW h \in 1..n, g <= h PROVE Held(past'[g]) \subseteq Held(past'[h])
    <3>1. (g = n /\ h = n) \/ (g \in 1..height /\ h = n) \/ (g \in 1..height /\ h \in 1..height)
      BY <1>0, <1>1, <2>2
    <3>2. CASE g \in 1..height /\ h \in 1..height
      BY <1>0, <1>5, <2>2, <3>2 DEF OldAreFirst
    <3>. QED
      BY <1>5, <1>6, <1>7, <3>1, <3>2
  <2>. QED
    BY <1>2, <2>1, <2>2 DEF OldAreFirst
<1>10. Numbering'
  <2>1. \A k \in Keys : ~changes'[k].indexProcess /\ changes'[k].status \in {"none", "view"}
    BY <1>2, <1>3, CommitClears
  <2>2. count' = store'.count
    BY <1>2 DEF CommitEffect
  <2>. QED
    BY <1>4, <2>1, <2>2, NumberingNone
<1>11. job'.kind = "idle"
  BY <1>2 DEF Idle
<1>. QED
  BY <1>4, <1>9, <1>10, <1>11 DEF IndexParts

\* The blocks are undone: the keys left are those stored before them.
LEMMA RevertCommitIndexes ==
  ASSUME IndexInvariant, Indexable, Writable, RevertCommit
  PROVE  IndexParts'
<1>0. /\ IndexParts /\ TypeOK /\ LayersAgree /\ OldAreFirst /\ HistoryIsKept /\ height \in Nat
      /\ store.count \in Nat /\ store.exists \subseteq Keys /\ count \in Nat /\ StoreIsNumbered(store)
  BY IndexFacts DEF IndexParts
<1>1. PICK n : n = job.to
  OBVIOUS
<1>2. /\ job.kind = "revert" /\ job.todo = <<>> /\ height = n + 1 /\ height' = n /\ job' = Extend
      /\ past' = SubSeq(past, 1, n) /\ CommitEffect
  BY <1>1 DEF RevertCommit
<1>3. n \in Nat /\ n <= height /\ Freeing
  BY <1>0, <1>1, <1>2 DEF TypeOK, Job, IndexParts
<1>4. \A h \in 1..n : past'[h] = past[h]
  <2>1. RevertInvariant
    BY IndexFacts
  <2>. QED
    BY <1>2, <1>3, <2>1, PastShortened
<1>5. Live = Held(past[height])
  <2>1. Undoes(<<>>, past[height], Seen)
    BY <1>0, <1>2 DEF HistoryIsKept
  <2>2. \A k \in Keys : Lookup(k) = past[height][k]
    BY <2>1 DEF Undoes, Seen
  <2>3. \A k \in Keys : Exists(k) <=> Lookup(k) # Nil
    BY <1>0 DEF Exists, Lookup, LayersAgree
  <2>. QED
    BY <2>2, <2>3 DEF Live, Held
<1>6. height \in 1..height /\ \A h \in 1..n : h \in 1..height /\ h <= height
  BY <1>0, <1>2, <1>3
<1>7. NumberedFirst(store, Live)
  BY <1>0, <1>5, <1>6 DEF OldAreFirst
<1>8. /\ StoreIsNumbered(store') /\ store'.exists = Live
      /\ Live = {k \in store.exists : store.listKeys[k] < count}
      /\ \A k \in Live : store'.listKeys[k] = store.listKeys[k]
      /\ store'.count = count
  BY <1>2, <1>3, <1>7, CommitFreesNumbered
<1>9. ASSUME NEW h \in 1..n PROVE NumberedFirst(store', Held(past[h]))
  <2>1. PICK m \in 0..store.count : Held(past[h]) = {k \in store.exists : store.listKeys[k] < m}
    BY <1>0, <1>6 DEF OldAreFirst, NumberedFirst
  <2>2. Held(past[h]) \subseteq Live
    BY <1>0, <1>5, <1>6 DEF OldAreFirst
  <2>3. \A k \in store.exists : store.listKeys[k] \in Int
    BY <1>0 DEF StoreIsNumbered
  <2>4. CASE m <= count
    <3>1. Held(past[h]) = {k \in store'.exists : store'.listKeys[k] < m}
      BY <1>8, <2>1, <2>2
    <3>2. m \in 0..store'.count
      BY <1>0, <1>8, <2>4
    <3>. QED
      BY <3>1, <3>2 DEF NumberedFirst
  <2>5. CASE m > count
    <3>1. Live \subseteq Held(past[h])
      BY <1>0, <1>8, <2>1, <2>3, <2>5
    <3>2. Held(past[h]) = {k \in store'.exists : store'.listKeys[k] < count}
      BY <1>8, <2>2, <3>1
    <3>. QED
      BY <1>0, <1>8, <3>2 DEF NumberedFirst
  <2>. QED
    BY <1>0, <2>4, <2>5
<1>10. OldAreFirst'
  <2>1. \A g, h \in 1..n : g <= h => Held(past'[g]) \subseteq Held(past'[h])
    BY <1>0, <1>4, <1>6 DEF OldAreFirst
  <2>2. \A h \in 1..n : NumberedFirst(store', Held(past'[h]))
    BY <1>4, <1>9
  <2>. QED
    BY <1>2, <2>1, <2>2 DEF OldAreFirst
<1>11. Numbering'
  <2>1. \A k \in Keys : ~changes'[k].indexProcess /\ changes'[k].status \in {"none", "view"}
    BY <1>2, <1>3, CommitClears
  <2>2. count' = store'.count /\ store'.count \in Nat
    BY <1>0, <1>2, <1>8 DEF CommitEffect
  <2>. QED
    BY <2>1, <2>2, NumberingNone
<1>12. job'.kind = "extend"
  BY <1>2 DEF Extend
<1>. QED
  BY <1>8, <1>10, <1>11, <1>12 DEF IndexParts

\* One recorded change is undone.
LEMMA RevertChangeIndexes ==
  ASSUME IndexInvariant, Indexable, Writable, RevertChange
  PROVE  Freeing'
<1>0. /\ IndexParts /\ TypeOK /\ OnlyStorable /\ HistoryIsKept /\ height \in Nat
  BY IndexFacts
<1>1. PICK t : t = Head(job.todo)
  OBVIOUS
<1>2. /\ job.kind = "revert" /\ job.todo # <<>>
      /\ (t.old = Nil /\ DeleteEffect(t.key)) \/ (t.old # Nil /\ UpdateEffect(t.key, t.old))
      /\ committed' = committed /\ store' = store /\ past' = past /\ height' = height
  BY <1>1 DEF RevertChange
<1>3. job.todo \in Seq(Transition) /\ job.to \in Nat
  BY <1>0 DEF TypeOK, Job
<1>4. t \in Transition /\ 1 \in 1..Len(job.todo) /\ t = job.todo[1]
  BY <1>1, <1>2, <1>3, HeadTailProperties, LenProperties
<1>5. t.key \in Keys /\ (t.old = Nil \/ t.old \in Values)
  BY <1>4 DEF Transition, Elements
<1>6. Undoes(job.todo, past[height], Seen) /\ job.to < height
  BY <1>0, <1>2 DEF HistoryIsKept
<1>7. t.old = past[height][t.key] /\ height \in 1..height
  BY <1>0, <1>3, <1>4, <1>6 DEF Undoes
<1>8. t.old \notin Deletable
  BY <1>0, <1>5, <1>7 DEF OnlyStorable, Storable
<1>9. Freeing
  BY <1>0, <1>2 DEF IndexParts
<1>10. CASE t.old = Nil /\ DeleteEffect(t.key)
  BY <1>2, <1>5, <1>7, <1>9, <1>10, FreeingDelete
<1>11. CASE t.old # Nil /\ UpdateEffect(t.key, t.old)
  BY <1>2, <1>5, <1>7, <1>8, <1>9, <1>11, FreeingUpdate
<1>. QED
  BY <1>2, <1>10, <1>11

\* The first store is numbered by the order of its keys.
LEMMA InitNumbered ==
  ASSUME NEW map \in [Keys -> (Values \ Deletable) \cup {Nil}], Indexable,
         NEW order \in Orders({k \in Keys : map[k] # Nil})
  PROVE  StoreIsNumbered(StoreWith(map, order))
<1>1. PICK S \in SUBSET Keys : S = {k \in Keys : map[k] # Nil}
  OBVIOUS
<1>2. PICK n \in Nat : n = Cardinality(S) /\ Len(order) = n
  BY <1>1, OrdersAreSequences, FiniteParts
<1>3. order \in [1..n -> S] /\ \A i, j \in 1..n : order[i] = order[j] => i = j
  BY <1>1, <1>2 DEF Orders
<1>4. ASSUME NEW k \in S PROVE \E i \in 1..n : order[i] = k
  <2>1. order \in Orders(S)
    BY <1>1
  <2>2. \E i \in 1..Len(order) : order[i] = k
    BY <2>1, OrdersCover
  <2>. QED
    BY <1>2, <2>2
<1>5. n <= Cardinality(Keys) /\ Cardinality(Keys) \in Nat
  BY <1>2, KeysFinite, FS_Subset, FS_CardinalityType
<1>6. PICK s : s = StoreWith(map, order)
  OBVIOUS
<1>7. s.exists = S /\ s.count = n
  BY <1>1, <1>2, <1>6 DEF StoreWith
<1>8. \A i \in Slots : s.list[i] = IF i < n THEN order[i + 1] ELSE Nil
  BY <1>2, <1>6 DEF StoreWith
<1>9. ASSUME NEW i \in 1..n PROVE s.listKeys[order[i]] = i - 1
  <2>1. (CHOOSE j \in 1..n : order[j] = order[i]) = i
    BY <1>3
  <2>2. DOMAIN order = 1..n /\ order[i] \in Keys
    BY <1>3
  <2>3. s.listKeys[order[i]] = IF Indexable /\ \E j \in DOMAIN order : order[j] = order[i]
                               THEN (CHOOSE j \in DOMAIN order : order[j] = order[i]) - 1 ELSE Nil
    BY <1>6, <2>2 DEF StoreWith
  <2>4. \E j \in 1..n : order[j] = order[i]
    OBVIOUS
  <2>. QED
    BY <2>1, <2>2, <2>3, <2>4
<1>10. ASSUME NEW k \in Keys \ S PROVE s.listKeys[k] = Nil
  <2>1. ~ \E j \in DOMAIN order : order[j] = k
    BY <1>3, <1>10
  <2>. QED
    BY <1>6, <2>1 DEF StoreWith
<1>11. ASSUME NEW k \in S PROVE s.listKeys[k] \in 0..(n - 1) /\ s.list[s.listKeys[k]] = k
  <2>1. PICK i \in 1..n : order[i] = k
    BY <1>4
  <2>2. i - 1 \in Slots /\ i - 1 < n /\ (i - 1) + 1 = i /\ i - 1 \in 0..(n - 1)
    BY <1>5 DEF Slots
  <2>3. s.listKeys[k] = i - 1
    BY <1>9, <2>1
  <2>4. s.list[i - 1] = order[(i - 1) + 1]
    BY <1>8, <2>2
  <2>. QED
    BY <2>1, <2>2, <2>3, <2>4
<1>12. ASSUME NEW i \in Slots, i < n PROVE s.list[i] \in S /\ s.listKeys[s.list[i]] = i
  <2>1. i + 1 \in 1..n /\ (i + 1) - 1 = i
    BY <1>5, <1>12 DEF Slots
  <2>2. s.list[i] = order[i + 1]
    BY <1>8, <1>12
  <2>3. s.listKeys[order[i + 1]] = (i + 1) - 1 /\ order[i + 1] \in S
    BY <1>3, <1>9, <2>1
  <2>. QED
    BY <2>1, <2>2, <2>3
<1>13. \A i \in Slots : i >= n => s.list[i] = Nil
  BY <1>5, <1>8 DEF Slots
<1>. QED
  BY <1>6, <1>7, <1>10, <1>11, <1>12, <1>13 DEF StoreIsNumbered

LEMMA InitIndexes == Init => IndexInvariant
<1>. SUFFICES ASSUME Init PROVE IndexInvariant
  OBVIOUS
<1>1. RevertInvariant
  BY InitRevert
<1>2. ASSUME Indexable PROVE IndexParts
  <2>1. PICK map \in [Keys -> (Values \ Deletable) \cup {Nil}] :
          \E order \in Orders({k \in Keys : map[k] # Nil}) : store = StoreWith(map, order)
    BY DEF Init
  <2>2. PICK order \in Orders({k \in Keys : map[k] # Nil}) : store = StoreWith(map, order)
    BY <2>1
  <2>3. StoreIsNumbered(store)
    BY <1>2, <2>2, InitNumbered
  <2>4. OldAreFirst
    BY DEF Init, OldAreFirst
  <2>5. store.count \in Nat
    BY <1>1, RevertParts DEF TypeOK, Store
  <2>6. count = store.count /\ \A k \in Keys : changes[k].status = "none" /\ ~changes[k].indexProcess
    BY DEF Init, NoChange
  <2>7. Processed(changes) = {}
    BY <2>6 DEF Processed
  <2>8. Numbers(changes, Processed(changes), store.count, count)
    BY <2>5, <2>6, <2>7, NumbersNone
  <2>9. job.kind = "idle"
    BY DEF Init, Idle
  <2>. QED
    BY <2>3, <2>4, <2>6, <2>8, <2>9 DEF IndexParts, Numbering
<1>. QED
  BY <1>1, <1>2 DEF IndexInvariant

LEMMA IndexStep ==
  ASSUME DrainHeight = 0, Indexable, Writable
  PROVE  IndexInvariant /\ [Next]_vars => IndexParts'
<1>. SUFFICES ASSUME IndexInvariant, [Next]_vars PROVE IndexParts'
  OBVIOUS
<1>0. /\ IndexParts /\ TypeOK /\ LayersAgree /\ OldAreFirst /\ StoreIsNumbered(store) /\ height \in Nat
      /\ store.count \in Nat /\ countCommitted = store.count /\ store.exists \subseteq Keys /\ job \in Job
  BY IndexFacts DEF IndexParts, TypeOK
<1>1. Idle.kind = "idle" /\ Extend.kind = "extend"
  BY DEF Idle, Extend
<1>2. ASSUME store' = store, height' = height, past' = past, job.kind # "revert", job' = job, Numbering'
      PROVE  IndexParts'
  BY <1>0, <1>2 DEF IndexParts, OldAreFirst
<1>3. job \in {Idle, Extend} => job.kind # "revert" /\ Numbering
  BY <1>0, <1>1 DEF IndexParts
<1>4. ASSUME NEW k \in Keys, Get(k) PROVE IndexParts'
  <2>1. Numbering'
    BY <1>3, <1>4, NumberingGet DEF Get
  <2>. QED
    BY <1>2, <1>3, <1>4, <2>1 DEF Get
<1>5. ASSUME NEW k \in Keys, Delete(k) PROVE IndexParts'
  <2>1. Numbering'
    BY <1>3, <1>5, NumberingDelete DEF Delete, Open
  <2>. QED
    BY <1>2, <1>3, <1>5, <2>1 DEF Delete, Open
<1>6. ASSUME NEW k \in Keys, NEW v \in Values, Create(k, v) \/ Update(k, v) PROVE IndexParts'
  <2>1. v \in Values \ Deletable /\ UpdateEffect(k, v) /\ store' = store /\ job \in {Idle, Extend}
        /\ height' = height /\ past' = past /\ job' = job
    BY <1>6 DEF Create, Update, Open
  <2>2. Numbering'
    BY <1>3, <2>1, NumberingUpdate
  <2>. QED
    BY <1>2, <1>3, <2>1, <2>2
<1>7. ASSUME CommitChanges PROVE IndexParts'
  BY <1>7 DEF CommitChanges
<1>8. ASSUME Rollback PROVE IndexParts'
  <2>1. \A k \in Keys : ~changes'[k].indexProcess /\ changes'[k].status \in {"none", "view"}
    BY <1>8 DEF Rollback, NoChange
  <2>2. job = Idle /\ job' = job /\ store' = store /\ height' = height /\ past' = past /\ count' = countCommitted
    BY <1>8 DEF Rollback
  <2>3. Numbering'
    BY <1>0, <2>1, <2>2, NumberingNone
  <2>. QED
    BY <1>2, <1>3, <2>2, <2>3
<1>9. ASSUME FreshMap
      PROVE  count' = store.count /\ \A k \in Keys : changes'[k] = NoChange /\ ~committed'[k].known
  BY <1>9 DEF FreshMap, NoCommitted
<1>10. ASSUME CreateNewHashMap PROVE IndexParts'
  <2>1. \A k \in Keys : ~changes'[k].indexProcess /\ changes'[k].status \in {"none", "view"}
    BY <1>9, <1>10 DEF CreateNewHashMap, NoChange
  <2>2. job = Idle /\ job' = job /\ store' = store /\ height' = height /\ past' = past /\ count' = store.count
    BY <1>9, <1>10 DEF CreateNewHashMap
  <2>3. Numbering'
    BY <1>0, <2>1, <2>2, NumberingNone
  <2>. QED
    BY <1>2, <1>3, <2>2, <2>3
<1>11. ASSUME SaveBlock PROVE IndexParts'
  BY <1>11, SaveBlockIndexes
<1>12. ASSUME NEW to \in 0..MaxBlocks, BeginRevert(to) PROVE IndexParts'
  <2>1. /\ to < height /\ store' = store /\ height' = height /\ past' = past /\ FreshMap
        /\ job' = [kind |-> "revert", todo |-> ReadTransitional(height), to |-> to]
    BY <1>12 DEF BeginRevert
  <2>2. job'.kind = "revert"
    BY <2>1
  <2>3. \A k \in Keys : changes'[k].status = "none" /\ ~changes'[k].indexProcess /\ ~committed'[k].known
    BY <1>9, <2>1 DEF NoChange
  <2>4. Numbers(changes', Processed(changes'), count', store'.count)
    <3>1. Processed(changes') = {}
      BY <2>3 DEF Processed
    <3>. QED
      BY <1>0, <1>9, <2>1, <3>1, NumbersNone
  <2>5. Held(past'[height']) \subseteq Live'
    <3>1. height \in 1..height
      BY <1>0, <2>1
    <3>2. NumberedFirst(store, Held(past[height]))
      BY <1>0, <3>1 DEF OldAreFirst
    <3>3. Held(past[height]) \subseteq store.exists
      BY <3>2 DEF NumberedFirst
    <3>4. \A k \in store.exists : Exists(k)'
      BY <1>0, <2>1, <2>3 DEF Exists
    <3>. QED
      BY <1>0, <2>1, <3>3, <3>4 DEF Live
  <2>6. Freeing'
    BY <2>3, <2>4, <2>5 DEF Freeing
  <2>. QED
    BY <1>0, <2>1, <2>2, <2>6 DEF IndexParts, OldAreFirst
<1>13. ASSUME RevertChange PROVE IndexParts'
  <2>1. job.kind = "revert" /\ job'.kind = "revert" /\ store' = store /\ height' = height /\ past' = past
    BY <1>0, <1>13 DEF RevertChange, Job
  <2>2. Freeing'
    BY <1>13, RevertChangeIndexes
  <2>. QED
    BY <1>0, <2>1, <2>2 DEF IndexParts, OldAreFirst
<1>14. ASSUME RevertNextBlock PROVE IndexParts'
  <2>1. PICK n : n = height - 1
    OBVIOUS
  <2>2. /\ job.kind = "revert" /\ height > job.to + 1 /\ height' = n /\ past' = SubSeq(past, 1, n)
        /\ job' = [job EXCEPT !.todo = ReadTransitional(n)]
        /\ changes' = changes /\ committed' = committed /\ count' = count /\ store' = store
    BY <1>14, <2>1 DEF RevertNextBlock
  <2>3. job.to \in Nat /\ job'.kind = "revert"
    BY <1>0, <2>2 DEF Job
  <2>4. n \in Nat /\ n + 1 = height /\ n \in 1..n /\ n <= height /\ height \in 1..height
        /\ \A h \in 1..n : h \in 1..height
    BY <1>0, <2>1, <2>2, <2>3
  <2>5. \A h \in 1..n : past'[h] = past[h]
    <3>1. RevertInvariant
      BY IndexFacts
    <3>. QED
      BY <2>2, <2>4, <3>1, PastShortened
  <2>6. OldAreFirst'
    BY <1>0, <2>2, <2>4, <2>5 DEF OldAreFirst
  <2>7. Freeing
    BY <1>0, <2>2 DEF IndexParts
  <2>8. Held(past'[height']) \subseteq Live'
    <3>1. Held(past[n]) \subseteq Held(past[height])
      BY <1>0, <2>4 DEF OldAreFirst
    <3>2. Live' = Live
      BY <2>2 DEF Live, Exists
    <3>. QED
      BY <2>2, <2>4, <2>5, <2>7, <3>1, <3>2 DEF Freeing
  <2>9. Freeing'
    BY <2>2, <2>7, <2>8 DEF Freeing
  <2>. QED
    BY <1>0, <2>2, <2>3, <2>6, <2>9 DEF IndexParts
<1>15. ASSUME RevertCommit PROVE IndexParts'
  BY <1>15, RevertCommitIndexes
<1>16. ASSUME BeginDrain PROVE IndexParts'
  BY <1>0, <1>16 DEF BeginDrain
<1>17. ASSUME DrainDelete PROVE IndexParts'
  BY <1>0, <1>17 DEF DrainDelete, IndexParts
<1>18. ASSUME UNCHANGED vars PROVE IndexParts'
  BY <1>0, <1>18 DEF vars, IndexParts, OldAreFirst, Numbering, Freeing, Live, Exists
<1>. QED
  BY <1>4, <1>5, <1>6, <1>7, <1>8, <1>10, <1>11, <1>12, <1>13, <1>14, <1>15, <1>16, <1>17, <1>18 DEF Next

\* The lists of an indexable map number its stored keys 0..count-1 with no gap and no duplicate, and
\* hold nothing else, after any sequence of blocks and reverts, whatever a batch created, deleted
\* again and renumbered, and in whatever order Go's maps list the changes that a revert undoes
\* (Update, Delete, CommitChanges). It is about a map of a collection that no block empties:
\* without the record of the heights that touched a map, a revert deletes keys that are not the
\* last ones, and emptying a map deletes stored keys outside the batch that created them.
THEOREM IndexesCorrect ==
  ASSUME Collected, DrainHeight = 0
  PROVE  Spec => []IndexesAreExact
<1>1. Init => IndexInvariant
  BY InitIndexes
<1>2. IndexInvariant /\ [Next]_vars => IndexInvariant'
  <2>1. IndexInvariant /\ [Next]_vars => RevertInvariant'
    BY RevertStep DEF IndexInvariant
  <2>2. IndexInvariant /\ [Next]_vars => (Indexable /\ Writable => IndexParts')
    BY IndexStep
  <2>. QED
    BY <2>1, <2>2 DEF IndexInvariant
<1>3. IndexInvariant => IndexesAreExact
  <2>. SUFFICES ASSUME IndexInvariant, Indexable, Writable
                PROVE  /\ store.count = Cardinality(store.exists)
                       /\ \A i \in Slots : IF i < store.count
                             THEN store.list[i] \in store.exists /\ store.listKeys[store.list[i]] = i
                             ELSE store.list[i] = Nil
                       /\ \A k \in Keys \ store.exists : store.listKeys[k] = Nil
    BY DEF IndexesAreExact
  <2>1. StoreIsNumbered(store) /\ CountsAgree /\ store.count \in Nat
    BY IndexFacts DEF IndexParts
  <2>2. \A i \in Slots : i \in Int
    BY DEF Slots
  <2>. QED
    BY <2>1, <2>2 DEF StoreIsNumbered, CountsAgree
<1>. QED
  BY <1>1, <1>2, <1>3, PTL DEF Spec
=============================================================================
