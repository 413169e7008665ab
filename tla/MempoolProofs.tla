--------------------------- MODULE MempoolProofs ---------------------------
(***************************************************************************)
(* Proofs about Mempool and about the multicast channel that carries its   *)
(* updates, for every set of transactions, clients and chain, and for      *)
(* every set of senders and listeners and any number of data.              *)
(*                                                                         *)
(* Mempool.  A transaction that is on the chain and in the mempool has an  *)
(* update on its way that will take it out, and one that waits to be put   *)
(* back has it behind the update that puts it back (Leaving).  The worker  *)
(* keeps its data storage in step with its result (Worked), and nobody     *)
(* brings it a result that it or another already fills (Couriers).         *)
(***************************************************************************)
EXTENDS Mempool, Multicast, FiniteSetTheorems, SequenceTheorems, NaturalsInduction,
        WellFoundedInduction, TLAPS

-----------------------------------------------------------------------------
(* The inductive invariant *)

\* No element stands in a list twice.
Once(list) == \A i, j \in DOMAIN list : list[i] = list[j] => i = j

\* The worker's books; its view and who may have changed the chain under it.
Books ==
    /\ Range(txsList) = txsMap /\ txsMap = pool /\ Once(txsList)
    /\ listIndex \in 0..Len(txsList)
Views ==
    /\ suspended <=> chainPc \in {"update", "continue"}
    /\ at = "inner" => view = tip /\ work # None /\ ~suspended

\* An update that is under way.
UpdateOK(u) ==
    /\ u.ok => u.tip \in 0..tip
    /\ ~u.ok => u.inserted = {} /\ u.removed = <<>>
    /\ Once(u.removed)
Deliveries ==
    /\ \A i \in DOMAIN updates : UpdateOK(updates[i])
    /\ \A i \in DOMAIN news : UpdateOK(news[i]) /\ news[i].ok
    /\ chainPc \in {"continue", "notify"} /\ ~chainErr => tip # 0
    /\ Once(pooler.update.removed) /\ Once(pooler.txs)
    /\ Range(pooler.txs) \subseteq Range(pooler.update.removed)

\* A courier brings the worker a result that is still empty and that nobody else brings.
CourierOK(c) ==
    /\ c.tip # None => c.tip \in 0..tip
    /\ c.pc = "store" => c.tip # None
    /\ c.pc = "send" /\ c.id # None =>
          c.id \in DOMAIN results /\ results[c.id].txs = <<>> /\ c.id # work
Couriers ==
    /\ CourierOK(updater) /\ CourierOK(syncer)
    /\ updater.pc = "send" /\ syncer.pc = "send" /\ updater.id # None => updater.id # syncer.id

\* A list of transactions can be included at tip n.
Applies(txs, n) ==
    \A i \in DOMAIN txs : txs[i] \notin Held[n] /\ Nonce[txs[i]] = NonceAt[n] + i - 1

\* The data storage is the one of the tip with what the result holds, until the tip changes;
\* then the work goes with the signal to continue.
Worked ==
    work # None =>
        /\ results[work].txs = included
        /\ \/ chainPc = "continue" /\ ~chainErr
           \/ storage = None /\ included = <<>>
           \/ storage # None /\ storage = NonceAt[tip] + Len(included) /\ Applies(included, tip)
Resulted ==
    \A r \in DOMAIN results :
        /\ results[r].tip \in 0..tip
        /\ results[r].tip = tip => Applies(results[r].txs, tip)

\* Where an update that takes t out of the mempool can be: AddBlocks is about to queue it, it is
\* queued, or it is among the news after the first n.
ToQueue(t) == chainPc \in {"continue", "notify"} /\ ~chainErr /\ t \in Inserted[tip]
Queued(t, n) == \E i \in DOMAIN updates : i > n /\ t \in updates[i].inserted
Reported(t, n) == \E i \in DOMAIN news : i > n /\ t \in news[i].inserted

\* What is on the chain and in the mempool, or about to be put back, will be taken out later.
Leaving ==
    /\ \A t \in pool \cap Held[tip] :
          \/ ToQueue(t) \/ Queued(t, 0) \/ Reported(t, 0)
          \/ pooler.pc = "remove" /\ t \in pooler.update.inserted
    /\ pooler.pc # "wait" => \A t \in Range(pooler.update.removed) \cap Held[tip] :
          ToQueue(t) \/ Queued(t, 0) \/ Reported(t, 0)
    /\ \A n \in DOMAIN news : \A t \in Range(news[n].removed) \cap Held[tip] :
          ToQueue(t) \/ Queued(t, 0) \/ Reported(t, n)
    /\ \A n \in DOMAIN updates : \A t \in Range(updates[n].removed) \cap Held[tip] :
          ToQueue(t) \/ Queued(t, n)

\* What the undone blocks leave is in the mempool, about to be inserted, or was tried and dropped.
Returning ==
    pooler.pc = "insert" =>
        \A i \in DOMAIN pooler.update.removed :
            Range(SubSeq(pooler.update.removed, 1, i)) \cap Staking = {} =>
                pooler.update.removed[i] \in pool \cup dropped \cup Range(pooler.txs)

PoolInvariant ==
    /\ TypeOK /\ Books /\ Views /\ Deliveries /\ Couriers /\ Worked /\ Resulted /\ Leaving /\ Returning

-----------------------------------------------------------------------------
(* Ranks: a place in an order is the number of places up to it *)

LEMMA FewerBelow ==
  ASSUME NEW S, IsFiniteSet(S), NEW T \in SUBSET S, T # S
  PROVE  /\ Cardinality(S) \in Nat /\ Cardinality(T) \in Nat
         /\ Cardinality(T) < Cardinality(S)
<1>1. IsFiniteSet(T) /\ Cardinality(T) <= Cardinality(S) /\ Cardinality(S) # Cardinality(T)
  BY FS_Subset
<1>2. Cardinality(S) \in Nat /\ Cardinality(T) \in Nat
  BY <1>1, FS_CardinalityType
<1>. QED
  BY <1>1, <1>2

\* In a total order, given by what is below each element, exactly one element has each rank.
LEMMA Ranks ==
  ASSUME NEW S, IsFiniteSet(S), NEW below \in [S -> SUBSET S],
         \A x \in S : x \in below[x],
         \A x, y \in S : below[x] \subseteq below[y] \/ below[y] \subseteq below[x],
         \A x, y \in S : below[x] = below[y] => x = y
  PROVE  /\ Cardinality(S) \in Nat
         /\ \A x \in S : Cardinality(below[x]) \in 1..Cardinality(S)
         /\ \A x, y \in S : below[x] \subseteq below[y] /\ x # y => Cardinality(below[x]) < Cardinality(below[y])
         /\ \A n \in 1..Cardinality(S) : \E x \in S : Cardinality(below[x]) = n
         /\ \A x, y \in S : Cardinality(below[x]) = Cardinality(below[y]) => x = y
<1>1. \A x \in S : IsFiniteSet(below[x])
  BY FS_Subset
<1>2. Cardinality(S) \in Nat
  BY FS_CardinalityType
<1>3. ASSUME NEW x \in S PROVE Cardinality(below[x]) \in 1..Cardinality(S)
  <2>1. Cardinality(below[x]) \in Nat
    BY <1>1, FS_CardinalityType
  <2>2. Cardinality(below[x]) <= Cardinality(S)
    BY FS_Subset
  <2>3. below[x] # {}
    OBVIOUS
  <2>4. Cardinality(below[x]) # 0
    BY <1>1, <2>3, FS_EmptySet
  <2>. QED
    BY <1>2, <2>1, <2>2, <2>4
<1>4. ASSUME NEW x \in S, NEW y \in S, below[x] \subseteq below[y], x # y
      PROVE  Cardinality(below[x]) < Cardinality(below[y])
  <2>1. below[x] # below[y]
    BY <1>4
  <2>. QED
    BY <1>1, <1>4, <2>1, FewerBelow
<1>5. ASSUME NEW x \in S, NEW y \in S, Cardinality(below[x]) = Cardinality(below[y]), x # y
      PROVE  FALSE
  <2>1. Cardinality(below[x]) \in Nat /\ Cardinality(below[y]) \in Nat
    BY <1>1, FS_CardinalityType
  <2>2. CASE below[x] \subseteq below[y]
    BY <1>4, <1>5, <2>1, <2>2
  <2>3. CASE below[y] \subseteq below[x]
    BY <1>4, <1>5, <2>1, <2>3
  <2>. QED
    BY <2>2, <2>3
<1>6. PICK rank : rank = [x \in S |-> Cardinality(below[x])]
  OBVIOUS
<1>7. rank \in [S -> 1..Cardinality(S)]
  BY <1>3, <1>6
<1>8. \A x, y \in S : rank[x] = rank[y] => x = y
  BY <1>5, <1>6
<1>9. rank \in Injection(S, 1..Cardinality(S))
  BY <1>7, <1>8 DEF Injection, IsInjective
<1>10. IsFiniteSet(1..Cardinality(S)) /\ Cardinality(1..Cardinality(S)) = Cardinality(S)
  BY <1>2, FS_Interval
<1>11. rank \in Surjection(S, 1..Cardinality(S))
  BY <1>9, <1>10, FS_Injection
<1>12. \A n \in 1..Cardinality(S) : \E x \in S : rank[x] = n
  BY <1>11 DEF Surjection
<1>. QED
  BY <1>2, <1>3, <1>4, <1>5, <1>6, <1>12

\* At takes the places of a list in their order, each once.
InOrder(list, places, place) ==
    /\ place \in [1..Cardinality(places) -> places]
    /\ \A n \in 1..Cardinality(places) : At(list, places)[n] = list[place[n]]
    /\ \A m, n \in 1..Cardinality(places) : m < n <=> place[m] < place[n]
    /\ \A i \in places : \E n \in 1..Cardinality(places) : place[n] = i

LEMMA AtPlaces ==
  ASSUME NEW list, NEW N \in Nat, NEW places \in SUBSET (1..N)
  PROVE  /\ IsFiniteSet(places) /\ Cardinality(places) \in Nat
         /\ \E place : InOrder(list, places, place)
<1>1. IsFiniteSet(places)
  <2>1. 1 \in Int /\ N \in Int
    OBVIOUS
  <2>2. IsFiniteSet(1..N)
    BY <2>1, FS_Interval
  <2>. QED
    BY <2>2, FS_Subset
<1>2. PICK below : below = [i \in places |-> {j \in places : j <= i}]
  OBVIOUS
<1>3. \A i \in places : i \in Nat
  OBVIOUS
<1>4. /\ below \in [places -> SUBSET places]
      /\ \A i \in places : i \in below[i]
  BY <1>2, <1>3
<1>5. \A i, j \in places : (i <= j => below[i] \subseteq below[j]) /\ (below[i] \subseteq below[j] => i <= j)
  <2>. SUFFICES ASSUME NEW i \in places, NEW j \in places
                PROVE  /\ i <= j => below[i] \subseteq below[j]
                       /\ below[i] \subseteq below[j] => i <= j
    OBVIOUS
  <2>1. i \in Nat /\ j \in Nat /\ i \in below[i]
    BY <1>3, <1>4
  <2>2. below[i] = {k \in places : k <= i} /\ below[j] = {k \in places : k <= j}
    BY <1>2
  <2>3. below[i] \subseteq below[j] => i <= j
    BY <2>1, <2>2
  <2>4. ASSUME i <= j, NEW k \in below[i] PROVE k \in below[j]
    <3>1. k \in places /\ k \in Nat /\ k <= i
      BY <1>3, <2>2
    <3>2. k <= j
      BY <2>1, <2>4, <3>1
    <3>. QED
      BY <2>2, <3>1, <3>2
  <2>. QED
    BY <2>3, <2>4
<1>6. \A i, j \in places : below[i] \subseteq below[j] \/ below[j] \subseteq below[i]
  BY <1>3, <1>5
<1>7. \A i, j \in places : below[i] = below[j] => i = j
  <2>. SUFFICES ASSUME NEW i \in places, NEW j \in places, below[i] = below[j] PROVE i = j
    OBVIOUS
  <2>1. i <= j /\ j <= i
    BY <1>5
  <2>. QED
    BY <1>3, <2>1
<1>8. /\ Cardinality(places) \in Nat
      /\ \A i \in places : Cardinality(below[i]) \in 1..Cardinality(places)
      /\ \A i, j \in places : below[i] \subseteq below[j] /\ i # j => Cardinality(below[i]) < Cardinality(below[j])
      /\ \A n \in 1..Cardinality(places) : \E i \in places : Cardinality(below[i]) = n
      /\ \A i, j \in places : Cardinality(below[i]) = Cardinality(below[j]) => i = j
  BY <1>1, <1>4, <1>6, <1>7, Ranks
<1>9. PICK place : place = [n \in 1..Cardinality(places) |->
                               CHOOSE i \in places : Cardinality({j \in places : j <= i}) = n]
  OBVIOUS
<1>10. ASSUME NEW n \in 1..Cardinality(places)
       PROVE  place[n] \in places /\ Cardinality(below[place[n]]) = n
  <2>1. PICK i \in places : Cardinality({j \in places : j <= i}) = n
    BY <1>2, <1>8
  <2>2. place[n] \in places /\ Cardinality({j \in places : j <= place[n]}) = n
    BY <1>9, <2>1
  <2>. QED
    BY <1>2, <2>2
<1>11. ASSUME NEW n \in 1..Cardinality(places) PROVE At(list, places)[n] = list[place[n]]
  BY <1>9 DEF At
<1>12. ASSUME NEW m \in 1..Cardinality(places), NEW n \in 1..Cardinality(places)
       PROVE  m < n <=> place[m] < place[n]
  <2>1. /\ m \in Nat /\ n \in Nat /\ place[m] \in Nat /\ place[n] \in Nat
        /\ place[m] \in places /\ place[n] \in places
        /\ Cardinality(below[place[m]]) = m /\ Cardinality(below[place[n]]) = n
    <3>1. m \in Nat /\ n \in Nat
      BY <1>8
    <3>2. /\ place[m] \in places /\ place[n] \in places
          /\ Cardinality(below[place[m]]) = m /\ Cardinality(below[place[n]]) = n
      BY <1>10
    <3>. QED
      BY <1>3, <3>1, <3>2
  <2>2. ASSUME place[m] < place[n] PROVE m < n
    <3>1. below[place[m]] \subseteq below[place[n]] /\ place[m] # place[n]
      BY <1>5, <2>1, <2>2
    <3>. QED
      BY <1>8, <2>1, <3>1
  <2>3. ASSUME place[n] < place[m] PROVE n < m
    <3>1. below[place[n]] \subseteq below[place[m]] /\ place[m] # place[n]
      BY <1>5, <2>1, <2>3
    <3>. QED
      BY <1>8, <2>1, <3>1
  <2>4. place[m] = place[n] => m = n
    BY <2>1
  <2>. QED
    BY <2>1, <2>2, <2>3, <2>4
<1>13. ASSUME NEW i \in places PROVE \E n \in 1..Cardinality(places) : place[n] = i
  <2>1. PICK n \in 1..Cardinality(places) : n = Cardinality(below[i])
    BY <1>8
  <2>2. place[n] = i
    BY <1>8, <1>10, <2>1
  <2>. QED
    BY <2>2
<1>14. place \in [1..Cardinality(places) -> places]
  BY <1>9, <1>10
<1>15. InOrder(list, places, place)
  BY <1>11, <1>12, <1>13, <1>14 DEF InOrder
<1>. QED
  BY <1>1, <1>8, <1>15

LEMMA AtProperties ==
  ASSUME NEW T, NEW list \in Seq(T), NEW places \in SUBSET DOMAIN list
  PROVE  /\ At(list, places) \in Seq(T)
         /\ Cardinality(places) \in Nat
         /\ Len(At(list, places)) = Cardinality(places)
         /\ DOMAIN At(list, places) = 1..Cardinality(places)
         /\ \E place : InOrder(list, places, place)
         /\ Range(At(list, places)) = {list[i] : i \in places}
         /\ Once(list) => Once(At(list, places))
<1>1. Len(list) \in Nat /\ DOMAIN list = 1..Len(list) /\ \A i \in DOMAIN list : list[i] \in T
  BY LenProperties, ElementOfSeq
<1>2. /\ Cardinality(places) \in Nat
      /\ \E place : InOrder(list, places, place)
  BY <1>1, AtPlaces
<1>3. PICK N \in Nat : N = Cardinality(places)
  BY <1>2
<1>4. PICK place : InOrder(list, places, place)
  BY <1>2
<1>5. PICK taken : taken = At(list, places)
  OBVIOUS
<1>6. /\ place \in [1..N -> places]
      /\ \A n \in 1..N : taken[n] = list[place[n]]
      /\ \A m, n \in 1..N : m < n <=> place[m] < place[n]
      /\ \A i \in places : \E n \in 1..N : place[n] = i
  BY <1>3, <1>4, <1>5 DEF InOrder
<1>7. DOMAIN taken = 1..N
  BY <1>3, <1>5 DEF At
<1>8. taken = [n \in 1..N |-> taken[n]]
  BY <1>3, <1>5 DEF At
<1>9. \A n \in 1..N : taken[n] \in T
  BY <1>1, <1>6
<1>10. taken \in Seq(T) /\ Len(taken) = N
  BY <1>3, <1>8, <1>9
<1>11. Range(taken) = {list[i] : i \in places}
  <2>1. Range(taken) = {taken[n] : n \in 1..N}
    BY <1>7 DEF Range
  <2>2. ASSUME NEW x \in Range(taken) PROVE x \in {list[i] : i \in places}
    BY <1>6, <2>1
  <2>3. ASSUME NEW i \in places PROVE list[i] \in Range(taken)
    <3>1. PICK n \in 1..N : place[n] = i
      BY <1>6
    <3>. QED
      BY <1>6, <2>1, <3>1
  <2>. QED
    BY <2>2, <2>3
<1>12. ASSUME Once(list), NEW m \in 1..N, NEW n \in 1..N, taken[m] = taken[n] PROVE m = n
  <2>1. place[m] \in DOMAIN list /\ place[n] \in DOMAIN list /\ list[place[m]] = list[place[n]]
    BY <1>6, <1>12
  <2>2. place[m] = place[n]
    BY <1>12, <2>1 DEF Once
  <2>3. place[m] \in Nat /\ ~(place[m] < place[n]) /\ ~(place[n] < place[m])
    BY <1>1, <2>1, <2>2
  <2>4. m \in Nat /\ n \in Nat /\ ~(m < n) /\ ~(n < m)
    BY <1>6, <2>3
  <2>. QED
    BY <2>4
<1>13. Once(list) => Once(taken)
  BY <1>7, <1>12 DEF Once
<1>. QED
  BY <1>2, <1>3, <1>5, <1>7, <1>10, <1>11, <1>13

LEMMA WithoutProperties ==
  ASSUME NEW T, NEW list \in Seq(T), NEW gone
  PROVE  /\ Without(list, gone) \in Seq(T)
         /\ Range(Without(list, gone)) = Range(list) \ gone
         /\ Once(list) => Once(Without(list, gone))
         /\ Len(Without(list, gone)) = Cardinality({i \in DOMAIN list : list[i] \notin gone})
<1>1. PICK places \in SUBSET DOMAIN list : places = {i \in DOMAIN list : list[i] \notin gone}
  OBVIOUS
<1>2. Without(list, gone) = At(list, places)
  BY <1>1 DEF Without
<1>3. /\ At(list, places) \in Seq(T)
      /\ Len(At(list, places)) = Cardinality(places)
      /\ Range(At(list, places)) = {list[i] : i \in places}
      /\ Once(list) => Once(At(list, places))
  BY AtProperties
<1>4. {list[i] : i \in places} = Range(list) \ gone
  <2>1. Range(list) = {list[i] : i \in DOMAIN list}
    BY DEF Range
  <2>2. ASSUME NEW i \in places PROVE list[i] \in Range(list) \ gone
    BY <1>1, <2>1
  <2>3. ASSUME NEW x \in Range(list) \ gone PROVE x \in {list[i] : i \in places}
    <3>1. PICK i \in DOMAIN list : x = list[i]
      BY <2>1
    <3>2. i \in places
      BY <1>1, <3>1
    <3>. QED
      BY <3>1, <3>2
  <2>. QED
    BY <2>2, <2>3
<1>. QED
  BY <1>1, <1>2, <1>3, <1>4

\* A sorting is a permutation.
LEMMA SortingProperties ==
  ASSUME NEW T, NEW list \in Seq(T), Once(list), NEW s \in Sortings(list)
  PROVE  s \in Seq(T) /\ Len(s) = Len(list) /\ Range(s) = Range(list) /\ Once(s)
<1>1. Len(list) \in Nat /\ DOMAIN list = 1..Len(list) /\ \A i \in DOMAIN list : list[i] \in T
  BY LenProperties, ElementOfSeq
<1>2. PICK N \in Nat : N = Len(list)
  BY <1>1
<1>3. s \in [1..N -> Range(list)] /\ \A i, j \in 1..N : s[i] = s[j] => i = j
  BY <1>1, <1>2 DEF Sortings
<1>4. Range(list) = {list[i] : i \in 1..N}
  BY <1>1, <1>2 DEF Range
<1>5. list \in [1..N -> Range(list)]
  <2>1. list \in [1..N -> T]
    BY <1>2, LenProperties
  <2>2. \A i \in 1..N : list[i] \in Range(list)
    BY <1>4
  <2>. QED
    BY <2>1, <2>2
<1>6. list \in Bijection(1..N, Range(list))
  <2>1. \A i, j \in 1..N : list[i] = list[j] => i = j
    BY <1>1, <1>2 DEF Once
  <2>2. list \in Injection(1..N, Range(list))
    BY <1>5, <2>1 DEF Injection, IsInjective
  <2>3. list \in Surjection(1..N, Range(list))
    BY <1>4, <1>5 DEF Surjection
  <2>. QED
    BY <2>2, <2>3 DEF Bijection
<1>7. IsFiniteSet(1..N) /\ IsFiniteSet(Range(list)) /\ Cardinality(1..N) = Cardinality(Range(list))
  <2>1. IsFiniteSet(1..N)
    BY FS_Interval
  <2>2. ExistsBijection(1..N, Range(list))
    BY <1>6 DEF ExistsBijection
  <2>. QED
    BY <2>1, <2>2, FS_Bijection
<1>8. s \in Injection(1..N, Range(list))
  BY <1>3 DEF Injection, IsInjective
<1>9. s \in Surjection(1..N, Range(list))
  BY <1>7, <1>8, FS_Injection
<1>10. DOMAIN s = 1..N /\ Range(s) = {s[i] : i \in 1..N}
  BY <1>3 DEF Range
<1>11. Range(s) = Range(list)
  <2>1. \A x \in Range(list) : \E i \in 1..N : s[i] = x
    BY <1>9 DEF Surjection
  <2>2. \A i \in 1..N : s[i] \in Range(list)
    BY <1>3
  <2>. QED
    BY <1>10, <2>1, <2>2
<1>12. \A i \in 1..N : s[i] \in T
  <2>1. \A x \in Range(list) : x \in T
    BY <1>1, <1>2, <1>4
  <2>. QED
    BY <1>3, <2>1
<1>13. s \in Seq(T) /\ Len(s) = N
  <2>1. s = [i \in 1..N |-> s[i]]
    BY <1>3
  <2>. QED
    BY <1>12, <2>1
<1>. QED
  BY <1>2, <1>3, <1>10, <1>11, <1>13 DEF Once

\* A list without repetitions has as many places as elements.
LEMMA OnceLength ==
  ASSUME NEW T, NEW list \in Seq(T), Once(list)
  PROVE  Len(list) = Cardinality(Range(list))
<1>1. PICK N \in Nat : N = Len(list)
  BY LenProperties
<1>2. list \in [1..N -> T] /\ DOMAIN list = 1..N
  BY <1>1, LenProperties
<1>3. Range(list) = {list[i] : i \in 1..N}
  BY <1>2 DEF Range
<1>4. list \in [1..N -> Range(list)]
  <2>1. \A i \in 1..N : list[i] \in Range(list)
    BY <1>3
  <2>. QED
    BY <1>2, <2>1
<1>5. \A i, j \in 1..N : list[i] = list[j] => i = j
  BY <1>2 DEF Once
<1>6. list \in Injection(1..N, Range(list)) /\ list \in Surjection(1..N, Range(list))
  BY <1>3, <1>4, <1>5 DEF Injection, IsInjective, Surjection
<1>7. ExistsBijection(1..N, Range(list))
  BY <1>6 DEF ExistsBijection, Bijection
<1>8. IsFiniteSet(1..N) /\ Cardinality(1..N) = N
  BY FS_Interval
<1>. QED
  BY <1>1, <1>7, <1>8, FS_Bijection

\* listIndex keeps its place when transactions leave the list.
LEMMA IndexKept ==
  ASSUME NEW T, NEW list \in Seq(T), NEW n \in 0..Len(list), NEW gone
  PROVE  n - Cardinality({i \in 1..n : list[i] \in gone}) \in 0..Len(Without(list, gone))
<1>1. Len(list) \in Nat /\ DOMAIN list = 1..Len(list)
  BY LenProperties
<1>2. n \in Nat /\ n \in Int /\ 1 \in Int /\ Len(list) \in Int
  BY <1>1
<1>3. IsFiniteSet(1..n) /\ Cardinality(1..n) = n
  BY <1>2, FS_Interval
<1>4. PICK out \in SUBSET (1..n) : out = {i \in 1..n : list[i] \in gone}
  OBVIOUS
<1>5. (1..n) \cap out = out
  OBVIOUS
<1>6. IsFiniteSet((1..n) \ out) /\ Cardinality((1..n) \ out) = n - Cardinality(out)
  <2>1. PICK S : S = 1..n
    OBVIOUS
  <2>2. IsFiniteSet(S)
    BY <1>3, <2>1
  <2>3. IsFiniteSet(S \ out) /\ Cardinality(S \ out) = Cardinality(S) - Cardinality(S \cap out)
    BY ONLY <2>2, FS_Difference
  <2>4. S \cap out = out /\ Cardinality(S) = n
    BY <1>3, <1>5, <2>1
  <2>. QED
    BY <2>1, <2>3, <2>4
<1>7. PICK places : places = {i \in DOMAIN list : list[i] \notin gone}
  OBVIOUS
<1>8. IsFiniteSet(places)
  <2>1. IsFiniteSet(1..Len(list))
    BY <1>2, FS_Interval
  <2>2. places \in SUBSET (1..Len(list))
    BY <1>1, <1>7
  <2>. QED
    BY <2>1, <2>2, FS_Subset
<1>9. (1..n) \ out \in SUBSET places
  <2>. SUFFICES ASSUME NEW i \in 1..n, i \notin out PROVE i \in places
    OBVIOUS
  <2>1. i \in DOMAIN list
    BY <1>1
  <2>2. list[i] \notin gone
    BY <1>4
  <2>. QED
    BY <1>7, <2>1, <2>2
<1>10. Cardinality((1..n) \ out) <= Cardinality(places)
  BY <1>8, <1>9, FS_Subset
<1>11. Cardinality((1..n) \ out) \in Nat /\ Cardinality(places) \in Nat
  BY <1>6, <1>8, FS_CardinalityType
<1>12. Len(Without(list, gone)) = Cardinality(places)
  BY <1>7, WithoutProperties
<1>. QED
  BY <1>4, <1>6, <1>10, <1>11, <1>12

LEMMA SmallestNumber ==
  ASSUME NEW S \in SUBSET Nat, S # {}
  PROVE  Min(S) \in S /\ \A y \in S : Min(S) <= y
<1>1. PICK x \in S : \A y \in S : ~(<<y, x>> \in OpToRel(<, Nat))
  BY NatLessThanWellFounded, WFMin
<1>2. \A y \in S : ~(y < x)
  BY <1>1 DEF OpToRel
<1>3. \A y \in S : x <= y
  BY <1>2
<1>. QED
  BY <1>3 DEF Min

\* What processTxsToMempool leaves: everything before the first staking transaction that the
\* mempool does not have.
LEMMA ProcessedProperties ==
  ASSUME NEW txs \in Seq(Txs)
  PROVE  /\ Processed(txs) \in Seq(Txs)
         /\ Range(Processed(txs)) \subseteq Range(txs)
         /\ Once(txs) => Once(Processed(txs))
         /\ \A i \in DOMAIN txs :
               Range(SubSeq(txs, 1, i)) \cap Staking = {} => txs[i] \in pool \cup Range(Processed(txs))
<1>1. Len(txs) \in Nat /\ DOMAIN txs = 1..Len(txs) /\ \A i \in DOMAIN txs : txs[i] \in Txs
  BY LenProperties, ElementOfSeq
<1>2. PICK stop : stop = {i \in DOMAIN txs : txs[i] \in Staking}
  OBVIOUS
<1>3. PICK n : n = IF stop = {} THEN Len(txs) ELSE Min(stop) - 1
  OBVIOUS
<1>4. n \in 0..Len(txs) /\ \A i \in DOMAIN txs : txs[i] \in Staking => i > n
  <2>1. CASE stop = {}
    BY <1>1, <1>2, <1>3, <2>1
  <2>2. CASE stop # {}
    <3>1. stop \in SUBSET Nat
      BY <1>1, <1>2
    <3>2. Min(stop) \in stop /\ \A y \in stop : Min(stop) <= y
      BY <2>2, <3>1, SmallestNumber
    <3>3. Min(stop) \in 1..Len(txs)
      BY <1>1, <1>2, <3>2
    <3>4. n \in 0..Len(txs) /\ n < Min(stop)
      BY <1>1, <1>3, <2>2, <3>3
    <3>5. ASSUME NEW i \in DOMAIN txs, txs[i] \in Staking PROVE i > n
      <4>1. i \in stop
        BY <1>2, <3>5
      <4>2. Min(stop) <= i /\ i \in Nat
        BY <3>1, <3>2, <4>1
      <4>. QED
        BY <1>1, <3>3, <3>4, <4>2
    <3>. QED
      BY <3>4, <3>5
  <2>. QED
    BY <2>1, <2>2
<1>5. PICK start : start = SubSeq(txs, 1, n)
  OBVIOUS
<1>6. start \in Seq(Txs) /\ DOMAIN start = 1..n /\ \A i \in 1..n : start[i] = txs[i]
  <2>1. \A i \in 1..n : txs[i] \in Txs
    BY <1>1, <1>4
  <2>2. n \in Nat
    BY <1>1, <1>4
  <2>. QED
    BY <1>5, <2>1, <2>2
<1>7. Processed(txs) = Without(start, pool)
  <2>1. CASE stop = {}
    <3>1. start = txs
      BY <1>3, <1>5, <2>1, SubSeqFull
    <3>. QED
      BY <1>2, <2>1, <3>1 DEF Processed
  <2>2. CASE stop # {}
    BY <1>2, <1>3, <1>5, <2>2 DEF Processed
  <2>. QED
    BY <2>1, <2>2
<1>8. /\ Without(start, pool) \in Seq(Txs)
      /\ Range(Without(start, pool)) = Range(start) \ pool
      /\ Once(start) => Once(Without(start, pool))
  BY <1>6, WithoutProperties
<1>9. Range(txs) = {txs[i] : i \in DOMAIN txs} /\ Range(start) = {start[i] : i \in 1..n}
  BY <1>6 DEF Range
<1>10. \A i \in 1..n : i \in DOMAIN txs
  BY <1>1, <1>4
<1>11. Range(start) \subseteq Range(txs)
  BY <1>6, <1>9, <1>10
<1>12. Once(txs) => Once(start)
  BY <1>6, <1>10 DEF Once
<1>13. stop \in SUBSET Nat
  BY <1>1, <1>2
<1>14. ASSUME NEW i \in DOMAIN txs, Range(SubSeq(txs, 1, i)) \cap Staking = {}
       PROVE  txs[i] \in pool \cup Range(Processed(txs))
  <2>1. i \in 1..n
    <3>. SUFFICES ASSUME i > n PROVE FALSE
      BY <1>1, <1>4
    <3>1. stop # {} /\ Min(stop) = n + 1
      <4>1. n # Len(txs)
        BY <1>1
      <4>2. stop # {}
        BY <1>3, <4>1
      <4>3. Min(stop) \in stop
        BY <1>13, <4>2, SmallestNumber
      <4>4. Min(stop) \in Nat /\ n = Min(stop) - 1
        BY <1>1, <1>2, <1>3, <4>2, <4>3
      <4>. QED
        BY <4>2, <4>4
    <3>2. n + 1 \in DOMAIN txs /\ txs[n + 1] \in Staking
      BY <1>2, <1>13, <3>1, SmallestNumber
    <3>3. n + 1 \in 1..i /\ i \in Nat
      BY <1>1, <1>4
    <3>4. \A k \in 1..i : txs[k] \in Txs
      BY <1>1
    <3>5. /\ DOMAIN SubSeq(txs, 1, i) = 1..i
          /\ SubSeq(txs, 1, i)[n + 1] = txs[n + 1]
      BY <3>3, <3>4
    <3>6. txs[n + 1] \in Range(SubSeq(txs, 1, i))
      BY <3>3, <3>5 DEF Range
    <3>. QED
      BY <1>14, <3>2, <3>6
  <2>2. txs[i] \in Range(start)
    BY <1>6, <1>9, <2>1
  <2>. QED
    BY <1>7, <1>8, <2>2
<1>. QED
  BY <1>7, <1>8, <1>11, <1>12, <1>14

-----------------------------------------------------------------------------
(* The chain *)

LEMMA FiniteRange ==
  ASSUME NEW S, IsFiniteSet(S), NEW f, DOMAIN f = S, f = [x \in S |-> f[x]]
  PROVE  IsFiniteSet(Range(f))
<1>1. Range(f) = {f[x] : x \in S}
  BY DEF Range
<1>2. f \in [S -> Range(f)]
  <2>1. \A x \in S : f[x] \in Range(f)
    BY <1>1
  <2>. QED
    BY <2>1
<1>3. f \in Surjection(S, Range(f))
  BY <1>1, <1>2 DEF Surjection
<1>. QED
  BY <1>3, FS_Surjection

LEMMA FiniteSeqRange ==
  ASSUME NEW T, NEW list \in Seq(T)
  PROVE  IsFiniteSet(Range(list))
<1>1. Len(list) \in Nat /\ DOMAIN list = 1..Len(list) /\ list = [i \in 1..Len(list) |-> list[i]]
  BY LenProperties
<1>2. 1 \in Int /\ Len(list) \in Int
  BY <1>1
<1>3. IsFiniteSet(1..Len(list))
  BY <1>2, FS_Interval
<1>. QED
  BY <1>1, <1>3, FiniteRange

LEMMA TipBlocks ==
  ASSUME NEW n \in Tips
  PROVE  /\ n \in Nat /\ n + 1 \in DOMAIN Chain
         /\ Chain[n + 1] \in Seq(Seq(Txs))
         /\ \A h \in DOMAIN Chain[n + 1] : Chain[n + 1][h] \in Seq(Txs) /\ h \in Nat
<1>1. Chain \in Seq(Seq(Seq(Txs)))
  BY ChainAssumption
<1>2. Len(Chain) \in Nat /\ DOMAIN Chain = 1..Len(Chain)
  BY <1>1, LenProperties
<1>3. n \in Nat /\ n + 1 \in 1..Len(Chain)
  BY <1>2 DEF Tips
<1>4. Chain[n + 1] \in Seq(Seq(Txs))
  BY <1>1, <1>3, ElementOfSeq
<1>5. DOMAIN Chain[n + 1] = 1..Len(Chain[n + 1]) /\ Len(Chain[n + 1]) \in Nat
  BY <1>4, LenProperties
<1>6. ASSUME NEW h \in DOMAIN Chain[n + 1] PROVE Chain[n + 1][h] \in Seq(Txs) /\ h \in Nat
  BY <1>4, <1>5, ElementOfSeq
<1>. QED
  BY <1>2, <1>3, <1>4, <1>6

LEMMA EarlierTip ==
  ASSUME NEW n \in Tips \ {0}
  PROVE  n \in Nat /\ n - 1 \in Tips /\ (n - 1) + 1 = n /\ n \in DOMAIN Chain
<1>1. Len(Chain) \in Nat
  BY ChainAssumption, LenProperties
<1>2. n - 1 \in Tips /\ (n - 1) + 1 = n /\ n \in Nat
  BY <1>1 DEF Tips
<1>3. (n - 1) + 1 \in DOMAIN Chain
  BY <1>2, TipBlocks
<1>. QED
  BY <1>2, <1>3

LEMMA HeldProperties ==
  ASSUME NEW n \in Tips
  PROVE  Held[n] \subseteq Txs /\ NonceAt[n] \in Nat
<1>1. Chain[n + 1] \in Seq(Seq(Txs)) /\ \A h \in DOMAIN Chain[n + 1] : Chain[n + 1][h] \in Seq(Txs)
  BY TipBlocks
<1>2. PICK blocks : blocks = Chain[n + 1]
  OBVIOUS
<1>3. PICK f : f = [h \in DOMAIN blocks |-> Range(blocks[h])]
  OBVIOUS
<1>4. Held[n] = UNION {Range(blocks[h]) : h \in DOMAIN blocks}
  BY <1>2 DEF Held
<1>5. Range(f) = {Range(blocks[h]) : h \in DOMAIN blocks}
  BY <1>3 DEF Range
<1>6. IsFiniteSet(Range(f))
  <2>1. Len(blocks) \in Nat /\ DOMAIN blocks = 1..Len(blocks)
    BY <1>1, <1>2, LenProperties
  <2>2. 1 \in Int /\ Len(blocks) \in Int
    BY <2>1
  <2>3. IsFiniteSet(DOMAIN blocks)
    BY <2>1, <2>2, FS_Interval
  <2>4. DOMAIN f = DOMAIN blocks /\ f = [h \in DOMAIN blocks |-> f[h]]
    BY <1>3
  <2>. QED
    BY <2>3, <2>4, FiniteRange
<1>7. ASSUME NEW h \in DOMAIN blocks PROVE IsFiniteSet(Range(blocks[h])) /\ Range(blocks[h]) \subseteq Txs
  BY <1>1, <1>2, FiniteSeqRange, RangeOfSeq
<1>8. \A T \in Range(f) : IsFiniteSet(T)
  BY <1>5, <1>7
<1>9. IsFiniteSet(Held[n])
  BY <1>4, <1>5, <1>6, <1>8, FS_UNION
<1>10. Held[n] \subseteq Txs
  BY <1>4, <1>7
<1>11. IsFiniteSet(Held[n] \ Staking)
  BY <1>9, FS_Difference
<1>12. Cardinality(Held[n] \ Staking) \in Nat
  BY <1>11, FS_CardinalityType
<1>. QED
  BY <1>10, <1>12 DEF NonceAt

LEMMA InHeld ==
  ASSUME NEW n \in Tips, NEW t
  PROVE  t \in Held[n] <=> \E h \in DOMAIN Chain[n + 1] : \E i \in DOMAIN Chain[n + 1][h] : t = Chain[n + 1][h][i]
<1>1. Held[n] = UNION {Range(Chain[n + 1][h]) : h \in DOMAIN Chain[n + 1]}
  BY DEF Held
<1>2. \A h \in DOMAIN Chain[n + 1] : Range(Chain[n + 1][h]) = {Chain[n + 1][h][i] : i \in DOMAIN Chain[n + 1][h]}
  BY DEF Range
<1>3. t \in Held[n] <=> \E h \in DOMAIN Chain[n + 1] : t \in Range(Chain[n + 1][h])
  BY <1>1
<1>4. \A h \in DOMAIN Chain[n + 1] :
          t \in Range(Chain[n + 1][h]) <=> \E i \in DOMAIN Chain[n + 1][h] : t = Chain[n + 1][h][i]
  BY <1>2
<1>. QED
  BY <1>3, <1>4

LEMMA InInserted ==
  ASSUME NEW n \in Tips \ {0}, NEW t
  PROVE  t \in Inserted[n] <=>
            \E h \in DOMAIN Chain[n + 1] : h \notin Kept(n) /\ \E i \in DOMAIN Chain[n + 1][h] : t = Chain[n + 1][h][i]
<1>1. Inserted[n] = UNION {Range(Chain[n + 1][h]) : h \in DOMAIN Chain[n + 1] \ Kept(n)}
  BY DEF Inserted
<1>2. \A h \in DOMAIN Chain[n + 1] : Range(Chain[n + 1][h]) = {Chain[n + 1][h][i] : i \in DOMAIN Chain[n + 1][h]}
  BY DEF Range
<1>3. t \in Inserted[n] <=> \E h \in DOMAIN Chain[n + 1] \ Kept(n) : t \in Range(Chain[n + 1][h])
  BY <1>1
<1>4. \A h \in DOMAIN Chain[n + 1] :
          t \in Range(Chain[n + 1][h]) <=> \E i \in DOMAIN Chain[n + 1][h] : t = Chain[n + 1][h][i]
  BY <1>2
<1>. QED
  BY <1>3, <1>4

LEMMA InKept ==
  ASSUME NEW n \in Tips \ {0}, NEW h \in Kept(n)
  PROVE  h \in DOMAIN Chain[n] /\ h \in DOMAIN Chain[n + 1] /\ Chain[n][h] = Chain[n + 1][h]
<1>1. h \in DOMAIN Chain[n] /\ h \in DOMAIN Chain[n + 1] /\ \A g \in 1..h : Chain[n][g] = Chain[n + 1][g]
  BY DEF Kept
<1>2. DOMAIN Chain[n + 1] = 1..Len(Chain[n + 1]) /\ Len(Chain[n + 1]) \in Nat
  BY TipBlocks, LenProperties
<1>3. h \in 1..h
  BY <1>1, <1>2
<1>. QED
  BY <1>1, <1>3

\* A tip holds what its predecessor held and what it inserts, at most.
LEMMA HeldGrows ==
  ASSUME NEW n \in Tips \ {0}
  PROVE  /\ Held[n] \subseteq Held[n - 1] \cup Inserted[n]
         /\ Inserted[n] \subseteq Txs
<1>1. n \in Tips /\ n - 1 \in Tips /\ (n - 1) + 1 = n
  BY EarlierTip
<1>2. ASSUME NEW t \in Held[n], t \notin Inserted[n] PROVE t \in Held[n - 1]
  <2>1. PICK h \in DOMAIN Chain[n + 1] : \E i \in DOMAIN Chain[n + 1][h] : t = Chain[n + 1][h][i]
    BY <1>1, InHeld
  <2>2. h \in Kept(n)
    BY <1>2, <2>1, InInserted
  <2>3. h \in DOMAIN Chain[n] /\ Chain[n][h] = Chain[n + 1][h]
    BY <2>2, InKept
  <2>4. \E g \in DOMAIN Chain[n] : \E i \in DOMAIN Chain[n][g] : t = Chain[n][g][i]
    BY <2>1, <2>3
  <2>. QED
    BY <1>1, <2>4, InHeld
<1>3. Inserted[n] \subseteq Held[n]
  <2>. SUFFICES ASSUME NEW t \in Inserted[n] PROVE t \in Held[n]
    OBVIOUS
  <2>1. \E h \in DOMAIN Chain[n + 1] : \E i \in DOMAIN Chain[n + 1][h] : t = Chain[n + 1][h][i]
    BY InInserted
  <2>. QED
    BY <1>1, <2>1, InHeld
<1>4. Held[n] \subseteq Txs
  BY <1>1, HeldProperties
<1>. QED
  BY <1>2, <1>3, <1>4

LEMMA UndonePlace ==
  ASSUME NEW n \in Tips \ {0}, NEW p \in UndonePlaces(n)
  PROVE  /\ p[1] \in DOMAIN Chain[n] /\ p[1] \notin Kept(n) /\ p[1] \in Nat
         /\ p[2] \in DOMAIN Chain[n][p[1]] /\ p[2] \in Nat
         /\ p = <<p[1], p[2]>>
         /\ Chain[n][p[1]][p[2]] \in Txs /\ Chain[n][p[1]][p[2]] \notin Inserted[n]
<1>1. PICK h \in DOMAIN Chain[n] \ Kept(n) :
          p \in {<<h, i>> : i \in {j \in DOMAIN Chain[n][h] : Chain[n][h][j] \notin Inserted[n]}}
  BY DEF UndonePlaces
<1>2. PICK i \in DOMAIN Chain[n][h] : p = <<h, i>> /\ Chain[n][h][i] \notin Inserted[n]
  BY <1>1
<1>3. p[1] = h /\ p[2] = i
  BY <1>2
<1>4. n - 1 \in Tips /\ (n - 1) + 1 = n
  BY EarlierTip
<1>5. \A g \in DOMAIN Chain[(n - 1) + 1] : Chain[(n - 1) + 1][g] \in Seq(Txs) /\ g \in Nat
  BY <1>4, TipBlocks
<1>6. Chain[n][h] \in Seq(Txs) /\ h \in Nat
  BY <1>4, <1>5
<1>7. DOMAIN Chain[n][h] = 1..Len(Chain[n][h]) /\ Len(Chain[n][h]) \in Nat
  BY <1>6, LenProperties
<1>8. i \in Nat /\ Chain[n][h][i] \in Txs
  BY <1>6, <1>7, ElementOfSeq
<1>. QED
  BY <1>2, <1>3, <1>6, <1>8

LEMMA UndonePlacesFinite ==
  ASSUME NEW n \in Tips \ {0}
  PROVE  IsFiniteSet(UndonePlaces(n))
<1>1. n - 1 \in Tips /\ (n - 1) + 1 = n
  BY EarlierTip
<1>2. Chain[(n - 1) + 1] \in Seq(Seq(Txs)) /\ \A h \in DOMAIN Chain[(n - 1) + 1] : Chain[(n - 1) + 1][h] \in Seq(Txs)
  BY <1>1, TipBlocks
<1>3. PICK blocks : blocks = Chain[n]
  OBVIOUS
<1>4. blocks \in Seq(Seq(Txs)) /\ \A h \in DOMAIN blocks : blocks[h] \in Seq(Txs)
  BY <1>1, <1>2, <1>3
<1>5. PICK some : some = [h \in DOMAIN blocks |-> {j \in DOMAIN blocks[h] : blocks[h][j] \notin Inserted[n]}]
  OBVIOUS
<1>6. ASSUME NEW h \in DOMAIN blocks PROVE IsFiniteSet({<<h, i>> : i \in some[h]})
  <2>1. DOMAIN blocks[h] = 1..Len(blocks[h]) /\ Len(blocks[h]) \in Nat
    BY <1>4, LenProperties
  <2>2. 1 \in Int /\ Len(blocks[h]) \in Int
    BY <2>1
  <2>3. IsFiniteSet(DOMAIN blocks[h])
    BY <2>1, <2>2, FS_Interval
  <2>4. some[h] \in SUBSET DOMAIN blocks[h]
    BY <1>5
  <2>5. IsFiniteSet(some[h])
    BY <2>3, <2>4, FS_Subset
  <2>6. PICK f : f = [i \in some[h] |-> <<h, i>>]
    OBVIOUS
  <2>7. DOMAIN f = some[h] /\ f = [i \in some[h] |-> f[i]]
    BY <2>6
  <2>8. IsFiniteSet(Range(f))
    BY <2>5, <2>7, FiniteRange
  <2>9. Range(f) = {<<h, i>> : i \in some[h]}
    BY <2>6 DEF Range
  <2>. QED
    BY <2>8, <2>9
<1>7. PICK g : g = [h \in DOMAIN blocks \ Kept(n) |-> {<<h, i>> : i \in some[h]}]
  OBVIOUS
<1>8. IsFiniteSet(DOMAIN blocks \ Kept(n))
  <2>1. DOMAIN blocks = 1..Len(blocks) /\ Len(blocks) \in Nat
    BY <1>4, LenProperties
  <2>2. 1 \in Int /\ Len(blocks) \in Int
    BY <2>1
  <2>3. IsFiniteSet(DOMAIN blocks)
    BY <2>1, <2>2, FS_Interval
  <2>. QED
    BY <2>3, FS_Difference
<1>9. IsFiniteSet(Range(g))
  <2>1. DOMAIN g = DOMAIN blocks \ Kept(n) /\ g = [h \in DOMAIN blocks \ Kept(n) |-> g[h]]
    BY <1>7
  <2>. QED
    BY <1>8, <2>1, FiniteRange
<1>10. Range(g) = {{<<h, i>> : i \in some[h]} : h \in DOMAIN blocks \ Kept(n)}
  BY <1>7 DEF Range
<1>11. \A T \in Range(g) : IsFiniteSet(T)
  BY <1>6, <1>10
<1>12. IsFiniteSet(UNION Range(g))
  BY <1>9, <1>11, FS_UNION
<1>13. UndonePlaces(n) = UNION {{<<h, i>> : i \in some[h]} : h \in DOMAIN blocks \ Kept(n)}
  <2>1. \A h \in DOMAIN blocks : some[h] = {j \in DOMAIN blocks[h] : blocks[h][j] \notin Inserted[n]}
    BY <1>5
  <2>. QED
    BY <1>3, <2>1 DEF UndonePlaces
<1>. QED
  BY <1>10, <1>12, <1>13

\* The undone transactions come each once, and none of them is on the new chain.
LEMMA UndoneProperties ==
  ASSUME NEW n \in Tips \ {0}
  PROVE  /\ Undone[n] \in Seq(Txs)
         /\ Once(Undone[n])
         /\ Range(Undone[n]) \cap Held[n] = {}
<1>1. PICK places : places = UndonePlaces(n)
  OBVIOUS
<1>2. IsFiniteSet(places)
  BY <1>1, UndonePlacesFinite
<1>3. PICK below : below = [p \in places |-> UpTo(p, places)]
  OBVIOUS
<1>4. \A p \in places : /\ p[1] \in DOMAIN Chain[n] /\ p[1] \notin Kept(n) /\ p[1] \in Nat
                        /\ p[2] \in DOMAIN Chain[n][p[1]] /\ p[2] \in Nat
                        /\ p = <<p[1], p[2]>>
                        /\ Chain[n][p[1]][p[2]] \in Txs /\ Chain[n][p[1]][p[2]] \notin Inserted[n]
  BY <1>1, UndonePlace
<1>5. \A p, q \in places : q \in below[p] <=> q[1] > p[1] \/ (q[1] = p[1] /\ q[2] <= p[2])
  BY <1>3 DEF UpTo
<1>6. below \in [places -> SUBSET places]
  BY <1>3 DEF UpTo
<1>7. \A p \in places : p \in below[p]
  BY <1>4, <1>5
<1>8. ASSUME NEW p \in places, NEW q \in places, q \in below[p] PROVE below[q] \subseteq below[p]
  <2>. SUFFICES ASSUME NEW r \in below[q] PROVE r \in below[p]
    OBVIOUS
  <2>1. r \in places
    BY <1>6
  <2>2. /\ p[1] \in Nat /\ p[2] \in Nat /\ q[1] \in Nat /\ q[2] \in Nat /\ r[1] \in Nat /\ r[2] \in Nat
    BY <1>4, <2>1
  <2>3. /\ q[1] > p[1] \/ (q[1] = p[1] /\ q[2] <= p[2])
        /\ r[1] > q[1] \/ (r[1] = q[1] /\ r[2] <= q[2])
    BY <1>5, <1>8, <2>1
  <2>4. r[1] > p[1] \/ (r[1] = p[1] /\ r[2] <= p[2])
    BY <2>2, <2>3
  <2>. QED
    BY <1>5, <2>1, <2>4
<1>9. ASSUME NEW p \in places, NEW q \in places
      PROVE  /\ below[p] \subseteq below[q] \/ below[q] \subseteq below[p]
             /\ below[p] = below[q] => p = q
  <2>1. p[1] \in Nat /\ p[2] \in Nat /\ q[1] \in Nat /\ q[2] \in Nat
    BY <1>4
  <2>2. q \in below[p] \/ p \in below[q]
    BY <1>5, <2>1
  <2>3. q \in below[p] /\ p \in below[q] => p[1] = q[1] /\ p[2] = q[2]
    BY <1>5, <2>1
  <2>4. q \in below[p] /\ p \in below[q] => p = q
    BY <1>4, <2>3
  <2>5. below[p] = below[q] => q \in below[p] /\ p \in below[q]
    BY <1>7
  <2>. QED
    BY <1>8, <2>2, <2>4, <2>5
<1>10. /\ Cardinality(places) \in Nat
       /\ \A k \in 1..Cardinality(places) : \E p \in places : Cardinality(below[p]) = k
  BY <1>2, <1>6, <1>7, <1>9, Ranks
<1>11. PICK place : place = [k \in 1..Cardinality(places) |->
                                CHOOSE q \in places : Cardinality(UpTo(q, places)) = k]
  OBVIOUS
<1>12. ASSUME NEW k \in 1..Cardinality(places)
       PROVE  place[k] \in places /\ Cardinality(below[place[k]]) = k
  <2>1. PICK p \in places : Cardinality(UpTo(p, places)) = k
    BY <1>3, <1>10
  <2>2. place[k] \in places /\ Cardinality(UpTo(place[k], places)) = k
    BY <1>11, <2>1
  <2>. QED
    BY <1>3, <2>2
<1>13. PICK list : list = Undone[n]
  OBVIOUS
<1>14. PICK N \in Nat : N = Cardinality(places)
  BY <1>10
<1>15. list = [k \in 1..N |-> Chain[n][place[k][1]][place[k][2]]]
  BY <1>1, <1>11, <1>13, <1>14 DEF Undone
<1>16. \A k \in 1..N : list[k] \in Txs
  BY <1>4, <1>12, <1>14, <1>15
<1>17. list \in Seq(Txs) /\ DOMAIN list = 1..N
  <2>1. list = [k \in 1..N |-> list[k]]
    BY <1>15
  <2>. QED
    BY <1>16, <2>1
<1>18. n \in DOMAIN Chain /\ n \in Tips /\ n - 1 \in Tips /\ (n - 1) + 1 = n
  BY EarlierTip
<1>19. \A g, h \in DOMAIN Chain[n] : \A i \in DOMAIN Chain[n][g], j \in DOMAIN Chain[n][h] :
          Chain[n][g][i] = Chain[n][h][j] => g = h /\ i = j
  BY <1>18, OnceAssumption
<1>20. ASSUME NEW k \in 1..N, NEW l \in 1..N, list[k] = list[l] PROVE k = l
  <2>1. place[k] \in places /\ place[l] \in places
    BY <1>12, <1>14
  <2>2. Chain[n][place[k][1]][place[k][2]] = Chain[n][place[l][1]][place[l][2]]
    BY <1>15, <1>20
  <2>3. place[k][1] = place[l][1] /\ place[k][2] = place[l][2]
    BY <1>4, <1>19, <2>1, <2>2
  <2>4. place[k] = place[l]
    BY <1>4, <2>1, <2>3
  <2>. QED
    BY <1>12, <1>14, <2>4
<1>21. ASSUME NEW k \in 1..N, list[k] \in Held[n] PROVE FALSE
  <2>1. PICK p : p = place[k]
    OBVIOUS
  <2>2. /\ p \in places /\ list[k] = Chain[n][p[1]][p[2]]
    BY <1>12, <1>14, <1>15, <2>1
  <2>3. /\ p[1] \in DOMAIN Chain[n] /\ p[1] \notin Kept(n) /\ p[2] \in DOMAIN Chain[n][p[1]]
        /\ list[k] \notin Inserted[n]
    BY <1>4, <2>2
  <2>4. PICK h \in DOMAIN Chain[n + 1] : \E i \in DOMAIN Chain[n + 1][h] : list[k] = Chain[n + 1][h][i]
    BY <1>18, <1>21, InHeld
  <2>5. h \in Kept(n)
    BY <2>3, <2>4, InInserted
  <2>6. h \in DOMAIN Chain[n] /\ Chain[n][h] = Chain[n + 1][h]
    BY <2>5, InKept
  <2>7. PICK i \in DOMAIN Chain[n][h] : list[k] = Chain[n][h][i]
    BY <2>4, <2>6
  <2>8. Chain[n][p[1]][p[2]] = Chain[n][h][i]
    BY <2>2, <2>7
  <2>9. \A j \in DOMAIN Chain[n][p[1]], m \in DOMAIN Chain[n][h] :
            Chain[n][p[1]][j] = Chain[n][h][m] => p[1] = h
    BY <1>19, <2>3, <2>6
  <2>10. p[1] = h
    BY <2>3, <2>7, <2>8, <2>9
  <2>. QED
    BY <2>3, <2>5, <2>10
<1>22. Range(list) = {list[k] : k \in 1..N}
  BY <1>17 DEF Range
<1>23. Once(list)
  BY <1>17, <1>20 DEF Once
<1>24. Range(list) \cap Held[n] = {}
  BY <1>21, <1>22
<1>. QED
  BY <1>13, <1>17, <1>23, <1>24

-----------------------------------------------------------------------------
(* A part of the invariant stays true when nothing that it speaks of changes *)

LEMMA BooksSame == ASSUME Books, UNCHANGED poolVars PROVE Books'
BY DEF Books, poolVars, Once

LEMMA ViewsSame == ASSUME Views, UNCHANGED <<chainPc, tip, work, viewVars>> PROVE Views'
BY DEF Views, viewVars

LEMMA DeliveriesSame ==
  ASSUME Deliveries, UNCHANGED <<chainPc, chainErr, tip, updates, news, pooler>> PROVE Deliveries'
BY DEF Deliveries, UpdateOK, Once

LEMMA CouriersSame ==
  ASSUME Couriers, UNCHANGED <<tip, results, work, updater, syncer>> PROVE Couriers'
BY DEF Couriers, CourierOK

LEMMA WorkedSame ==
  ASSUME Worked, UNCHANGED <<chainPc, chainErr, tip, results, work, storage, included>> PROVE Worked'
BY DEF Worked, Applies

LEMMA ResultedSame ==
  ASSUME Resulted, UNCHANGED <<tip, results>> PROVE Resulted'
BY DEF Resulted, Applies

LEMMA LeavingSame ==
  ASSUME Leaving, UNCHANGED <<chainPc, chainErr, tip, updates, news, pooler, pool>> PROVE Leaving'
BY DEF Leaving, ToQueue, Queued, Reported

LEMMA ReturningSame ==
  ASSUME Returning, UNCHANGED <<pooler, pool, dropped>> PROVE Returning'
BY DEF Returning

\* Resume leaves the worker outside the store, or inside a view of the tip.
LEMMA ResumeViews ==
  ASSUME TypeOK, Views, NEW w, NEW s, Resume(w, s), work' = w, tip' = tip,
         s <=> chainPc' \in {"update", "continue"}
  PROVE  Views' /\ at' \in {"outer", "inner"} /\ view' \in Tips \cup {None}
BY DEF TypeOK, Views, Resume

-----------------------------------------------------------------------------
(* Every action keeps the invariant *)

LEMMA BeginAddBlocksKeeps == ASSUME PoolInvariant, BeginAddBlocks PROVE PoolInvariant'
<1>0. /\ TypeOK /\ Books /\ Views /\ Deliveries /\ Couriers /\ Worked /\ Resulted /\ Leaving /\ Returning
  BY DEF PoolInvariant
<1>1. TypeOK'
  BY <1>0 DEF TypeOK, BeginAddBlocks, chainVars, threadVars, clientVars, poolVars, workVars, viewVars
<1>2. Books'
  BY <1>0, BooksSame DEF BeginAddBlocks
<1>3. Views'
  BY <1>0 DEF BeginAddBlocks, Views, viewVars, workVars
<1>4. Deliveries'
  BY <1>0 DEF BeginAddBlocks, Deliveries, UpdateOK, Once, threadVars
<1>5. Couriers'
  BY <1>0, CouriersSame DEF BeginAddBlocks, threadVars, workVars
<1>6. Worked'
  BY <1>0 DEF BeginAddBlocks, Worked, Applies, workVars
<1>7. Resulted'
  BY <1>0, ResultedSame DEF BeginAddBlocks
<1>8. Leaving'
  <2>1. \A t : ~ToQueue(t) /\ ~ToQueue(t)'
    BY DEF BeginAddBlocks, ToQueue
  <2>2. /\ tip' = tip /\ updates' = updates /\ news' = news /\ pooler' = pooler /\ pool' = pool
    BY DEF BeginAddBlocks, threadVars, poolVars
  <2>. QED
    BY <1>0, <2>1, <2>2 DEF Leaving, Queued, Reported
<1>9. Returning'
  BY <1>0, ReturningSame DEF BeginAddBlocks, threadVars, poolVars
<1>. QED
  BY <1>1, <1>2, <1>3, <1>4, <1>5, <1>6, <1>7, <1>8, <1>9 DEF PoolInvariant

LEMMA SuspendKeeps == ASSUME PoolInvariant, Suspend PROVE PoolInvariant'
<1>0. /\ TypeOK /\ Books /\ Views /\ Deliveries /\ Couriers /\ Worked /\ Resulted /\ Leaving /\ Returning
  BY DEF PoolInvariant
<1>1. TypeOK'
  BY <1>0 DEF TypeOK, Suspend, chainVars, threadVars, clientVars, poolVars, workVars, viewVars
<1>2. Books'
  BY <1>0, BooksSame DEF Suspend
<1>3. Views'
  BY <1>0 DEF Suspend, Views, workVars
<1>4. Deliveries'
  BY <1>0 DEF Suspend, Deliveries, UpdateOK, Once, threadVars
<1>5. Couriers'
  BY <1>0, CouriersSame DEF Suspend, threadVars, workVars
<1>6. Worked'
  BY <1>0 DEF Suspend, Worked, Applies, workVars
<1>7. Resulted'
  BY <1>0, ResultedSame DEF Suspend
<1>8. Leaving'
  <2>1. \A t : ~ToQueue(t) /\ ~ToQueue(t)'
    BY DEF Suspend, ToQueue
  <2>2. /\ tip' = tip /\ updates' = updates /\ news' = news /\ pooler' = pooler /\ pool' = pool
    BY DEF Suspend, threadVars, poolVars
  <2>. QED
    BY <1>0, <2>1, <2>2 DEF Leaving, Queued, Reported
<1>9. Returning'
  BY <1>0, ReturningSame DEF Suspend, threadVars, poolVars
<1>. QED
  BY <1>1, <1>2, <1>3, <1>4, <1>5, <1>6, <1>7, <1>8, <1>9 DEF PoolInvariant

LEMMA SubmitKeeps == ASSUME PoolInvariant, NEW c \in Clients, Submit(c) PROVE PoolInvariant'
<1>0. /\ TypeOK /\ Books /\ Views /\ Deliveries /\ Couriers /\ Worked /\ Resulted /\ Leaving /\ Returning
  BY DEF PoolInvariant
<1>1. TypeOK'
  <2>1. client' \in [Clients -> {"new", "waiting", "accepted", "refused"}] /\ addCn' \in Seq(Clients)
    <3>1. client \in [Clients -> {"new", "waiting", "accepted", "refused"}] /\ addCn \in Seq(Clients)
      BY <1>0 DEF TypeOK
    <3>2. CASE Submits[c] \in pool
      BY <3>1, <3>2 DEF Submit
    <3>3. CASE Submits[c] \notin pool
      BY <3>1, <3>3 DEF Submit
    <3>. QED
      BY <3>2, <3>3
  <2>. QED
    BY <1>0, <2>1 DEF TypeOK, Submit, chainVars, threadVars, poolVars, workVars, viewVars
<1>2. Books'
  BY <1>0, BooksSame DEF Submit
<1>3. Views'
  BY <1>0, ViewsSame DEF Submit, chainVars, workVars
<1>4. Deliveries'
  BY <1>0, DeliveriesSame DEF Submit, chainVars, threadVars
<1>5. Couriers'
  BY <1>0, CouriersSame DEF Submit, chainVars, threadVars, workVars
<1>6. Worked'
  BY <1>0, WorkedSame DEF Submit, chainVars, workVars
<1>7. Resulted'
  BY <1>0, ResultedSame DEF Submit, chainVars
<1>8. Leaving'
  BY <1>0, LeavingSame DEF Submit, chainVars, threadVars, poolVars
<1>9. Returning'
  BY <1>0, ReturningSame DEF Submit, threadVars, poolVars
<1>. QED
  BY <1>1, <1>2, <1>3, <1>4, <1>5, <1>6, <1>7, <1>8, <1>9 DEF PoolInvariant

\* A new block: what it holds is still to be queued.
LEMMA UpdateStoreKeeps == ASSUME PoolInvariant, UpdateStore PROVE PoolInvariant'
<1>0. /\ TypeOK /\ Books /\ Views /\ Deliveries /\ Couriers /\ Worked /\ Resulted /\ Leaving /\ Returning
  BY DEF PoolInvariant
<1>1. tip \in Nat /\ tip' \in Nat /\ tip' \in Tips /\ (tip' = tip \/ (tip' = tip + 1 /\ ~chainErr'))
  BY <1>0 DEF TypeOK, UpdateStore, Tips
<1>2. TypeOK'
  <2>1. errors' \in 0..MaxErrors /\ chainErr' \in BOOLEAN
    <3>1. errors \in 0..MaxErrors /\ MaxErrors \in Nat
      BY <1>0, BoundsAssumption DEF TypeOK
    <3>2. errors' \in 0..MaxErrors
      BY <3>1 DEF UpdateStore
    <3>3. chainErr' \in BOOLEAN
      BY DEF UpdateStore
    <3>. QED
      BY <3>2, <3>3
  <2>. QED
    BY <1>0, <1>1, <2>1 DEF TypeOK, UpdateStore, threadVars, clientVars, poolVars, workVars, viewVars
<1>3. Books'
  BY <1>0, BooksSame DEF UpdateStore
<1>4. Views'
  BY <1>0 DEF UpdateStore, TypeOK, Views, viewVars, workVars
<1>5. \A n \in 0..tip : n \in 0..tip'
  BY <1>1
<1>6. Deliveries'
  <2>1. updates' = updates /\ news' = news /\ pooler' = pooler
    BY DEF UpdateStore, threadVars
  <2>2. ~chainErr' => tip' # 0
    BY <1>1 DEF UpdateStore
  <2>3. /\ \A i \in DOMAIN updates : UpdateOK(updates[i])'
        /\ \A i \in DOMAIN news : UpdateOK(news[i])' /\ news[i].ok
    <3>1. /\ \A i \in DOMAIN updates : UpdateOK(updates[i])
          /\ \A i \in DOMAIN news : UpdateOK(news[i]) /\ news[i].ok
      BY <1>0 DEF Deliveries
    <3>. QED
      BY <1>5, <2>1, <3>1 DEF UpdateOK
  <2>. QED
    BY <1>0, <2>1, <2>2, <2>3 DEF Deliveries
<1>7. Couriers'
  BY <1>0, <1>5 DEF UpdateStore, Couriers, CourierOK, threadVars, workVars
<1>8. Worked'
  <2>1. CASE ~chainErr'
    BY <1>0, <2>1 DEF UpdateStore, Worked, workVars
  <2>2. CASE chainErr'
    BY <1>0, <1>1, <2>2 DEF UpdateStore, Worked, Applies, workVars
  <2>. QED
    BY <2>1, <2>2
<1>9. Resulted'
  <2>1. results' = results
    BY DEF UpdateStore
  <2>2. CASE tip' = tip
    BY <1>0, <2>1, <2>2, ResultedSame
  <2>3. CASE tip' = tip + 1
    <3>1. ASSUME NEW r \in DOMAIN results PROVE results[r].tip \in 0..tip' /\ results[r].tip # tip'
      <4>1. results[r].tip \in 0..tip
        BY <1>0 DEF Resulted
      <4>. QED
        BY <1>1, <2>3, <4>1
    <3>. QED
      BY <2>1, <3>1 DEF Resulted
  <2>. QED
    BY <1>1, <2>2, <2>3
<1>10. Leaving'
  <2>1. updates' = updates /\ news' = news /\ pooler' = pooler /\ pool' = pool
    BY DEF UpdateStore, threadVars, poolVars
  <2>2. \A t : ~ToQueue(t)
    BY DEF UpdateStore, ToQueue
  <2>3. ASSUME NEW t \in Held[tip'] PROVE t \in Held[tip] \/ ToQueue(t)'
    <3>1. CASE tip' = tip
      BY <3>1
    <3>2. CASE tip' = tip + 1
      <4>1. tip' \in Tips \ {0} /\ tip' - 1 = tip
        BY <1>1, <3>2
      <4>2. t \in Held[tip] \/ t \in Inserted[tip']
        BY <4>1, HeldGrows
      <4>3. ~chainErr' /\ chainPc' = "continue"
        BY <1>1, <3>2 DEF UpdateStore
      <4>. QED
        BY <4>2, <4>3 DEF ToQueue
    <3>. QED
      BY <1>1, <3>1, <3>2
  <2>4. \A t, n : (Queued(t, n) => Queued(t, n)') /\ (Reported(t, n) => Reported(t, n)')
    BY <2>1 DEF Queued, Reported
  <2>5. ASSUME NEW t \in pool' \cap Held[tip']
        PROVE  \/ ToQueue(t)' \/ Queued(t, 0)' \/ Reported(t, 0)'
               \/ pooler'.pc = "remove" /\ t \in pooler'.update.inserted
    BY <1>0, <2>1, <2>2, <2>3, <2>4 DEF Leaving
  <2>6. ASSUME pooler'.pc # "wait", NEW t \in Range(pooler'.update.removed) \cap Held[tip']
        PROVE  ToQueue(t)' \/ Queued(t, 0)' \/ Reported(t, 0)'
    BY <1>0, <2>1, <2>2, <2>3, <2>4, <2>6 DEF Leaving
  <2>7. ASSUME NEW n \in DOMAIN news', NEW t \in Range(news'[n].removed) \cap Held[tip']
        PROVE  ToQueue(t)' \/ Queued(t, 0)' \/ Reported(t, n)'
    BY <1>0, <2>1, <2>2, <2>3, <2>4 DEF Leaving
  <2>8. ASSUME NEW n \in DOMAIN updates', NEW t \in Range(updates'[n].removed) \cap Held[tip']
        PROVE  ToQueue(t)' \/ Queued(t, n)'
    BY <1>0, <2>1, <2>2, <2>3, <2>4 DEF Leaving
  <2>. QED
    BY <2>5, <2>6, <2>7, <2>8 DEF Leaving
<1>11. Returning'
  BY <1>0, ReturningSame DEF UpdateStore, threadVars, poolVars
<1>. QED
  BY <1>2, <1>3, <1>4, <1>6, <1>7, <1>8, <1>9, <1>10, <1>11 DEF PoolInvariant

\* The update that AddBlocks queues is the last one, and undoes nothing that its tip holds.
LEMMA NotifyKeeps == ASSUME PoolInvariant, Notify PROVE PoolInvariant'
<1>0. /\ TypeOK /\ Books /\ Views /\ Deliveries /\ Couriers /\ Worked /\ Resulted /\ Leaving /\ Returning
  BY DEF PoolInvariant
<1>1. PICK u : u = IF chainErr THEN NoUpdate
                   ELSE [ok |-> TRUE, tip |-> tip, inserted |-> Inserted[tip], removed |-> Undone[tip]]
  OBVIOUS
<1>2. /\ updates' = Append(updates, u) /\ chainPc = "notify" /\ chainPc' = "idle"
      /\ UNCHANGED <<chainErr, tip, errors, threadVars, clientVars, results, poolVars, workVars, viewVars>>
  BY <1>1 DEF Notify
<1>3. tip \in Tips /\ tip \in Nat
  BY <1>0 DEF TypeOK, Tips
<1>4. ~chainErr => tip \in Tips \ {0}
  BY <1>0, <1>2, <1>3 DEF Deliveries
<1>5. <<>> \in Seq(Txs) /\ Range(<<>>) = {} /\ Once(<<>>)
  BY DEF Range, Once
<1>6. /\ u \in Update /\ UpdateOK(u)
      /\ Range(u.removed) \cap Held[tip] = {}
      /\ \A t : ToQueue(t) => t \in u.inserted
  <2>1. CASE chainErr
    <3>1. u = [ok |-> FALSE, tip |-> None, inserted |-> {}, removed |-> <<>>]
      BY <1>1, <2>1 DEF NoUpdate
    <3>2. u.ok = FALSE /\ u.inserted = {} /\ u.removed = <<>>
      BY <3>1
    <3>3. u \in Update
      BY <1>5, <3>1 DEF Update
    <3>4. UpdateOK(u)
      BY <1>5, <3>2 DEF UpdateOK
    <3>. QED
      BY <1>5, <2>1, <3>2, <3>3, <3>4 DEF ToQueue
  <2>2. CASE ~chainErr
    <3>1. u = [ok |-> TRUE, tip |-> tip, inserted |-> Inserted[tip], removed |-> Undone[tip]]
      BY <1>1, <2>2
    <3>2. Undone[tip] \in Seq(Txs) /\ Once(Undone[tip]) /\ Range(Undone[tip]) \cap Held[tip] = {}
      BY <1>4, <2>2, UndoneProperties
    <3>3. Inserted[tip] \subseteq Txs
      BY <1>4, <2>2, HeldGrows
    <3>4. u \in Update
      BY <1>3, <3>1, <3>2, <3>3 DEF Update
    <3>5. u.ok /\ u.tip = tip /\ u.removed = Undone[tip] /\ u.inserted = Inserted[tip]
      BY <3>1
    <3>6. UpdateOK(u)
      BY <1>3, <3>2, <3>5 DEF UpdateOK
    <3>. QED
      BY <3>2, <3>4, <3>5, <3>6 DEF ToQueue
  <2>. QED
    BY <2>1, <2>2
<1>7. PICK L \in Nat : L = Len(updates)
  BY <1>0, LenProperties DEF TypeOK
<1>8. /\ DOMAIN updates = 1..L /\ DOMAIN updates' = 1..(L + 1) /\ updates' \in Seq(Update)
      /\ updates'[L + 1] = u /\ \A i \in 1..L : updates'[i] = updates[i]
  <2>1. updates \in Seq(Update)
    BY <1>0 DEF TypeOK
  <2>2. /\ updates' \in Seq(Update) /\ Len(updates') = L + 1
        /\ \A i \in 1..L : updates'[i] = updates[i]
        /\ updates'[L + 1] = u
    BY <1>2, <1>6, <1>7, <2>1, AppendProperties
  <2>3. DOMAIN updates = 1..L /\ DOMAIN updates' = 1..(L + 1)
    BY <1>7, <2>1, <2>2, LenProperties
  <2>. QED
    BY <2>2, <2>3
<1>9. TypeOK'
  BY <1>0, <1>2, <1>8 DEF TypeOK, threadVars, clientVars, poolVars, workVars, viewVars
<1>10. Books'
  BY <1>0, <1>2, BooksSame
<1>11. Views'
  BY <1>0, <1>2 DEF Views, viewVars, workVars
<1>12. Deliveries'
  <2>1. tip' = tip /\ news' = news /\ pooler' = pooler
    BY <1>2 DEF threadVars
  <2>2. ASSUME NEW i \in DOMAIN updates' PROVE UpdateOK(updates'[i])
    <3>1. CASE i = L + 1
      BY <1>6, <1>8, <3>1
    <3>2. CASE i # L + 1
      <4>1. i \in 1..L
        BY <1>8, <3>2
      <4>. QED
        BY <1>0, <1>8, <4>1 DEF Deliveries
    <3>. QED
      BY <3>1, <3>2
  <2>3. \A i \in DOMAIN updates' : UpdateOK(updates[i])'
    BY <2>1, <2>2 DEF UpdateOK
  <2>4. \A i \in DOMAIN news : UpdateOK(news[i])' /\ news[i].ok
    BY <1>0, <2>1 DEF Deliveries, UpdateOK
  <2>. QED
    BY <1>0, <1>2, <2>1, <2>3, <2>4 DEF Deliveries
<1>13. Couriers'
  BY <1>0, <1>2, CouriersSame DEF threadVars, workVars
<1>14. Worked'
  BY <1>0, <1>2 DEF Worked, Applies, workVars
<1>15. Resulted'
  BY <1>0, <1>2, ResultedSame
<1>16. Leaving'
  <2>1. tip' = tip /\ news' = news /\ pooler' = pooler /\ pool' = pool
    BY <1>2 DEF threadVars, poolVars
  <2>2. ASSUME NEW t, NEW n, Queued(t, n) PROVE Queued(t, n)'
    <3>1. PICK i \in 1..L : i > n /\ t \in updates[i].inserted
      BY <1>8, <2>2 DEF Queued
    <3>2. i \in 1..(L + 1) /\ t \in updates'[i].inserted
      BY <1>8, <3>1
    <3>. QED
      BY <1>8, <3>1, <3>2 DEF Queued
  <2>3. ASSUME NEW t, NEW n \in 0..L, ToQueue(t) PROVE Queued(t, n)'
    <3>1. L + 1 > n /\ L + 1 \in 1..(L + 1)
      OBVIOUS
    <3>2. t \in updates'[L + 1].inserted
      BY <1>6, <1>8, <2>3
    <3>. QED
      BY <1>8, <3>1, <3>2 DEF Queued
  <2>4. \A t, n : Reported(t, n) => Reported(t, n)'
    BY <2>1 DEF Reported
  <2>5. 0 \in 0..L /\ \A n \in 1..L : n \in 0..L
    OBVIOUS
  <2>6. ASSUME NEW t \in pool' \cap Held[tip']
        PROVE  \/ ToQueue(t)' \/ Queued(t, 0)' \/ Reported(t, 0)'
               \/ pooler'.pc = "remove" /\ t \in pooler'.update.inserted
    BY <1>0, <2>1, <2>2, <2>3, <2>4, <2>5 DEF Leaving
  <2>7. ASSUME pooler'.pc # "wait", NEW t \in Range(pooler'.update.removed) \cap Held[tip']
        PROVE  ToQueue(t)' \/ Queued(t, 0)' \/ Reported(t, 0)'
    BY <1>0, <2>1, <2>2, <2>3, <2>4, <2>5, <2>7 DEF Leaving
  <2>8. ASSUME NEW n \in DOMAIN news', NEW t \in Range(news'[n].removed) \cap Held[tip']
        PROVE  ToQueue(t)' \/ Queued(t, 0)' \/ Reported(t, n)'
    BY <1>0, <2>1, <2>2, <2>3, <2>4, <2>5 DEF Leaving
  <2>9. ASSUME NEW n \in DOMAIN updates', NEW t \in Range(updates'[n].removed) \cap Held[tip']
        PROVE  ToQueue(t)' \/ Queued(t, n)'
    <3>1. CASE n = L + 1
      BY <1>6, <1>8, <2>1, <3>1
    <3>2. CASE n # L + 1
      <4>1. n \in 1..L
        BY <1>8, <3>2
      <4>2. t \in Range(updates[n].removed) \cap Held[tip]
        BY <1>8, <2>1, <4>1
      <4>3. ToQueue(t) \/ Queued(t, n)
        BY <1>0, <1>8, <4>1, <4>2 DEF Leaving
      <4>. QED
        BY <2>2, <2>3, <2>5, <4>1, <4>3
    <3>. QED
      BY <3>1, <3>2
  <2>. QED
    BY <2>6, <2>7, <2>8, <2>9 DEF Leaving
<1>17. Returning'
  BY <1>0, <1>2, ReturningSame DEF threadVars, poolVars
<1>. QED
  BY <1>9, <1>10, <1>11, <1>12, <1>13, <1>14, <1>15, <1>16, <1>17 DEF PoolInvariant

LEMMA SyncStartsKeeps == ASSUME PoolInvariant, SyncStarts PROVE PoolInvariant'
<1>0. /\ TypeOK /\ Books /\ Views /\ Deliveries /\ Couriers /\ Worked /\ Resulted /\ Leaving /\ Returning
  BY DEF PoolInvariant
<1>1. TypeOK'
  BY <1>0 DEF TypeOK, SyncStarts, chainVars, clientVars, poolVars, workVars, viewVars
<1>2. Books'
  BY <1>0, BooksSame DEF SyncStarts
<1>3. Views'
  BY <1>0, ViewsSame DEF SyncStarts, chainVars, workVars
<1>4. Deliveries'
  BY <1>0, DeliveriesSame DEF SyncStarts, chainVars
<1>5. Couriers'
  BY <1>0, CouriersSame DEF SyncStarts, chainVars, workVars
<1>6. Worked'
  BY <1>0, WorkedSame DEF SyncStarts, chainVars, workVars
<1>7. Resulted'
  BY <1>0, ResultedSame DEF SyncStarts, chainVars
<1>8. Leaving'
  BY <1>0, LeavingSame DEF SyncStarts, chainVars, poolVars
<1>9. Returning'
  BY <1>0, ReturningSame DEF SyncStarts, poolVars
<1>. QED
  BY <1>1, <1>2, <1>3, <1>4, <1>5, <1>6, <1>7, <1>8, <1>9 DEF PoolInvariant

LEMMA SyncerReadsKeeps == ASSUME PoolInvariant, SyncerReads PROVE PoolInvariant'
<1>0. /\ TypeOK /\ Books /\ Views /\ Deliveries /\ Couriers /\ Worked /\ Resulted /\ Leaving /\ Returning
  BY DEF PoolInvariant
<1>1. /\ syncer' = [pc |-> "store", tip |-> tip, id |-> None]
      /\ syncer'.pc = "store" /\ syncer'.tip = tip /\ syncer'.id = None
  BY DEF SyncerReads
<1>2. tip \in Tips /\ tip \in Nat /\ syncer' \in Courier
  BY <1>0, <1>1 DEF TypeOK, Courier, Tips
<1>3. TypeOK'
  BY <1>0, <1>2 DEF TypeOK, SyncerReads, chainVars, clientVars, poolVars, workVars, viewVars
<1>4. Books'
  BY <1>0, BooksSame DEF SyncerReads
<1>5. Views'
  BY <1>0, ViewsSame DEF SyncerReads, chainVars, workVars
<1>6. Deliveries'
  BY <1>0, DeliveriesSame DEF SyncerReads, chainVars
<1>7. Couriers'
  <2>1. tip' = tip /\ results' = results /\ work' = work /\ updater' = updater
    BY DEF SyncerReads, chainVars, workVars
  <2>2. tip # None /\ tip \in 0..tip
    BY <1>2, NoneAssumption
  <2>. QED
    BY <1>0, <1>1, <2>1, <2>2 DEF Couriers, CourierOK
<1>8. Worked'
  BY <1>0, WorkedSame DEF SyncerReads, chainVars, workVars
<1>9. Resulted'
  BY <1>0, ResultedSame DEF SyncerReads, chainVars
<1>10. Leaving'
  BY <1>0, LeavingSame DEF SyncerReads, chainVars, poolVars
<1>11. Returning'
  BY <1>0, ReturningSame DEF SyncerReads, poolVars
<1>. QED
  BY <1>3, <1>4, <1>5, <1>6, <1>7, <1>8, <1>9, <1>10, <1>11 DEF PoolInvariant

\* A new result is empty and nobody works on it.
LEMMA NewResultProperties ==
  ASSUME PoolInvariant, NEW n \in Tips, n \in 0..tip, results' = NewResult(n), tip' = tip, work' = work
  PROVE  /\ results' \in Seq([tip : Tips, txs : Seq(Txs)])
         /\ Len(results) \in Nat /\ Len(results') = Len(results) + 1
         /\ Len(results') \in DOMAIN results' /\ results'[Len(results')].txs = <<>>
         /\ Len(results') # work /\ Len(results') \notin DOMAIN results
         /\ \A r \in DOMAIN results : r \in DOMAIN results' /\ results'[r] = results[r]
         /\ work \in (1..Len(results')) \cup {None}
         /\ Resulted'
<1>1. /\ TypeOK /\ Resulted
  BY DEF PoolInvariant
<1>2. /\ results \in Seq([tip : Tips, txs : Seq(Txs)]) /\ work \in (1..Len(results)) \cup {None}
      /\ tip \in Nat
  BY <1>1 DEF TypeOK, Tips
<1>3. PICK new : new = [tip |-> n, txs |-> <<>>]
  OBVIOUS
<1>4. new \in [tip : Tips, txs : Seq(Txs)] /\ new.tip = n /\ new.txs = <<>>
  BY <1>3
<1>5. /\ results' \in Seq([tip : Tips, txs : Seq(Txs)])
      /\ Len(results') = Len(results) + 1
      /\ \A r \in 1..Len(results) : results'[r] = results[r]
      /\ results'[Len(results) + 1] = new
  BY <1>2, <1>3, <1>4, AppendProperties DEF NewResult
<1>6. Len(results) \in Nat /\ DOMAIN results = 1..Len(results) /\ DOMAIN results' = 1..Len(results')
  BY <1>2, <1>5, LenProperties
<1>7. None \notin Int
  BY NoneAssumption
<1>8. Len(results') # work /\ Len(results') \notin DOMAIN results
  BY <1>2, <1>5, <1>6, <1>7
<1>9. Resulted'
  <2>. SUFFICES ASSUME NEW r \in DOMAIN results'
                PROVE  /\ results'[r].tip \in 0..tip'
                       /\ results'[r].tip = tip' => Applies(results'[r].txs, tip)
    BY DEF Resulted, Applies
  <2>1. CASE r = Len(results) + 1
    BY <1>4, <1>5, <2>1 DEF Applies
  <2>2. CASE r # Len(results) + 1
    <3>1. r \in DOMAIN results /\ results'[r] = results[r]
      BY <1>5, <1>6, <2>2
    <3>. QED
      BY <1>1, <3>1 DEF Resulted
  <2>. QED
    BY <2>1, <2>2
<1>10. Len(results') \in DOMAIN results' /\ results'[Len(results')].txs = <<>>
  BY <1>4, <1>5, <1>6
<1>11. \A r \in DOMAIN results : r \in DOMAIN results' /\ results'[r] = results[r]
  BY <1>5, <1>6
<1>12. work \in (1..Len(results')) \cup {None}
  BY <1>2, <1>5, <1>6
<1>. QED
  BY <1>5, <1>6, <1>8, <1>9, <1>10, <1>11, <1>12

LEMMA UpdaterStoresResultKeeps == ASSUME PoolInvariant, UpdaterStoresResult PROVE PoolInvariant'
<1>0. /\ TypeOK /\ Books /\ Views /\ Deliveries /\ Couriers /\ Worked /\ Resulted /\ Leaving /\ Returning
  BY DEF PoolInvariant
<1>1. /\ updater.pc = "store" /\ results' = NewResult(updater.tip) /\ tip' = tip /\ work' = work
      /\ updater' = [updater EXCEPT !.pc = "send", !.id = Len(results')] /\ syncer' = syncer
  BY DEF UpdaterStoresResult, chainVars, workVars
<1>2. updater \in Courier /\ tip \in Nat
  BY <1>0 DEF TypeOK, Tips
<1>3. updater.tip \in Tips /\ updater.tip \in 0..tip
  <2>1. updater.tip # None /\ updater.tip \in 0..tip
    BY <1>0, <1>1 DEF Couriers, CourierOK
  <2>. QED
    BY <1>2, <2>1 DEF Courier
<1>4. /\ results' \in Seq([tip : Tips, txs : Seq(Txs)])
      /\ Len(results) \in Nat /\ Len(results') = Len(results) + 1
      /\ Len(results') \in DOMAIN results' /\ results'[Len(results')].txs = <<>>
      /\ Len(results') # work /\ Len(results') \notin DOMAIN results
      /\ \A r \in DOMAIN results : r \in DOMAIN results' /\ results'[r] = results[r]
      /\ work \in (1..Len(results')) \cup {None}
      /\ Resulted'
  BY <1>1, <1>3, NewResultProperties
<1>5. PICK N \in Nat : N = Len(results')
  BY <1>4
<1>6. /\ updater' \in Courier
      /\ updater'.pc = "send" /\ updater'.id = N /\ updater'.tip = updater.tip
  BY <1>1, <1>2, <1>5 DEF Courier
<1>7. TypeOK'
  BY <1>0, <1>1, <1>4, <1>6
     DEF TypeOK, UpdaterStoresResult, chainVars, clientVars, poolVars, workVars, viewVars
<1>8. Books'
  BY <1>0, BooksSame DEF UpdaterStoresResult
<1>9. Views'
  BY <1>0, ViewsSame DEF UpdaterStoresResult, chainVars, workVars
<1>10. Deliveries'
  BY <1>0, DeliveriesSame DEF UpdaterStoresResult, chainVars
<1>11. Couriers'
  <2>1. CourierOK(updater)'
    <3>1. updater.tip # None
      BY <1>0, <1>1 DEF Couriers, CourierOK
    <3>. QED
      BY <1>1, <1>3, <1>4, <1>5, <1>6, <3>1 DEF CourierOK
  <2>2. CourierOK(syncer)'
    BY <1>0, <1>1, <1>4 DEF Couriers, CourierOK
  <2>3. syncer.pc = "send" => syncer.id = None \/ syncer.id \in DOMAIN results
    BY <1>0 DEF Couriers, CourierOK
  <2>4. N # None
    BY NoneAssumption
  <2>5. syncer.pc = "send" => N # syncer.id
    BY <1>4, <1>5, <2>3, <2>4
  <2>. QED
    BY <1>1, <1>6, <2>1, <2>2, <2>5 DEF Couriers
<1>12. Worked'
  <2>1. work # None => work \in DOMAIN results
    BY <1>0, LenProperties DEF TypeOK
  <2>. QED
    BY <1>0, <1>1, <1>4, <2>1 DEF Worked, Applies, UpdaterStoresResult, chainVars, workVars
<1>13. Leaving'
  BY <1>0, LeavingSame DEF UpdaterStoresResult, chainVars, poolVars
<1>14. Returning'
  BY <1>0, ReturningSame DEF UpdaterStoresResult, poolVars
<1>. QED
  BY <1>4, <1>7, <1>8, <1>9, <1>10, <1>11, <1>12, <1>13, <1>14 DEF PoolInvariant

LEMMA SyncerStoresResultKeeps == ASSUME PoolInvariant, SyncerStoresResult PROVE PoolInvariant'
<1>0. /\ TypeOK /\ Books /\ Views /\ Deliveries /\ Couriers /\ Worked /\ Resulted /\ Leaving /\ Returning
  BY DEF PoolInvariant
<1>1. /\ syncer.pc = "store" /\ results' = NewResult(syncer.tip) /\ tip' = tip /\ work' = work
      /\ syncer' = [syncer EXCEPT !.pc = "send", !.id = Len(results')] /\ updater' = updater
  BY DEF SyncerStoresResult, chainVars, workVars
<1>2. syncer \in Courier /\ tip \in Nat
  BY <1>0 DEF TypeOK, Tips
<1>3. syncer.tip \in Tips /\ syncer.tip \in 0..tip
  <2>1. syncer.tip # None /\ syncer.tip \in 0..tip
    BY <1>0, <1>1 DEF Couriers, CourierOK
  <2>. QED
    BY <1>2, <2>1 DEF Courier
<1>4. /\ results' \in Seq([tip : Tips, txs : Seq(Txs)])
      /\ Len(results) \in Nat /\ Len(results') = Len(results) + 1
      /\ Len(results') \in DOMAIN results' /\ results'[Len(results')].txs = <<>>
      /\ Len(results') # work /\ Len(results') \notin DOMAIN results
      /\ \A r \in DOMAIN results : r \in DOMAIN results' /\ results'[r] = results[r]
      /\ work \in (1..Len(results')) \cup {None}
      /\ Resulted'
  BY <1>1, <1>3, NewResultProperties
<1>5. PICK N \in Nat : N = Len(results')
  BY <1>4
<1>6. /\ syncer' \in Courier
      /\ syncer'.pc = "send" /\ syncer'.id = N /\ syncer'.tip = syncer.tip
  BY <1>1, <1>2, <1>5 DEF Courier
<1>7. TypeOK'
  BY <1>0, <1>1, <1>4, <1>6
     DEF TypeOK, SyncerStoresResult, chainVars, clientVars, poolVars, workVars, viewVars
<1>8. Books'
  BY <1>0, BooksSame DEF SyncerStoresResult
<1>9. Views'
  BY <1>0, ViewsSame DEF SyncerStoresResult, chainVars, workVars
<1>10. Deliveries'
  BY <1>0, DeliveriesSame DEF SyncerStoresResult, chainVars
<1>11. Couriers'
  <2>1. CourierOK(syncer)'
    <3>1. syncer.tip # None
      BY <1>0, <1>1 DEF Couriers, CourierOK
    <3>. QED
      BY <1>1, <1>3, <1>4, <1>5, <1>6, <3>1 DEF CourierOK
  <2>2. CourierOK(updater)'
    BY <1>0, <1>1, <1>4 DEF Couriers, CourierOK
  <2>3. updater.pc = "send" => updater.id = None \/ updater.id \in DOMAIN results
    BY <1>0 DEF Couriers, CourierOK
  <2>4. updater.pc = "send" /\ updater.id # None => N # updater.id
    BY <1>4, <1>5, <2>3
  <2>. QED
    BY <1>1, <1>6, <2>1, <2>2, <2>4 DEF Couriers
<1>12. Worked'
  <2>1. work # None => work \in DOMAIN results
    BY <1>0, LenProperties DEF TypeOK
  <2>. QED
    BY <1>0, <1>1, <1>4, <2>1 DEF Worked, Applies, SyncerStoresResult, chainVars, workVars
<1>13. Leaving'
  BY <1>0, LeavingSame DEF SyncerStoresResult, chainVars, poolVars
<1>14. Returning'
  BY <1>0, ReturningSame DEF SyncerStoresResult, poolVars
<1>. QED
  BY <1>4, <1>7, <1>8, <1>9, <1>10, <1>11, <1>12, <1>13, <1>14 DEF PoolInvariant

\* The successful updates go on in the order they were queued in.
LEMMA TakeUpdatesKeeps == ASSUME PoolInvariant, TakeUpdates PROVE PoolInvariant'
<1>0. /\ TypeOK /\ Books /\ Views /\ Deliveries /\ Couriers /\ Worked /\ Resulted /\ Leaving /\ Returning
  BY DEF PoolInvariant
<1>1. PICK good : good = Successes(updates)
  OBVIOUS
<1>2. /\ updates' = <<>> /\ news' = news \o good
      /\ updater' = IF ~started THEN Waiting
                    ELSE IF good = <<>> THEN [pc |-> "send", tip |-> None, id |-> None]
                    ELSE [pc |-> "store", tip |-> good[Len(good)].tip, id |-> None]
      /\ UNCHANGED <<chainPc, chainErr, tip, errors, started, syncer, pooler, dropped, clientVars,
                     results, poolVars, workVars, viewVars>>
  BY <1>1 DEF TakeUpdates
<1>3. updates \in Seq(Update) /\ news \in Seq(Update) /\ tip \in Nat
  BY <1>0 DEF TypeOK, Tips
<1>4. PICK places \in SUBSET DOMAIN updates : places = {i \in DOMAIN updates : updates[i].ok}
  OBVIOUS
<1>5. good = At(updates, places)
  BY <1>1, <1>4 DEF Successes
<1>6. /\ good \in Seq(Update) /\ Cardinality(places) \in Nat
      /\ Len(good) = Cardinality(places) /\ DOMAIN good = 1..Cardinality(places)
      /\ \E place : InOrder(updates, places, place)
  BY <1>3, <1>5, AtProperties
<1>7. PICK place : InOrder(updates, places, place)
  BY <1>6
<1>8. PICK M \in Nat : M = Len(good)
  BY <1>6
<1>9. /\ DOMAIN good = 1..M /\ place \in [1..M -> places]
      /\ \A n \in 1..M : good[n] = updates[place[n]]
      /\ \A m, n \in 1..M : m < n <=> place[m] < place[n]
      /\ \A i \in places : \E n \in 1..M : place[n] = i
  BY <1>5, <1>6, <1>7, <1>8 DEF InOrder
<1>10. \A n \in 1..M : place[n] \in DOMAIN updates /\ good[n].ok /\ UpdateOK(good[n])
  BY <1>0, <1>4, <1>9 DEF Deliveries
<1>11. PICK L \in Nat : L = Len(news)
  BY <1>3, LenProperties
<1>12. /\ DOMAIN news = 1..L /\ DOMAIN news' = 1..(L + M) /\ news' \in Seq(Update)
       /\ \A i \in 1..L : i \in 1..(L + M) /\ news'[i] = news[i]
       /\ \A i \in 1..M : L + i \in 1..(L + M) /\ news'[L + i] = good[i]
  <2>1. /\ news' \in Seq(Update) /\ Len(news') = L + M
        /\ \A i \in 1..(L + M) : news'[i] = IF i <= L THEN news[i] ELSE good[i - L]
    BY <1>2, <1>3, <1>6, <1>8, <1>11, ConcatProperties
  <2>2. DOMAIN news = 1..L /\ DOMAIN news' = 1..(L + M)
    BY <1>3, <1>11, <2>1, LenProperties
  <2>3. ASSUME NEW i \in 1..L PROVE i \in 1..(L + M) /\ news'[i] = news[i]
    BY <2>1
  <2>4. ASSUME NEW i \in 1..M PROVE L + i \in 1..(L + M) /\ news'[L + i] = good[i]
    <3>1. L + i \in 1..(L + M) /\ ~(L + i <= L) /\ (L + i) - L = i
      OBVIOUS
    <3>. QED
      BY <2>1, <3>1
  <2>. QED
    BY <2>1, <2>2, <2>3, <2>4
<1>13. \A k \in 1..(L + M) : k \in 1..L \/ \E i \in 1..M : k = L + i
  <2>. SUFFICES ASSUME NEW k \in 1..(L + M), k \notin 1..L PROVE \E i \in 1..M : k = L + i
    OBVIOUS
  <2>1. k - L \in 1..M /\ k = L + (k - L)
    OBVIOUS
  <2>. QED
    BY <2>1
<1>14. updater' \in Courier /\ CourierOK(updater') /\ updater'.id = None
  <2>1. CASE ~started
    <3>1. updater' = [pc |-> "wait", tip |-> None, id |-> None]
      BY <1>2, <2>1 DEF Waiting
    <3>2. updater'.pc = "wait" /\ updater'.tip = None /\ updater'.id = None
      BY <3>1
    <3>3. updater' \in Courier
      BY <3>1 DEF Courier
    <3>. QED
      BY <3>2, <3>3 DEF CourierOK
  <2>2. CASE started /\ good = <<>>
    <3>1. updater' = [pc |-> "send", tip |-> None, id |-> None]
      BY <1>2, <2>2
    <3>2. updater'.pc = "send" /\ updater'.tip = None /\ updater'.id = None
      BY <3>1
    <3>3. updater' \in Courier
      BY <3>1 DEF Courier
    <3>. QED
      BY <3>2, <3>3 DEF CourierOK
  <2>3. CASE started /\ good # <<>>
    <3>1. M \in 1..M
      BY <1>6, <1>8, <2>3, EmptySeq
    <3>2. good[M].tip \in 0..tip /\ good[M].ok
      BY <1>10, <3>1 DEF UpdateOK
    <3>3. good[M].tip \in Tips /\ good[M].tip # None
      <4>1. good[M] \in Update
        BY <1>6, <1>8, <3>1, ElementOfSeq
      <4>2. good[M].tip \in Tips \cup {None}
        BY <4>1 DEF Update
      <4>. QED
        BY <3>2, <4>2, NoneAssumption
    <3>4. updater' = [pc |-> "store", tip |-> good[M].tip, id |-> None]
      BY <1>2, <1>8, <2>3
    <3>5. updater'.pc = "store" /\ updater'.tip = good[M].tip /\ updater'.id = None
      BY <3>4
    <3>6. updater' \in Courier
      BY <3>3, <3>4 DEF Courier
    <3>. QED
      BY <3>2, <3>3, <3>5, <3>6 DEF CourierOK
  <2>. QED
    BY <2>1, <2>2, <2>3
<1>15. TypeOK'
  <2>1. <<>> \in Seq(Update)
    OBVIOUS
  <2>. QED
    BY <1>0, <1>2, <1>12, <1>14, <2>1 DEF TypeOK, clientVars, poolVars, workVars, viewVars
<1>16. Books'
  BY <1>0, <1>2, BooksSame
<1>17. Views'
  BY <1>0, <1>2, ViewsSame DEF workVars
<1>18. Deliveries'
  <2>1. \A i \in DOMAIN news' : UpdateOK(news'[i]) /\ news'[i].ok
    <3>. SUFFICES ASSUME NEW k \in 1..(L + M) PROVE UpdateOK(news'[k]) /\ news'[k].ok
      BY <1>12
    <3>1. CASE k \in 1..L
      BY <1>0, <1>12, <3>1 DEF Deliveries
    <3>2. ASSUME NEW i \in 1..M, k = L + i PROVE UpdateOK(news'[k]) /\ news'[k].ok
      BY <1>10, <1>12, <3>2
    <3>. QED
      BY <1>13, <3>1, <3>2
  <2>2. \A i \in DOMAIN news' : UpdateOK(news[i])' /\ news'[i].ok
    BY <1>2, <2>1 DEF UpdateOK
  <2>3. DOMAIN updates' = {}
    BY <1>2
  <2>. QED
    BY <1>0, <1>2, <2>2, <2>3 DEF Deliveries
<1>19. Couriers'
  <2>1. CourierOK(updater)'
    BY <1>2, <1>14 DEF CourierOK
  <2>2. CourierOK(syncer)'
    BY <1>0, <1>2 DEF Couriers, CourierOK, workVars
  <2>. QED
    BY <1>14, <2>1, <2>2 DEF Couriers
<1>20. Worked'
  BY <1>0, <1>2, WorkedSame DEF workVars
<1>21. Resulted'
  BY <1>0, <1>2, ResultedSame
<1>22. Leaving'
  <2>1. tip' = tip /\ pooler' = pooler /\ pool' = pool /\ chainPc' = chainPc /\ chainErr' = chainErr
    BY <1>2 DEF poolVars
  <2>2. \A t : ToQueue(t) => ToQueue(t)'
    BY <2>1 DEF ToQueue
  <2>3. ASSUME NEW t, NEW n, Reported(t, n) PROVE Reported(t, n)'
    BY <1>12, <2>3 DEF Reported
  <2>4. ASSUME NEW i \in DOMAIN updates, NEW t \in updates[i].inserted
        PROVE  \E m \in 1..M : place[m] = i /\ t \in good[m].inserted
    <3>1. updates[i].ok
      BY <1>0 DEF Deliveries, UpdateOK
    <3>2. PICK m \in 1..M : place[m] = i
      BY <1>4, <1>9, <3>1
    <3>. QED
      BY <1>9, <3>2
  <2>5. ASSUME NEW t, NEW n \in 0..L, Queued(t, 0) PROVE Reported(t, n)'
    <3>1. PICK i \in DOMAIN updates : t \in updates[i].inserted
      BY <2>5 DEF Queued
    <3>2. PICK m \in 1..M : t \in good[m].inserted
      BY <2>4, <3>1
    <3>3. L + m \in DOMAIN news' /\ L + m > n /\ t \in news'[L + m].inserted
      BY <1>12, <3>2
    <3>. QED
      BY <3>3 DEF Reported
  <2>6. 0 \in 0..L /\ \A n \in 1..L : n \in 0..L
    OBVIOUS
  <2>7. ASSUME NEW t \in pool' \cap Held[tip']
        PROVE  \/ ToQueue(t)' \/ Queued(t, 0)' \/ Reported(t, 0)'
               \/ pooler'.pc = "remove" /\ t \in pooler'.update.inserted
    BY <1>0, <2>1, <2>2, <2>3, <2>5, <2>6 DEF Leaving
  <2>8. ASSUME pooler'.pc # "wait", NEW t \in Range(pooler'.update.removed) \cap Held[tip']
        PROVE  ToQueue(t)' \/ Queued(t, 0)' \/ Reported(t, 0)'
    BY <1>0, <2>1, <2>2, <2>3, <2>5, <2>6, <2>8 DEF Leaving
  <2>9. ASSUME NEW k \in DOMAIN news', NEW t \in Range(news'[k].removed) \cap Held[tip']
        PROVE  ToQueue(t)' \/ Queued(t, 0)' \/ Reported(t, k)'
    <3>1. CASE k \in 1..L
      <4>1. ToQueue(t) \/ Queued(t, 0) \/ Reported(t, k)
        BY <1>0, <1>12, <2>1, <3>1 DEF Leaving
      <4>. QED
        BY <2>2, <2>3, <2>5, <2>6, <3>1, <4>1
    <3>2. ASSUME NEW m \in 1..M, k = L + m PROVE ToQueue(t)' \/ Reported(t, k)'
      <4>1. place[m] \in DOMAIN updates /\ t \in Range(updates[place[m]].removed) \cap Held[tip]
        BY <1>9, <1>10, <1>12, <2>1, <3>2
      <4>2. CASE ToQueue(t)
        BY <2>2, <4>2
      <4>3. CASE Queued(t, place[m])
        <5>1. PICK i \in DOMAIN updates : i > place[m] /\ t \in updates[i].inserted
          BY <4>3 DEF Queued
        <5>2. PICK l \in 1..M : place[l] = i /\ t \in good[l].inserted
          BY <2>4, <5>1
        <5>3. i \in Nat /\ place[m] \in Nat
          BY <1>3, <4>1, <5>1, LenProperties
        <5>4. place[m] < place[l]
          BY <5>1, <5>2, <5>3
        <5>5. m < l
          BY <1>9, <5>4
        <5>6. L + l > k /\ L + l \in DOMAIN news' /\ t \in news'[L + l].inserted
          BY <1>12, <3>2, <5>2, <5>5
        <5>. QED
          BY <5>6 DEF Reported
      <4>. QED
        BY <1>0, <4>1, <4>2, <4>3 DEF Leaving
    <3>. QED
      BY <1>12, <1>13, <3>1, <3>2
  <2>10. DOMAIN updates' = {}
    BY <1>2
  <2>. QED
    BY <2>7, <2>8, <2>9, <2>10 DEF Leaving
<1>23. Returning'
  BY <1>0, <1>2, ReturningSame DEF poolVars
<1>. QED
  BY <1>15, <1>16, <1>17, <1>18, <1>19, <1>20, <1>21, <1>22, <1>23 DEF PoolInvariant

\* The first of the news is the one that the mempool is cleaned of next.
LEMMA PoolerTakesKeeps == ASSUME PoolInvariant, PoolerTakes PROVE PoolInvariant'
<1>0. /\ TypeOK /\ Books /\ Views /\ Deliveries /\ Couriers /\ Worked /\ Resulted /\ Leaving /\ Returning
  BY DEF PoolInvariant
<1>1. PICK u : u = Head(news)
  OBVIOUS
<1>2. PICK k : k = IF u.inserted # {} THEN "remove" ELSE "filter"
  OBVIOUS
<1>3. /\ pooler.pc = "wait" /\ news # <<>> /\ news' = Tail(news)
      /\ pooler' = [pc |-> k, update |-> u, txs |-> <<>>]
      /\ UNCHANGED <<chainVars, updater, started, syncer, dropped, clientVars, results, poolVars,
                     workVars, viewVars>>
  BY <1>1, <1>2 DEF PoolerTakes
<1>4. /\ tip' = tip /\ updates' = updates /\ chainPc' = chainPc /\ chainErr' = chainErr
  BY <1>3 DEF chainVars
<1>5. /\ pooler'.pc = k /\ pooler'.update = u /\ pooler'.txs = <<>> /\ k \in {"remove", "filter"}
      /\ k = "remove" <=> u.inserted # {}
  BY <1>2, <1>3
<1>6. news \in Seq(Update)
  BY <1>0 DEF TypeOK
<1>7. PICK L \in Nat : Len(news) = L + 1
  <2>1. Len(news) \in Nat \ {0}
    BY <1>3, <1>6, EmptySeq
  <2>2. Len(news) - 1 \in Nat /\ Len(news) = (Len(news) - 1) + 1
    BY <2>1
  <2>. QED
    BY <2>2
<1>8. /\ u \in Update /\ u = news[1] /\ news' \in Seq(Update) /\ Len(news') = L
      /\ \A i \in 1..L : news'[i] = news[i + 1]
  BY <1>1, <1>3, <1>6, <1>7, HeadTailProperties
<1>9. /\ DOMAIN news = 1..(L + 1) /\ DOMAIN news' = 1..L
      /\ 1 \in DOMAIN news /\ \A i \in 1..L : i + 1 \in DOMAIN news
  <2>1. DOMAIN news = 1..(L + 1) /\ DOMAIN news' = 1..L
    BY <1>6, <1>7, <1>8, LenProperties
  <2>. QED
    BY <2>1
<1>10. TypeOK'
  <2>1. pooler' \in [pc : {"wait", "remove", "filter", "insert"}, update : Update, txs : Seq(Txs)]
    BY <1>3, <1>5, <1>8
  <2>. QED
    BY <1>0, <1>3, <1>8, <2>1 DEF TypeOK, chainVars, clientVars, poolVars, workVars, viewVars
<1>11. Books'
  BY <1>0, <1>3, BooksSame
<1>12. Views'
  BY <1>0, <1>3, ViewsSame DEF chainVars, workVars
<1>13. Deliveries'
  <2>1. ASSUME NEW i \in DOMAIN news' PROVE UpdateOK(news'[i]) /\ news'[i].ok
    BY <1>0, <1>8, <1>9 DEF Deliveries
  <2>2. \A i \in DOMAIN news' : UpdateOK(news[i])' /\ news'[i].ok
    BY <1>4, <2>1 DEF UpdateOK
  <2>3. \A i \in DOMAIN updates' : UpdateOK(updates[i])'
    BY <1>0, <1>4 DEF Deliveries, UpdateOK
  <2>4. Once(u.removed) /\ Once(<<>>) /\ Range(<<>>) \subseteq Range(u.removed)
    <3>1. UpdateOK(u)
      BY <1>0, <1>8, <1>9 DEF Deliveries
    <3>2. Range(<<>>) = {} /\ Once(<<>>)
      BY DEF Range, Once
    <3>. QED
      BY <3>1, <3>2 DEF UpdateOK
  <2>5. Once(pooler'.update.removed) /\ Once(pooler'.txs)
        /\ Range(pooler'.txs) \subseteq Range(pooler'.update.removed)
    BY <1>5, <2>4
  <2>. QED
    BY <1>0, <1>4, <2>2, <2>3, <2>5 DEF Deliveries
<1>14. Couriers'
  BY <1>0, <1>3, <1>4, CouriersSame DEF workVars
<1>15. Worked'
  BY <1>0, <1>3, <1>4, WorkedSame DEF workVars
<1>16. Resulted'
  BY <1>0, <1>3, <1>4, ResultedSame
<1>17. Leaving'
  <2>1. pool' = pool
    BY <1>3 DEF poolVars
  <2>2. \A t, n : (ToQueue(t) => ToQueue(t)') /\ (Queued(t, n) => Queued(t, n)')
    BY <1>4 DEF ToQueue, Queued
  <2>3. ASSUME NEW t, NEW n \in 0..L, Reported(t, n + 1) PROVE Reported(t, n)'
    <3>1. PICK i \in 1..(L + 1) : i > n + 1 /\ t \in news[i].inserted
      BY <1>9, <2>3 DEF Reported
    <3>2. i - 1 \in 1..L /\ i - 1 > n /\ (i - 1) + 1 = i
      BY <3>1
    <3>3. t \in news'[i - 1].inserted
      BY <1>8, <3>1, <3>2
    <3>. QED
      BY <1>9, <3>2, <3>3 DEF Reported
  <2>4. ASSUME NEW t, Reported(t, 0)
        PROVE  Reported(t, 0)' \/ (pooler'.pc = "remove" /\ t \in pooler'.update.inserted)
    <3>1. PICK i \in 1..(L + 1) : t \in news[i].inserted
      BY <1>9, <2>4 DEF Reported
    <3>2. CASE i = 1
      BY <1>5, <1>8, <3>1, <3>2
    <3>3. CASE i # 1
      <4>1. Reported(t, 0 + 1)
        BY <1>9, <3>1, <3>3 DEF Reported
      <4>2. 0 \in 0..L
        OBVIOUS
      <4>. QED
        BY <2>3, <4>1, <4>2
    <3>. QED
      BY <3>2, <3>3
  <2>5. ASSUME NEW t \in pool' \cap Held[tip']
        PROVE  \/ ToQueue(t)' \/ Queued(t, 0)' \/ Reported(t, 0)'
               \/ pooler'.pc = "remove" /\ t \in pooler'.update.inserted
    <3>1. ToQueue(t) \/ Queued(t, 0) \/ Reported(t, 0)
      BY <1>0, <1>3, <1>4, <2>1 DEF Leaving
    <3>. QED
      BY <2>2, <2>4, <3>1
  <2>6. ASSUME NEW t \in Range(pooler'.update.removed) \cap Held[tip']
        PROVE  ToQueue(t)' \/ Queued(t, 0)' \/ Reported(t, 0)'
    <3>1. ToQueue(t) \/ Queued(t, 0) \/ Reported(t, 1)
      BY <1>0, <1>4, <1>5, <1>8, <1>9 DEF Leaving
    <3>2. 0 \in 0..L /\ 0 + 1 = 1
      OBVIOUS
    <3>. QED
      BY <2>2, <2>3, <3>1, <3>2
  <2>7. ASSUME NEW n \in DOMAIN news', NEW t \in Range(news'[n].removed) \cap Held[tip']
        PROVE  ToQueue(t)' \/ Queued(t, 0)' \/ Reported(t, n)'
    <3>1. n \in 1..L /\ n \in 0..L /\ n + 1 \in DOMAIN news
      BY <1>9
    <3>2. ToQueue(t) \/ Queued(t, 0) \/ Reported(t, n + 1)
      BY <1>0, <1>4, <1>8, <3>1 DEF Leaving
    <3>. QED
      BY <2>2, <2>3, <3>1, <3>2
  <2>8. ASSUME NEW n \in DOMAIN updates', NEW t \in Range(updates'[n].removed) \cap Held[tip']
        PROVE  ToQueue(t)' \/ Queued(t, n)'
    BY <1>0, <1>4, <2>2 DEF Leaving
  <2>. QED
    BY <2>5, <2>6, <2>7, <2>8 DEF Leaving
<1>18. Returning'
  BY <1>5 DEF Returning
<1>. QED
  BY <1>10, <1>11, <1>12, <1>13, <1>14, <1>15, <1>16, <1>17, <1>18 DEF PoolInvariant

LEMMA PoolerFiltersKeeps == ASSUME PoolInvariant, PoolerFilters PROVE PoolInvariant'
<1>0. /\ TypeOK /\ Books /\ Views /\ Deliveries /\ Couriers /\ Worked /\ Resulted /\ Leaving /\ Returning
  BY DEF PoolInvariant
<1>1. /\ UNCHANGED <<chainVars, updater, started, syncer, news, dropped, clientVars, results, poolVars,
                     workVars, viewVars>>
      /\ pooler.pc = "filter"
      /\ pooler' = IF pooler.update.removed = <<>> THEN NoPool
                   ELSE [pooler EXCEPT !.pc = "insert", !.txs = Processed(pooler.update.removed)]
  BY DEF PoolerFilters
<1>2. /\ tip' = tip /\ updates' = updates /\ chainPc' = chainPc /\ chainErr' = chainErr /\ pool' = pool
      /\ news' = news /\ dropped' = dropped
  BY <1>1 DEF chainVars, poolVars
<1>3. pooler \in [pc : {"wait", "remove", "filter", "insert"}, update : Update, txs : Seq(Txs)]
  BY <1>0 DEF TypeOK
<1>4. PICK removed : removed = pooler.update.removed
  OBVIOUS
<1>5. removed \in Seq(Txs) /\ Once(removed)
  BY <1>0, <1>3, <1>4 DEF Update, Deliveries
<1>6. /\ Processed(removed) \in Seq(Txs)
      /\ Range(Processed(removed)) \subseteq Range(removed)
      /\ Once(Processed(removed))
      /\ \A i \in DOMAIN removed :
            Range(SubSeq(removed, 1, i)) \cap Staking = {} =>
                removed[i] \in pool \cup Range(Processed(removed))
  BY <1>5, ProcessedProperties
<1>7. <<>> \in Seq(Txs) /\ Range(<<>>) = {} /\ Once(<<>>)
  BY DEF Range, Once
<1>8. /\ pooler' \in [pc : {"wait", "remove", "filter", "insert"}, update : Update, txs : Seq(Txs)]
      /\ \/ pooler'.pc = "wait" /\ pooler'.update.removed = <<>> /\ pooler'.txs = <<>>
         \/ pooler'.pc = "insert" /\ pooler'.update = pooler.update /\ pooler'.txs = Processed(removed)
  <2>1. CASE removed = <<>>
    <3>1. pooler' = [pc |-> "wait", update |-> NoUpdate, txs |-> <<>>]
      BY <1>1, <1>4, <2>1 DEF NoPool
    <3>2. NoUpdate \in Update /\ NoUpdate.removed = <<>>
      BY <1>7 DEF NoUpdate, Update
    <3>3. pooler' \in [pc : {"wait", "remove", "filter", "insert"}, update : Update, txs : Seq(Txs)]
      BY <1>7, <3>1, <3>2
    <3>4. pooler'.pc = "wait" /\ pooler'.update = NoUpdate /\ pooler'.txs = <<>>
      BY <3>1
    <3>. QED
      BY <3>2, <3>3, <3>4
  <2>2. CASE removed # <<>>
    <3>1. pooler' = [pooler EXCEPT !.pc = "insert", !.txs = Processed(removed)]
      BY <1>1, <1>4, <2>2
    <3>. QED
      BY <1>3, <1>6, <3>1
  <2>. QED
    BY <2>1, <2>2
<1>9. TypeOK'
  BY <1>0, <1>1, <1>8 DEF TypeOK, chainVars, clientVars, poolVars, workVars, viewVars
<1>10. Books'
  BY <1>0, <1>1, BooksSame
<1>11. Views'
  BY <1>0, <1>1, ViewsSame DEF chainVars, workVars
<1>12. Deliveries'
  <2>1. /\ Once(pooler'.update.removed) /\ Once(pooler'.txs)
        /\ Range(pooler'.txs) \subseteq Range(pooler'.update.removed)
    BY <1>4, <1>5, <1>6, <1>7, <1>8
  <2>2. /\ \A i \in DOMAIN updates' : UpdateOK(updates[i])'
        /\ \A i \in DOMAIN news' : UpdateOK(news[i])' /\ news'[i].ok
    BY <1>0, <1>2 DEF Deliveries, UpdateOK
  <2>. QED
    BY <1>0, <1>2, <2>1, <2>2 DEF Deliveries
<1>13. Couriers'
  BY <1>0, <1>1, <1>2, CouriersSame DEF workVars
<1>14. Worked'
  BY <1>0, <1>1, <1>2, WorkedSame DEF workVars
<1>15. Resulted'
  BY <1>0, <1>1, <1>2, ResultedSame
<1>16. Leaving'
  <2>1. \A t, n : /\ ToQueue(t) => ToQueue(t)'
                  /\ Queued(t, n) => Queued(t, n)'
                  /\ Reported(t, n) => Reported(t, n)'
    BY <1>2 DEF ToQueue, Queued, Reported
  <2>2. ASSUME NEW t \in pool' \cap Held[tip']
        PROVE  ToQueue(t)' \/ Queued(t, 0)' \/ Reported(t, 0)'
    BY <1>0, <1>1, <1>2, <2>1 DEF Leaving
  <2>3. ASSUME pooler'.pc # "wait", NEW t \in Range(pooler'.update.removed) \cap Held[tip']
        PROVE  ToQueue(t)' \/ Queued(t, 0)' \/ Reported(t, 0)'
    <3>1. pooler'.update = pooler.update /\ pooler.pc # "wait"
      BY <1>1, <1>8, <2>3
    <3>. QED
      BY <1>0, <1>2, <2>1, <3>1 DEF Leaving
  <2>4. ASSUME NEW n \in DOMAIN news', NEW t \in Range(news'[n].removed) \cap Held[tip']
        PROVE  ToQueue(t)' \/ Queued(t, 0)' \/ Reported(t, n)'
    BY <1>0, <1>2, <2>1 DEF Leaving
  <2>5. ASSUME NEW n \in DOMAIN updates', NEW t \in Range(updates'[n].removed) \cap Held[tip']
        PROVE  ToQueue(t)' \/ Queued(t, n)'
    BY <1>0, <1>2, <2>1 DEF Leaving
  <2>. QED
    BY <2>2, <2>3, <2>4, <2>5 DEF Leaving
<1>17. Returning'
  <2>. SUFFICES ASSUME pooler'.pc = "insert", NEW i \in DOMAIN pooler'.update.removed,
                       Range(SubSeq(pooler'.update.removed, 1, i)) \cap Staking = {}
                PROVE  pooler'.update.removed[i] \in pool' \cup dropped' \cup Range(pooler'.txs)
    BY DEF Returning
  <2>1. pooler'.update.removed = removed /\ pooler'.txs = Processed(removed)
    BY <1>4, <1>8
  <2>. QED
    BY <1>2, <1>6, <2>1
<1>. QED
  BY <1>9, <1>10, <1>11, <1>12, <1>13, <1>14, <1>15, <1>16, <1>17 DEF PoolInvariant

\* What the new blocks hold leaves the worker's books and the mempool.
LEMMA RemoveTxsKeeps == ASSUME PoolInvariant, RemoveTxs PROVE PoolInvariant'
<1>0. /\ TypeOK /\ Books /\ Views /\ Deliveries /\ Couriers /\ Worked /\ Resulted /\ Leaving /\ Returning
  BY DEF PoolInvariant
<1>1. PICK gone : gone = pooler.update.inserted \cap txsMap
  OBVIOUS
<1>2. /\ pooler.pc = "remove" /\ txsMap' = txsMap \ gone /\ pool' = pool \ gone
      /\ txsList' = Without(txsList, gone)
      /\ listIndex' = listIndex - Cardinality({i \in 1..listIndex : txsList[i] \in gone})
      /\ pooler' = [pooler EXCEPT !.pc = "filter"]
      /\ Resume(work, suspended)
      /\ UNCHANGED <<chainVars, updater, started, syncer, news, dropped, clientVars, results, workVars>>
  BY <1>1 DEF RemoveTxs, IndexWithout
<1>3. /\ tip' = tip /\ updates' = updates /\ chainPc' = chainPc /\ chainErr' = chainErr /\ news' = news
      /\ work' = work
  BY <1>2 DEF chainVars, workVars
<1>4. /\ txsList \in Seq(Txs) /\ listIndex \in 0..Len(txsList) /\ Once(txsList)
      /\ Range(txsList) = txsMap /\ txsMap = pool /\ txsMap \subseteq Txs
      /\ pooler \in [pc : {"wait", "remove", "filter", "insert"}, update : Update, txs : Seq(Txs)]
  BY <1>0 DEF TypeOK, Books
<1>5. /\ txsList' \in Seq(Txs) /\ Range(txsList') = Range(txsList) \ gone /\ Once(txsList')
  BY <1>2, <1>4, WithoutProperties
<1>6. listIndex' \in 0..Len(txsList') /\ listIndex' \in Nat
  <2>1. listIndex - Cardinality({i \in 1..listIndex : txsList[i] \in gone}) \in 0..Len(Without(txsList, gone))
    BY <1>4, IndexKept
  <2>2. listIndex' \in 0..Len(txsList')
    BY <1>2, <2>1
  <2>3. Len(txsList') \in Nat
    BY <1>5, LenProperties
  <2>. QED
    BY <2>2, <2>3
<1>7. /\ pooler' \in [pc : {"wait", "remove", "filter", "insert"}, update : Update, txs : Seq(Txs)]
      /\ pooler'.pc = "filter" /\ pooler'.update = pooler.update /\ pooler'.txs = pooler.txs
  BY <1>2, <1>4
<1>8. Views' /\ at' \in {"outer", "inner"} /\ view' \in Tips \cup {None}
  <2>1. suspended <=> chainPc' \in {"update", "continue"}
    BY <1>0, <1>3 DEF Views
  <2>. QED
    BY <1>0, <1>2, <1>3, <2>1, ResumeViews
<1>9. TypeOK'
  <2>1. suspended' \in BOOLEAN
    BY <1>0, <1>2 DEF TypeOK, Resume
  <2>2. txsMap' \subseteq Txs /\ pool' \subseteq Txs
    BY <1>2, <1>4
  <2>. QED
    BY <1>0, <1>2, <1>5, <1>6, <1>7, <1>8, <2>1, <2>2 DEF TypeOK, chainVars, clientVars, workVars
<1>10. Books'
  BY <1>2, <1>4, <1>5, <1>6 DEF Books
<1>11. Deliveries'
  BY <1>0, <1>3, <1>7 DEF Deliveries, UpdateOK
<1>12. Couriers'
  BY <1>0, <1>2, <1>3, CouriersSame
<1>13. Worked'
  BY <1>0, <1>2, <1>3, WorkedSame DEF workVars
<1>14. Resulted'
  BY <1>0, <1>2, <1>3, ResultedSame
<1>15. Leaving'
  <2>1. \A t, n : /\ ToQueue(t) => ToQueue(t)'
                  /\ Queued(t, n) => Queued(t, n)'
                  /\ Reported(t, n) => Reported(t, n)'
    BY <1>3 DEF ToQueue, Queued, Reported
  <2>2. ASSUME NEW t \in pool' \cap Held[tip']
        PROVE  ToQueue(t)' \/ Queued(t, 0)' \/ Reported(t, 0)'
    <3>1. t \in pool /\ t \notin pooler.update.inserted
      BY <1>1, <1>2, <1>4
    <3>. QED
      BY <1>0, <1>3, <2>1, <3>1 DEF Leaving
  <2>3. ASSUME NEW t \in Range(pooler'.update.removed) \cap Held[tip']
        PROVE  ToQueue(t)' \/ Queued(t, 0)' \/ Reported(t, 0)'
    BY <1>0, <1>2, <1>3, <1>7, <2>1 DEF Leaving
  <2>4. ASSUME NEW n \in DOMAIN news', NEW t \in Range(news'[n].removed) \cap Held[tip']
        PROVE  ToQueue(t)' \/ Queued(t, 0)' \/ Reported(t, n)'
    BY <1>0, <1>3, <2>1 DEF Leaving
  <2>5. ASSUME NEW n \in DOMAIN updates', NEW t \in Range(updates'[n].removed) \cap Held[tip']
        PROVE  ToQueue(t)' \/ Queued(t, n)'
    BY <1>0, <1>3, <2>1 DEF Leaving
  <2>. QED
    BY <2>2, <2>3, <2>4, <2>5 DEF Leaving
<1>16. Returning'
  BY <1>7 DEF Returning
<1>. QED
  BY <1>8, <1>9, <1>10, <1>11, <1>12, <1>13, <1>14, <1>15, <1>16 DEF PoolInvariant

\* A list grows by elements that it does not have.
LEMMA OnceConcat ==
  ASSUME NEW T, NEW a \in Seq(T), NEW b \in Seq(T), Once(a), Once(b), Range(a) \cap Range(b) = {}
  PROVE  /\ a \o b \in Seq(T) /\ Once(a \o b) /\ Range(a \o b) = Range(a) \cup Range(b)
         /\ Len(a \o b) = Len(a) + Len(b) /\ Len(a) \in Nat /\ Len(b) \in Nat
<1>1. PICK M \in Nat : M = Len(a)
  BY LenProperties
<1>2. PICK N \in Nat : N = Len(b)
  BY LenProperties
<1>3. PICK c : c = a \o b
  OBVIOUS
<1>4. /\ c \in Seq(T) /\ Len(c) = M + N
      /\ \A i \in 1..(M + N) : c[i] = IF i <= M THEN a[i] ELSE b[i - M]
  BY <1>1, <1>2, <1>3, ConcatProperties
<1>5. DOMAIN a = 1..M /\ DOMAIN b = 1..N /\ DOMAIN c = 1..(M + N)
  BY <1>1, <1>2, <1>4, LenProperties
<1>6. \A i \in 1..(M + N) : \/ i \in 1..M /\ c[i] = a[i] /\ c[i] \in Range(a)
                            \/ i - M \in 1..N /\ c[i] = b[i - M] /\ c[i] \in Range(b)
  <2>. SUFFICES ASSUME NEW i \in 1..(M + N)
                PROVE  \/ i \in 1..M /\ c[i] = a[i] /\ c[i] \in Range(a)
                       \/ i - M \in 1..N /\ c[i] = b[i - M] /\ c[i] \in Range(b)
    OBVIOUS
  <2>1. CASE i <= M
    <3>1. i \in 1..M
      BY <2>1
    <3>. QED
      BY <1>4, <1>5, <2>1, <3>1 DEF Range
  <2>2. CASE ~(i <= M)
    <3>1. i - M \in 1..N
      BY <2>2
    <3>. QED
      BY <1>4, <1>5, <2>2, <3>1 DEF Range
  <2>. QED
    BY <2>1, <2>2
<1>7. ASSUME NEW i \in 1..(M + N), NEW j \in 1..(M + N), c[i] = c[j] PROVE i = j
  <2>1. CASE i \in 1..M /\ c[i] = a[i] /\ c[i] \in Range(a)
    <3>1. c[j] \notin Range(b)
      BY <1>7, <2>1
    <3>2. j \in 1..M /\ c[j] = a[j]
      BY <1>6, <3>1
    <3>3. a[i] = a[j]
      BY <1>7, <2>1, <3>2
    <3>. QED
      BY <1>5, <2>1, <3>2, <3>3 DEF Once
  <2>2. CASE i - M \in 1..N /\ c[i] = b[i - M] /\ c[i] \in Range(b)
    <3>1. c[j] \notin Range(a)
      BY <1>7, <2>2
    <3>2. j - M \in 1..N /\ c[j] = b[j - M]
      BY <1>6, <3>1
    <3>3. b[i - M] = b[j - M]
      BY <1>7, <2>2, <3>2
    <3>4. i - M = j - M
      BY <1>5, <2>2, <3>2, <3>3 DEF Once
    <3>. QED
      BY <3>4
  <2>. QED
    BY <1>6, <2>1, <2>2
<1>8. Range(c) = Range(a) \cup Range(b)
  BY <1>3, RangeConcatenation
<1>. QED
  BY <1>1, <1>2, <1>3, <1>4, <1>5, <1>7, <1>8 DEF Once

\* What the undone blocks held comes back to the mempool.
LEMMA InsertTxsKeeps == ASSUME PoolInvariant, InsertTxs PROVE PoolInvariant'
<1>0. /\ TypeOK /\ Books /\ Views /\ Deliveries /\ Couriers /\ Worked /\ Resulted /\ Leaving /\ Returning
  BY DEF PoolInvariant
<1>1. PICK missing : missing = Without(pooler.txs, txsMap)
  OBVIOUS
<1>2. /\ pooler.pc = "insert" /\ txsList' = txsList \o missing
      /\ txsMap' = txsMap \cup Range(missing) /\ pool' = pool \cup Range(missing)
      /\ pooler' = NoPool /\ dropped' = {} /\ listIndex' = listIndex
      /\ Resume(work, suspended)
      /\ UNCHANGED <<chainVars, updater, started, syncer, news, clientVars, results, workVars>>
  BY <1>1 DEF InsertTxs, Missing
<1>3. /\ tip' = tip /\ updates' = updates /\ chainPc' = chainPc /\ chainErr' = chainErr /\ news' = news
      /\ work' = work
  BY <1>2 DEF chainVars, workVars
<1>4. /\ txsList \in Seq(Txs) /\ listIndex \in 0..Len(txsList) /\ Once(txsList)
      /\ Range(txsList) = txsMap /\ txsMap = pool /\ txsMap \subseteq Txs
      /\ pooler.txs \in Seq(Txs) /\ Once(pooler.txs)
      /\ Range(pooler.txs) \subseteq Range(pooler.update.removed)
  BY <1>0 DEF TypeOK, Books, Deliveries
<1>5. /\ missing \in Seq(Txs) /\ Range(missing) = Range(pooler.txs) \ txsMap /\ Once(missing)
  <2>1. PICK list \in Seq(Txs) : list = pooler.txs
    BY <1>4
  <2>2. /\ Without(list, txsMap) \in Seq(Txs) /\ Range(Without(list, txsMap)) = Range(list) \ txsMap
        /\ Once(list) => Once(Without(list, txsMap))
    BY WithoutProperties
  <2>. QED
    BY <1>1, <1>4, <2>1, <2>2
<1>6. /\ txsList' \in Seq(Txs) /\ Once(txsList') /\ Range(txsList') = Range(txsList) \cup Range(missing)
      /\ Len(txsList') = Len(txsList) + Len(missing) /\ Len(txsList) \in Nat /\ Len(missing) \in Nat
  <2>1. Range(txsList) \cap Range(missing) = {}
    BY <1>4, <1>5
  <2>. QED
    BY <1>2, <1>4, <1>5, <2>1, OnceConcat
<1>7. Range(missing) \subseteq Txs
  BY <1>5, RangeOfSeq
<1>8. <<>> \in Seq(Txs) /\ Range(<<>>) = {} /\ Once(<<>>)
  BY DEF Range, Once
<1>9. /\ pooler' \in [pc : {"wait", "remove", "filter", "insert"}, update : Update, txs : Seq(Txs)]
      /\ pooler'.pc = "wait" /\ pooler'.update.removed = <<>> /\ pooler'.txs = <<>>
  <2>1. pooler' = [pc |-> "wait", update |-> NoUpdate, txs |-> <<>>]
    BY <1>2 DEF NoPool
  <2>2. NoUpdate \in Update /\ NoUpdate.removed = <<>>
    BY <1>8 DEF NoUpdate, Update
  <2>3. pooler' \in [pc : {"wait", "remove", "filter", "insert"}, update : Update, txs : Seq(Txs)]
    BY <1>8, <2>1, <2>2
  <2>4. pooler'.pc = "wait" /\ pooler'.update = NoUpdate /\ pooler'.txs = <<>>
    BY <2>1
  <2>. QED
    BY <2>2, <2>3, <2>4
<1>10. Views' /\ at' \in {"outer", "inner"} /\ view' \in Tips \cup {None}
  <2>1. suspended <=> chainPc' \in {"update", "continue"}
    BY <1>0, <1>3 DEF Views
  <2>. QED
    BY <1>0, <1>2, <1>3, <2>1, ResumeViews
<1>11. TypeOK'
  <2>1. suspended' \in BOOLEAN
    BY <1>0, <1>2 DEF TypeOK, Resume
  <2>2. txsMap' \subseteq Txs /\ pool' \subseteq Txs /\ dropped' \subseteq Txs
    BY <1>2, <1>4, <1>7
  <2>3. listIndex' \in Nat
    BY <1>0, <1>2 DEF TypeOK
  <2>. QED
    BY <1>0, <1>2, <1>6, <1>9, <1>10, <2>1, <2>2, <2>3 DEF TypeOK, chainVars, clientVars, workVars
<1>12. Books'
  <2>1. listIndex' \in 0..Len(txsList')
    BY <1>2, <1>4, <1>6
  <2>. QED
    BY <1>2, <1>4, <1>6, <2>1 DEF Books
<1>13. Deliveries'
  <2>1. /\ Once(pooler'.update.removed) /\ Once(pooler'.txs)
        /\ Range(pooler'.txs) \subseteq Range(pooler'.update.removed)
    BY <1>8, <1>9
  <2>2. /\ \A i \in DOMAIN updates' : UpdateOK(updates[i])'
        /\ \A i \in DOMAIN news' : UpdateOK(news[i])' /\ news'[i].ok
    BY <1>0, <1>3 DEF Deliveries, UpdateOK
  <2>. QED
    BY <1>0, <1>3, <2>1, <2>2 DEF Deliveries
<1>14. Couriers'
  BY <1>0, <1>2, <1>3, CouriersSame
<1>15. Worked'
  BY <1>0, <1>2, <1>3, WorkedSame DEF workVars
<1>16. Resulted'
  BY <1>0, <1>2, <1>3, ResultedSame
<1>17. Leaving'
  <2>1. \A t, n : /\ ToQueue(t) => ToQueue(t)'
                  /\ Queued(t, n) => Queued(t, n)'
                  /\ Reported(t, n) => Reported(t, n)'
    BY <1>3 DEF ToQueue, Queued, Reported
  <2>2. ASSUME NEW t \in pool' \cap Held[tip']
        PROVE  ToQueue(t)' \/ Queued(t, 0)' \/ Reported(t, 0)'
    <3>1. t \in pool \/ t \in Range(pooler.update.removed)
      BY <1>2, <1>4, <1>5
    <3>. QED
      BY <1>0, <1>2, <1>3, <2>1, <3>1 DEF Leaving
  <2>3. ASSUME NEW n \in DOMAIN news', NEW t \in Range(news'[n].removed) \cap Held[tip']
        PROVE  ToQueue(t)' \/ Queued(t, 0)' \/ Reported(t, n)'
    BY <1>0, <1>3, <2>1 DEF Leaving
  <2>4. ASSUME NEW n \in DOMAIN updates', NEW t \in Range(updates'[n].removed) \cap Held[tip']
        PROVE  ToQueue(t)' \/ Queued(t, n)'
    BY <1>0, <1>3, <2>1 DEF Leaving
  <2>. QED
    BY <1>9, <2>2, <2>3, <2>4 DEF Leaving
<1>18. Returning'
  BY <1>9 DEF Returning
<1>. QED
  BY <1>10, <1>11, <1>12, <1>13, <1>14, <1>15, <1>16, <1>17, <1>18 DEF PoolInvariant

\* The signal to continue takes the work of a chain that changed.
LEMMA ContinueKeeps == ASSUME PoolInvariant, Continue PROVE PoolInvariant'
<1>0. /\ TypeOK /\ Books /\ Views /\ Deliveries /\ Couriers /\ Worked /\ Resulted /\ Leaving /\ Returning
  BY DEF PoolInvariant
<1>1. /\ chainPc = "continue" /\ chainPc' = "notify" /\ Resume(work', FALSE)
      /\ work' = IF chainErr THEN work ELSE None
      /\ UNCHANGED <<chainErr, tip, errors, updates, threadVars, clientVars, results, poolVars,
                     storage, included, includedTotalSize>>
  BY DEF Continue
<1>2. /\ tip' = tip /\ news' = news /\ pooler' = pooler /\ updates' = updates /\ chainErr' = chainErr
      /\ pool' = pool /\ dropped' = dropped /\ results' = results /\ updater' = updater /\ syncer' = syncer
  BY <1>1 DEF threadVars, poolVars
<1>3. Views' /\ at' \in {"outer", "inner"} /\ view' \in Tips \cup {None}
  BY <1>0, <1>1, <1>2, ResumeViews
<1>4. TypeOK'
  <2>1. suspended' \in BOOLEAN /\ work' \in (1..Len(results)) \cup {None}
    BY <1>0, <1>1 DEF TypeOK, Resume
  <2>. QED
    BY <1>0, <1>1, <1>3, <2>1 DEF TypeOK, threadVars, clientVars, poolVars
<1>5. Books'
  BY <1>0, <1>1, BooksSame
<1>6. Deliveries'
  BY <1>0, <1>1, <1>2 DEF Deliveries, UpdateOK
<1>7. Couriers'
  BY <1>0, <1>1, <1>2 DEF Couriers, CourierOK
<1>8. Worked'
  BY <1>0, <1>1, <1>2 DEF Worked, Applies
<1>9. Resulted'
  BY <1>0, <1>2, ResultedSame
<1>10. Leaving'
  <2>1. \A t, n : /\ ToQueue(t) => ToQueue(t)'
                  /\ Queued(t, n) => Queued(t, n)'
                  /\ Reported(t, n) => Reported(t, n)'
    BY <1>1, <1>2 DEF ToQueue, Queued, Reported
  <2>2. ASSUME NEW t \in pool' \cap Held[tip']
        PROVE  \/ ToQueue(t)' \/ Queued(t, 0)' \/ Reported(t, 0)'
               \/ pooler'.pc = "remove" /\ t \in pooler'.update.inserted
    BY <1>0, <1>2, <2>1 DEF Leaving
  <2>3. ASSUME pooler'.pc # "wait", NEW t \in Range(pooler'.update.removed) \cap Held[tip']
        PROVE  ToQueue(t)' \/ Queued(t, 0)' \/ Reported(t, 0)'
    BY <1>0, <1>2, <2>1, <2>3 DEF Leaving
  <2>4. ASSUME NEW n \in DOMAIN news', NEW t \in Range(news'[n].removed) \cap Held[tip']
        PROVE  ToQueue(t)' \/ Queued(t, 0)' \/ Reported(t, n)'
    BY <1>0, <1>2, <2>1 DEF Leaving
  <2>5. ASSUME NEW n \in DOMAIN updates', NEW t \in Range(updates'[n].removed) \cap Held[tip']
        PROVE  ToQueue(t)' \/ Queued(t, n)'
    BY <1>0, <1>2, <2>1 DEF Leaving
  <2>. QED
    BY <2>2, <2>3, <2>4, <2>5 DEF Leaving
<1>11. Returning'
  BY <1>0, <1>2, ReturningSame
<1>. QED
  BY <1>3, <1>4, <1>5, <1>6, <1>7, <1>8, <1>9, <1>10, <1>11 DEF PoolInvariant

\* New work starts from nothing: no data storage, an empty result, the list from its start.
LEMMA ResetNowProperties ==
  ASSUME PoolInvariant, NEW id, ResetNow(id), UNCHANGED <<chainVars, results>>,
         id # None => id \in DOMAIN results /\ results[id].txs = <<>>
  PROVE  /\ Books' /\ Worked' /\ pool' = pool /\ txsMap' = txsMap
         /\ work' = IF id = None THEN work ELSE id
         /\ work' \in (1..Len(results)) \cup {None}
         /\ storage' \in Nat \cup {None} /\ included' \in Seq(Txs) /\ includedTotalSize' \in Nat
         /\ txsList' \in Seq(Txs) /\ listIndex' \in Nat
<1>0. TypeOK /\ Books /\ Worked
  BY DEF PoolInvariant
<1>1. CASE id = None
  <2>1. UNCHANGED <<workVars, poolVars>>
    BY <1>1 DEF ResetNow
  <2>2. Books' /\ Worked'
    BY <1>0, <2>1, BooksSame, WorkedSame DEF chainVars, workVars
  <2>. QED
    BY <1>0, <1>1, <2>1, <2>2 DEF TypeOK, workVars, poolVars
<1>2. CASE id # None
  <2>1. /\ work' = id /\ storage' = None /\ included' = <<>> /\ includedTotalSize' = 0
        /\ listIndex' = 0 /\ txsList' \in Sortings(txsList) /\ txsMap' = txsMap /\ pool' = pool
    BY <1>2 DEF ResetNow
  <2>2. txsList \in Seq(Txs) /\ Once(txsList) /\ Range(txsList) = txsMap /\ txsMap = pool
    BY <1>0 DEF TypeOK, Books
  <2>3. /\ txsList' \in Seq(Txs) /\ Len(txsList') = Len(txsList)
        /\ Range(txsList') = Range(txsList) /\ Once(txsList')
    BY <2>1, <2>2, SortingProperties
  <2>4. Len(txsList') \in Nat
    BY <2>3, LenProperties
  <2>5. listIndex' \in 0..Len(txsList')
    BY <2>1, <2>4
  <2>6. Books'
    BY <2>1, <2>2, <2>3, <2>5 DEF Books
  <2>7. results' = results
    OBVIOUS
  <2>8. Worked'
    BY <1>2, <2>1, <2>7 DEF Worked
  <2>9. id \in 1..Len(results)
    BY <1>0, <1>2, LenProperties DEF TypeOK
  <2>. QED
    BY <1>2, <2>1, <2>3, <2>6, <2>8, <2>9
<1>. QED
  BY <1>1, <1>2

LEMMA WorkFromUpdaterKeeps == ASSUME PoolInvariant, WorkFromUpdater PROVE PoolInvariant'
<1>0. /\ TypeOK /\ Books /\ Views /\ Deliveries /\ Couriers /\ Worked /\ Resulted /\ Leaving /\ Returning
  BY DEF PoolInvariant
<1>1. /\ updater.pc = "send" /\ ResetNow(updater.id) /\ Resume(work', suspended) /\ updater' = Waiting
      /\ UNCHANGED <<chainVars, started, syncer, news, pooler, dropped, clientVars, results>>
  BY DEF WorkFromUpdater
<1>2. PICK id : id = updater.id
  OBVIOUS
<1>3. id # None => id \in DOMAIN results /\ results[id].txs = <<>>
  BY <1>0, <1>1, <1>2 DEF Couriers, CourierOK
<1>4. /\ Books' /\ Worked' /\ pool' = pool /\ txsMap' = txsMap
      /\ work' = IF id = None THEN work ELSE id
      /\ work' \in (1..Len(results)) \cup {None}
      /\ storage' \in Nat \cup {None} /\ included' \in Seq(Txs) /\ includedTotalSize' \in Nat
      /\ txsList' \in Seq(Txs) /\ listIndex' \in Nat
  BY <1>1, <1>2, <1>3, ResetNowProperties
<1>5. /\ tip' = tip /\ updates' = updates /\ chainPc' = chainPc /\ chainErr' = chainErr
      /\ results' = results /\ syncer' = syncer
  BY <1>1 DEF chainVars
<1>6. /\ updater' = [pc |-> "wait", tip |-> None, id |-> None]
      /\ updater'.pc = "wait" /\ updater'.tip = None /\ updater'.id = None /\ updater' \in Courier
  BY <1>1 DEF Waiting, Courier
<1>7. Views' /\ at' \in {"outer", "inner"} /\ view' \in Tips \cup {None}
  <2>1. suspended <=> chainPc' \in {"update", "continue"}
    BY <1>0, <1>5 DEF Views
  <2>. QED
    BY <1>0, <1>1, <1>5, <2>1, ResumeViews
<1>8. TypeOK'
  <2>1. suspended' \in BOOLEAN
    BY <1>0, <1>1 DEF TypeOK, Resume
  <2>. QED
    BY <1>0, <1>1, <1>4, <1>6, <1>7, <2>1 DEF TypeOK, chainVars, clientVars
<1>9. Deliveries'
  BY <1>0, <1>1, <1>5, DeliveriesSame
<1>10. Couriers'
  <2>1. CourierOK(updater)'
    BY <1>6 DEF CourierOK
  <2>2. syncer.pc = "send" /\ syncer.id # None => syncer.id # work'
    BY <1>0, <1>1, <1>2, <1>4 DEF Couriers, CourierOK
  <2>3. CourierOK(syncer)'
    BY <1>0, <1>5, <2>2 DEF Couriers, CourierOK
  <2>. QED
    BY <1>6, <2>1, <2>3 DEF Couriers
<1>11. Resulted'
  BY <1>0, <1>5, ResultedSame
<1>12. Leaving'
  BY <1>0, <1>1, <1>4, <1>5, LeavingSame
<1>13. Returning'
  BY <1>0, <1>1, <1>4, ReturningSame
<1>. QED
  BY <1>4, <1>7, <1>8, <1>9, <1>10, <1>11, <1>12, <1>13 DEF PoolInvariant

LEMMA WorkFromSyncerKeeps == ASSUME PoolInvariant, WorkFromSyncer PROVE PoolInvariant'
<1>0. /\ TypeOK /\ Books /\ Views /\ Deliveries /\ Couriers /\ Worked /\ Resulted /\ Leaving /\ Returning
  BY DEF PoolInvariant
<1>1. /\ syncer.pc = "send" /\ ResetNow(syncer.id) /\ Resume(work', suspended)
      /\ syncer' = [Waiting EXCEPT !.pc = "done"]
      /\ UNCHANGED <<chainVars, updater, started, news, pooler, dropped, clientVars, results>>
  BY DEF WorkFromSyncer
<1>2. PICK id : id = syncer.id
  OBVIOUS
<1>3. id # None => id \in DOMAIN results /\ results[id].txs = <<>>
  BY <1>0, <1>1, <1>2 DEF Couriers, CourierOK
<1>4. /\ Books' /\ Worked' /\ pool' = pool /\ txsMap' = txsMap
      /\ work' = IF id = None THEN work ELSE id
      /\ work' \in (1..Len(results)) \cup {None}
      /\ storage' \in Nat \cup {None} /\ included' \in Seq(Txs) /\ includedTotalSize' \in Nat
      /\ txsList' \in Seq(Txs) /\ listIndex' \in Nat
  BY <1>1, <1>2, <1>3, ResetNowProperties
<1>5. /\ tip' = tip /\ updates' = updates /\ chainPc' = chainPc /\ chainErr' = chainErr
      /\ results' = results /\ updater' = updater
  BY <1>1 DEF chainVars
<1>6. /\ syncer' = [pc |-> "done", tip |-> None, id |-> None]
      /\ syncer'.pc = "done" /\ syncer'.tip = None /\ syncer'.id = None /\ syncer' \in Courier
  BY <1>1 DEF Waiting, Courier
<1>7. Views' /\ at' \in {"outer", "inner"} /\ view' \in Tips \cup {None}
  <2>1. suspended <=> chainPc' \in {"update", "continue"}
    BY <1>0, <1>5 DEF Views
  <2>. QED
    BY <1>0, <1>1, <1>5, <2>1, ResumeViews
<1>8. TypeOK'
  <2>1. suspended' \in BOOLEAN
    BY <1>0, <1>1 DEF TypeOK, Resume
  <2>. QED
    BY <1>0, <1>1, <1>4, <1>6, <1>7, <2>1 DEF TypeOK, chainVars, clientVars
<1>9. Deliveries'
  BY <1>0, <1>1, <1>5, DeliveriesSame
<1>10. Couriers'
  <2>1. CourierOK(syncer)'
    BY <1>6 DEF CourierOK
  <2>2. updater.pc = "send" /\ updater.id # None => updater.id # work'
    BY <1>0, <1>1, <1>2, <1>4 DEF Couriers, CourierOK
  <2>3. CourierOK(updater)'
    BY <1>0, <1>5, <2>2 DEF Couriers, CourierOK
  <2>. QED
    BY <1>6, <2>1, <2>3 DEF Couriers
<1>11. Resulted'
  BY <1>0, <1>5, ResultedSame
<1>12. Leaving'
  BY <1>0, <1>1, <1>4, <1>5, LeavingSame
<1>13. Returning'
  BY <1>0, <1>1, <1>4, ReturningSame
<1>. QED
  BY <1>4, <1>7, <1>8, <1>9, <1>10, <1>11, <1>12, <1>13 DEF PoolInvariant

\* Inside a view the data storage holds the tip's state and what the result includes.
LEMMA Trying ==
  ASSUME PoolInvariant, at = "inner"
  PROVE  /\ view = tip /\ tip \in Tips /\ tip \in Nat
         /\ work # None /\ work \in DOMAIN results /\ results[work].txs = included
         /\ included \in Seq(Txs) /\ Applies(included, tip)
         /\ Storage = NonceAt[tip] + Len(included) /\ Storage \in Nat /\ Storage # None
         /\ NonceAt[tip] \in Nat /\ Len(included) \in Nat
<1>0. TypeOK /\ Views /\ Worked
  BY DEF PoolInvariant
<1>1. /\ view = tip /\ tip \in Tips /\ tip \in Nat /\ work # None /\ included \in Seq(Txs)
      /\ chainPc # "continue"
  BY <1>0 DEF TypeOK, Views, Tips
<1>2. work \in DOMAIN results
  BY <1>0, <1>1, LenProperties DEF TypeOK
<1>3. NonceAt[tip] \in Nat /\ Len(included) \in Nat
  BY <1>1, HeldProperties, LenProperties
<1>4. results[work].txs = included
  BY <1>0, <1>1 DEF Worked
<1>5. CASE storage = None /\ included = <<>>
  <2>1. Applies(included, tip)
    BY <1>5 DEF Applies
  <2>2. Len(included) = 0 /\ Storage = NonceAt[tip]
    BY <1>1, <1>5 DEF Storage
  <2>3. Storage = NonceAt[tip] + Len(included) /\ Storage \in Nat /\ Storage # None
    BY <1>3, <2>2, NoneAssumption
  <2>. QED
    BY <1>1, <1>2, <1>3, <1>4, <2>1, <2>3
<1>6. CASE storage # None /\ storage = NonceAt[tip] + Len(included) /\ Applies(included, tip)
  <2>1. Storage = storage
    BY <1>6 DEF Storage
  <2>2. Storage = NonceAt[tip] + Len(included) /\ Storage \in Nat /\ Storage # None
    BY <1>3, <1>6, <2>1, NoneAssumption
  <2>. QED
    BY <1>1, <1>2, <1>3, <1>4, <1>6, <2>2
<1>. QED
  BY <1>0, <1>1, <1>5, <1>6 DEF Worked

LEMMA StorageKept ==
  ASSUME PoolInvariant, at = "inner", storage' = Storage, UNCHANGED <<chainVars, work, included, results>>
  PROVE  Worked' /\ storage' \in Nat \cup {None}
<1>1. /\ view = tip /\ work # None /\ results[work].txs = included /\ Applies(included, tip)
      /\ Storage = NonceAt[tip] + Len(included) /\ Storage \in Nat /\ Storage # None
  BY Trying
<1>2. tip' = tip
  BY DEF chainVars
<1>. QED
  BY <1>1, <1>2 DEF Worked, Applies

\* No result loses what it has.
Growing ==
    \A r \in DOMAIN results :
        /\ r \in DOMAIN results'
        /\ results'[r].tip = results[r].tip
        /\ IsPrefix(results[r].txs, results'[r].txs)

LEMMA PrefixOfAppend ==
  ASSUME NEW T, NEW s \in Seq(T), NEW x \in T
  PROVE  IsPrefix(s, s) /\ IsPrefix(s, Append(s, x))
<1>1. PICK N \in Nat : N = Len(s)
  BY LenProperties
<1>2. Append(s, x) \in Seq(T) /\ Len(Append(s, x)) = N + 1 /\ \A i \in 1..N : Append(s, x)[i] = s[i]
  BY <1>1, AppendProperties
<1>3. DOMAIN s = 1..N /\ DOMAIN Append(s, x) = 1..(N + 1)
  BY <1>1, <1>2, LenProperties
<1>4. SubSeq(Append(s, x), 1, N) = s
  <2>1. PICK longer : longer = Append(s, x)
    OBVIOUS
  <2>2. \A i \in 1..N : longer[i] \in T /\ longer[i] = s[i]
    BY <1>1, <1>2, <2>1, ElementOfSeq
  <2>3. PICK start : start = SubSeq(longer, 1, N)
    OBVIOUS
  <2>4. start \in Seq(T) /\ Len(start) = N /\ \A i \in 1..N : start[i] = longer[i]
    BY <2>2, <2>3
  <2>. QED
    BY <1>1, <2>1, <2>2, <2>3, <2>4, SeqEqual
<1>5. SubSeq(s, 1, N) = s
  BY <1>1, SubSeqFull
<1>. QED
  BY <1>1, <1>2, <1>3, <1>4, <1>5 DEF IsPrefix

\* A transaction that is included applies after those that are in the result.
LEMMA IncludeProperties ==
  ASSUME PoolInvariant, at = "inner", NEW t \in Txs, ~Exists(t), Includable(t), Include(t),
         UNCHANGED <<chainVars, work, updater, syncer>>
  PROVE  /\ Worked' /\ Resulted' /\ Couriers' /\ Growing
         /\ storage' \in Nat \cup {None} /\ included' \in Seq(Txs) /\ includedTotalSize' \in Nat
         /\ results' \in Seq([tip : Tips, txs : Seq(Txs)]) /\ Len(results') = Len(results)
<1>0. TypeOK /\ Couriers /\ Resulted /\ Worked
  BY DEF PoolInvariant
<1>1. /\ view = tip /\ tip \in Tips /\ tip \in Nat
      /\ work # None /\ work \in DOMAIN results /\ results[work].txs = included
      /\ included \in Seq(Txs) /\ Applies(included, tip)
      /\ Storage = NonceAt[tip] + Len(included) /\ Storage \in Nat /\ Storage # None
      /\ NonceAt[tip] \in Nat /\ Len(included) \in Nat
  BY Trying
<1>2. tip' = tip /\ chainPc' = chainPc /\ chainErr' = chainErr
  BY DEF chainVars
<1>3. /\ results \in Seq([tip : Tips, txs : Seq(Txs)]) /\ includedTotalSize \in Nat /\ Size[t] \in Nat
  BY <1>0, TxsAssumption DEF TypeOK
<1>4. \A r \in DOMAIN results : results[r] \in [tip : Tips, txs : Seq(Txs)]
  BY <1>3, LenProperties, ElementOfSeq
<1>5. \A s \in Seq(Txs) : IsPrefix(s, s)
  BY PrefixOfAppend
<1>6. CASE ~Fits(t)
  <2>1. storage' = Storage /\ UNCHANGED <<included, includedTotalSize, results>>
    BY <1>6 DEF Include
  <2>2. Worked' /\ storage' \in Nat \cup {None}
    BY <2>1, StorageKept
  <2>3. Resulted' /\ Couriers'
    BY <1>0, <1>2, <2>1, ResultedSame, CouriersSame
  <2>4. Growing
    BY <1>4, <1>5, <2>1 DEF Growing
  <2>. QED
    BY <1>1, <1>3, <2>1, <2>2, <2>3, <2>4
<1>7. CASE Fits(t)
  <2>1. PICK new : new = Append(included, t)
    OBVIOUS
  <2>2. /\ included' = new /\ includedTotalSize' = includedTotalSize + Size[t]
        /\ results' = [results EXCEPT ![work].txs = new] /\ storage' = Storage + 1
    BY <1>7, <2>1 DEF Include
  <2>3. PICK N \in Nat : N = Len(included)
    BY <1>1
  <2>4. /\ new \in Seq(Txs) /\ Len(new) = N + 1
        /\ \A i \in 1..N : new[i] = included[i]
        /\ new[N + 1] = t /\ DOMAIN new = 1..(N + 1) /\ DOMAIN included = 1..N
    <3>1. /\ new \in Seq(Txs) /\ Len(new) = N + 1
          /\ \A i \in 1..N : new[i] = included[i]
          /\ new[N + 1] = t
      BY <1>1, <2>1, <2>3, AppendProperties
    <3>. QED
      BY <1>1, <2>3, <3>1, LenProperties
  <2>5. Applies(new, tip)
    <3>. SUFFICES ASSUME NEW i \in 1..(N + 1)
                  PROVE  new[i] \notin Held[tip] /\ Nonce[new[i]] = NonceAt[tip] + i - 1
      BY <2>4 DEF Applies
    <3>1. CASE i \in 1..N
      BY <1>1, <2>4, <3>1 DEF Applies
    <3>2. CASE i = N + 1
      <4>1. t \notin Held[tip] /\ Nonce[t] = NonceAt[tip] + N
        BY <1>1, <2>3 DEF Exists, Includable
      <4>2. NonceAt[tip] + N = NonceAt[tip] + (N + 1) - 1
        BY <1>1
      <4>. QED
        BY <2>4, <3>2, <4>1, <4>2
    <3>. QED
      BY <3>1, <3>2
  <2>6. PICK entry : entry = [results[work] EXCEPT !.txs = new]
    OBVIOUS
  <2>7. entry \in [tip : Tips, txs : Seq(Txs)] /\ entry.txs = new /\ entry.tip = results[work].tip
    BY <1>1, <1>4, <2>4, <2>6
  <2>8. results' = [results EXCEPT ![work] = entry]
    BY <2>2, <2>6
  <2>9. /\ DOMAIN results' = DOMAIN results /\ results'[work] = entry
        /\ \A r \in DOMAIN results : r # work => results'[r] = results[r]
    BY <1>1, <2>8
  <2>10. results' \in Seq([tip : Tips, txs : Seq(Txs)]) /\ Len(results') = Len(results)
    <3>1. work \in 1..Len(results)
      BY <1>1, <1>3, LenProperties
    <3>. QED
      BY <1>3, <2>7, <2>8, <3>1, ExceptSeq
  <2>11. storage' = NonceAt[tip] + Len(new) /\ storage' \in Nat /\ storage' # None
    <3>0. storage' = NonceAt[tip] + N + 1 /\ NonceAt[tip] \in Nat
      BY <1>1, <2>2, <2>3
    <3>1. storage' = NonceAt[tip] + (N + 1) /\ storage' \in Nat
      BY <3>0
    <3>. QED
      BY <2>4, <3>1, NoneAssumption
  <2>12. Worked'
    <3>1. work' = work
      OBVIOUS
    <3>. QED
      BY <1>2, <2>2, <2>5, <2>7, <2>9, <2>11, <3>1 DEF Worked, Applies
  <2>13. Resulted'
    <3>. SUFFICES ASSUME NEW r \in DOMAIN results
                  PROVE  /\ results'[r].tip \in 0..tip
                         /\ results'[r].tip = tip => Applies(results'[r].txs, tip)
      BY <1>2, <2>9 DEF Resulted, Applies
    <3>1. results[r].tip \in 0..tip /\ (results[r].tip = tip => Applies(results[r].txs, tip))
      BY <1>0 DEF Resulted
    <3>2. CASE r = work
      BY <2>5, <2>7, <2>9, <3>1, <3>2
    <3>3. CASE r # work
      BY <2>9, <3>1, <3>3
    <3>. QED
      BY <3>2, <3>3
  <2>14. Couriers'
    <3>1. CourierOK(updater)' /\ CourierOK(syncer)'
      BY <1>0, <1>2, <2>9 DEF Couriers, CourierOK
    <3>. QED
      BY <1>0, <3>1 DEF Couriers
  <2>15. Growing
    <3>. SUFFICES ASSUME NEW r \in DOMAIN results
                  PROVE  results'[r].tip = results[r].tip /\ IsPrefix(results[r].txs, results'[r].txs)
      BY <2>9 DEF Growing
    <3>1. CASE r = work
      <4>1. IsPrefix(included, new)
        BY <1>1, <2>1, PrefixOfAppend
      <4>. QED
        BY <1>1, <2>7, <2>9, <3>1, <4>1
    <3>2. CASE r # work
      BY <1>4, <1>5, <2>9, <3>2
    <3>. QED
      BY <3>1, <3>2
  <2>16. includedTotalSize' \in Nat
    BY <1>3, <2>2
  <2>. QED
    BY <2>2, <2>4, <2>10, <2>11, <2>12, <2>13, <2>14, <2>15, <2>16
<1>. QED
  BY <1>6, <1>7

\* A place in the list taken out.
LEMMA OnceCut ==
  ASSUME NEW T, NEW list \in Seq(T), Once(list), NEW k \in Nat, k < Len(list)
  PROVE  LET cut == SubSeq(list, 1, k) \o SubSeq(list, k + 2, Len(list))
         IN  /\ cut \in Seq(T) /\ Once(cut) /\ Range(cut) = Range(list) \ {list[k + 1]}
             /\ k \in 0..Len(cut) /\ list[k + 1] \in Range(list)
<1>1. PICK N \in Nat : N = Len(list)
  BY LenProperties
<1>2. DOMAIN list = 1..N /\ \A i \in 1..N : list[i] \in T
  BY <1>1, LenProperties, ElementOfSeq
<1>3. PICK a : a = SubSeq(list, 1, k)
  OBVIOUS
<1>4. PICK b : b = SubSeq(list, k + 2, N)
  OBVIOUS
<1>5. a \in Seq(T) /\ Len(a) = k /\ \A i \in 1..k : a[i] = list[i] /\ i \in 1..N
  <2>1. \A i \in 1..k : i \in 1..N
    BY <1>1
  <2>. QED
    BY <1>2, <1>3, <2>1
<1>6. PICK m \in Nat : N = k + 1 + m
  <2>1. N - k - 1 \in Nat /\ N = k + 1 + (N - k - 1)
    BY <1>1
  <2>. QED
    BY <2>1
<1>7. \A i \in 1..m : k + 1 + i \in 1..N
  BY <1>6
<1>8. b \in Seq(T) /\ Len(b) = m /\ \A i \in 1..m : b[i] = list[k + 1 + i]
  <2>1. \A i \in (k + 2)..N : list[i] \in T
    BY <1>2
  <2>2. k + 2 \in Int /\ N \in Int
    OBVIOUS
  <2>3. /\ b \in Seq(T)
        /\ Len(b) = IF k + 2 <= N THEN N - (k + 2) + 1 ELSE 0
        /\ \A i \in 1..(N - (k + 2) + 1) : b[i] = list[(k + 2) + i - 1]
    BY <1>4, <2>1, <2>2
  <2>4. Len(b) = m
    BY <1>6, <2>3
  <2>5. ASSUME NEW i \in 1..m PROVE b[i] = list[k + 1 + i]
    <3>1. i \in 1..(N - (k + 2) + 1) /\ (k + 2) + i - 1 = k + 1 + i
      BY <1>6
    <3>. QED
      BY <2>3, <3>1
  <2>. QED
    BY <2>3, <2>4, <2>5
<1>9. DOMAIN a = 1..k /\ DOMAIN b = 1..m
  BY <1>5, <1>8, LenProperties
<1>10. Range(list) = {list[i] : i \in 1..N} /\ Range(a) = {a[i] : i \in 1..k} /\ Range(b) = {b[i] : i \in 1..m}
  BY <1>2, <1>9 DEF Range
<1>11. \A i, j \in 1..N : list[i] = list[j] => i = j
  BY <1>2 DEF Once
<1>12. Once(a)
  BY <1>5, <1>9, <1>11 DEF Once
<1>13. Once(b)
  <2>. SUFFICES ASSUME NEW i \in 1..m, NEW j \in 1..m, b[i] = b[j] PROVE i = j
    BY <1>9 DEF Once
  <2>1. k + 1 + i = k + 1 + j
    BY <1>7, <1>8, <1>11
  <2>. QED
    BY <2>1
<1>14. Range(a) \cap Range(b) = {}
  <2>. SUFFICES ASSUME NEW i \in 1..k, NEW j \in 1..m, a[i] = b[j] PROVE FALSE
    BY <1>10
  <2>0. list[i] = list[k + 1 + j] /\ i \in 1..N /\ k + 1 + j \in 1..N
    BY <1>5, <1>7, <1>8
  <2>1. i = k + 1 + j
    BY <1>11, <2>0
  <2>. QED
    BY <2>1
<1>15. k + 1 \in 1..N
  BY <1>6
<1>16. Range(a) \cup Range(b) = Range(list) \ {list[k + 1]}
  <2>1. ASSUME NEW i \in 1..k PROVE a[i] \in Range(list) \ {list[k + 1]}
    <3>1. i \in 1..N /\ i # k + 1
      BY <1>5
    <3>. QED
      BY <1>5, <1>10, <1>11, <1>15, <3>1
  <2>2. ASSUME NEW i \in 1..m PROVE b[i] \in Range(list) \ {list[k + 1]}
    <3>1. k + 1 + i \in 1..N /\ k + 1 + i # k + 1
      BY <1>7
    <3>. QED
      BY <1>8, <1>10, <1>11, <1>15, <3>1
  <2>3. ASSUME NEW i \in 1..N, list[i] # list[k + 1] PROVE list[i] \in Range(a) \cup Range(b)
    <3>1. CASE i \in 1..k
      BY <1>5, <1>10, <3>1
    <3>2. CASE i \notin 1..k
      <4>1. i # k + 1
        BY <2>3
      <4>2. i - (k + 1) \in 1..m /\ k + 1 + (i - (k + 1)) = i
        BY <1>6, <3>2, <4>1
      <4>. QED
        BY <1>8, <1>10, <4>2
    <3>. QED
      BY <3>1, <3>2
  <2>. QED
    BY <1>10, <2>1, <2>2, <2>3
<1>17. /\ a \o b \in Seq(T) /\ Once(a \o b) /\ Range(a \o b) = Range(a) \cup Range(b)
       /\ Len(a \o b) = Len(a) + Len(b)
  <2>1. a \in Seq(T) /\ b \in Seq(T)
    BY <1>5, <1>8
  <2>. QED
    BY <1>12, <1>13, <1>14, <2>1, OnceConcat
<1>18. k \in 0..Len(a \o b)
  BY <1>5, <1>8, <1>17
<1>19. list[k + 1] \in Range(list)
  BY <1>10, <1>15
<1>. QED
  BY <1>1, <1>3, <1>4, <1>16, <1>17, <1>18, <1>19

\* The mempool shrinks, or grows by what is not on the chain.
LEMMA LeavingPool ==
  ASSUME Leaving, UNCHANGED <<chainPc, chainErr, tip, updates, news, pooler>>,
         \A t \in pool' : t \in pool \/ t \notin Held[tip]
  PROVE  Leaving'
<1>1. \A t, n : /\ ToQueue(t) => ToQueue(t)'
                /\ Queued(t, n) => Queued(t, n)'
                /\ Reported(t, n) => Reported(t, n)'
  BY DEF ToQueue, Queued, Reported
<1>2. ASSUME NEW t \in pool' \cap Held[tip']
      PROVE  \/ ToQueue(t)' \/ Queued(t, 0)' \/ Reported(t, 0)'
             \/ pooler'.pc = "remove" /\ t \in pooler'.update.inserted
  BY <1>1 DEF Leaving
<1>3. ASSUME pooler'.pc # "wait", NEW t \in Range(pooler'.update.removed) \cap Held[tip']
      PROVE  ToQueue(t)' \/ Queued(t, 0)' \/ Reported(t, 0)'
  BY <1>1, <1>3 DEF Leaving
<1>4. ASSUME NEW n \in DOMAIN news', NEW t \in Range(news'[n].removed) \cap Held[tip']
      PROVE  ToQueue(t)' \/ Queued(t, 0)' \/ Reported(t, n)'
  BY <1>1 DEF Leaving
<1>5. ASSUME NEW n \in DOMAIN updates', NEW t \in Range(updates'[n].removed) \cap Held[tip']
      PROVE  ToQueue(t)' \/ Queued(t, n)'
  BY <1>1 DEF Leaving
<1>. QED
  BY <1>2, <1>3, <1>4, <1>5 DEF Leaving

LEMMA TryNextKeeps == ASSUME PoolInvariant, TryNext PROVE PoolInvariant'
<1>0. /\ TypeOK /\ Books /\ Views /\ Deliveries /\ Couriers /\ Worked /\ Resulted /\ Leaving /\ Returning
  BY DEF PoolInvariant
<1>1. PICK t : t = txsList[listIndex + 1]
  OBVIOUS
<1>2. /\ at = "inner" /\ listIndex < Len(txsList)
      /\ UNCHANGED <<chainVars, updater, started, syncer, news, pooler, clientVars, work, viewVars>>
  BY DEF TryNext
<1>3. /\ tip' = tip /\ updates' = updates /\ chainPc' = chainPc /\ chainErr' = chainErr
      /\ updater' = updater /\ syncer' = syncer /\ news' = news /\ pooler' = pooler /\ work' = work
  BY <1>2 DEF chainVars
<1>4. Views' /\ Deliveries'
  BY <1>0, <1>2, <1>3, ViewsSame, DeliveriesSame
<1>5. /\ txsList \in Seq(Txs) /\ listIndex \in Nat /\ Once(txsList) /\ Len(txsList) \in Nat
      /\ Range(txsList) = txsMap /\ txsMap = pool /\ txsMap \subseteq Txs /\ listIndex + 1 \in 1..Len(txsList)
      /\ t \in Txs
  <2>1. /\ txsList \in Seq(Txs) /\ listIndex \in Nat /\ Once(txsList)
        /\ Range(txsList) = txsMap /\ txsMap = pool /\ txsMap \subseteq Txs
    BY <1>0 DEF TypeOK, Books
  <2>2. Len(txsList) \in Nat
    BY <2>1, LenProperties
  <2>3. listIndex + 1 \in 1..Len(txsList)
    BY <1>2, <2>1, <2>2
  <2>4. t \in Txs
    BY <1>1, <2>1, <2>3, ElementOfSeq
  <2>. QED
    BY <2>1, <2>2, <2>3, <2>4
<1>6. CASE /\ Exists(t) /\ listIndex' = listIndex + 1 /\ storage' = Storage
           /\ UNCHANGED <<txsList, txsMap, pool, dropped, included, includedTotalSize, results>>
  <2>1. Worked' /\ storage' \in Nat \cup {None}
    BY <1>2, <1>6, StorageKept
  <2>2. Books'
    BY <1>0, <1>5, <1>6 DEF Books
  <2>3. TypeOK'
    <3>1. listIndex' \in Nat
      BY <1>5, <1>6
    <3>. QED
      BY <1>0, <1>2, <1>6, <2>1, <3>1 DEF TypeOK, chainVars, clientVars, viewVars
  <2>4. Couriers' /\ Resulted' /\ Leaving' /\ Returning'
    BY <1>0, <1>3, <1>6, CouriersSame, ResultedSame, LeavingSame, ReturningSame
  <2>. QED
    BY <1>4, <2>1, <2>2, <2>3, <2>4 DEF PoolInvariant
<1>7. CASE /\ ~Exists(t) /\ Includable(t) /\ listIndex' = listIndex + 1 /\ Include(t)
           /\ UNCHANGED <<txsList, txsMap, pool, dropped>>
  <2>1. /\ Worked' /\ Resulted' /\ Couriers'
        /\ storage' \in Nat \cup {None} /\ included' \in Seq(Txs) /\ includedTotalSize' \in Nat
        /\ results' \in Seq([tip : Tips, txs : Seq(Txs)]) /\ Len(results') = Len(results)
    BY <1>2, <1>3, <1>5, <1>7, IncludeProperties
  <2>2. Books'
    BY <1>0, <1>5, <1>7 DEF Books
  <2>3. TypeOK'
    <3>1. listIndex' \in Nat
      BY <1>5, <1>7
    <3>. QED
      BY <1>0, <1>2, <1>7, <2>1, <3>1 DEF TypeOK, chainVars, clientVars, viewVars
  <2>4. Leaving' /\ Returning'
    BY <1>0, <1>3, <1>7, LeavingSame, ReturningSame
  <2>. QED
    BY <1>4, <2>1, <2>2, <2>3, <2>4 DEF PoolInvariant
<1>8. CASE /\ storage' = Storage
           /\ txsList' = SubSeq(txsList, 1, listIndex) \o SubSeq(txsList, listIndex + 2, Len(txsList))
           /\ txsMap' = txsMap \ {t} /\ pool' = pool \ {t}
           /\ dropped' = IF pooler.pc = "insert" THEN dropped \cup {t} ELSE dropped
           /\ UNCHANGED <<listIndex, included, includedTotalSize, results>>
  <2>1. Worked' /\ storage' \in Nat \cup {None}
    BY <1>2, <1>8, StorageKept
  <2>2. /\ txsList' \in Seq(Txs) /\ Once(txsList') /\ Range(txsList') = Range(txsList) \ {t}
        /\ listIndex \in 0..Len(txsList')
    BY <1>1, <1>2, <1>5, <1>8, OnceCut
  <2>3. Books'
    BY <1>5, <1>8, <2>2 DEF Books
  <2>4. TypeOK'
    <3>1. txsMap' \subseteq Txs /\ pool' \subseteq Txs /\ dropped' \subseteq Txs /\ listIndex' \in Nat
      BY <1>0, <1>5, <1>8 DEF TypeOK
    <3>. QED
      BY <1>0, <1>2, <1>8, <2>1, <2>2, <3>1 DEF TypeOK, chainVars, clientVars, viewVars
  <2>5. Couriers' /\ Resulted'
    BY <1>0, <1>3, <1>8, CouriersSame, ResultedSame
  <2>6. Leaving'
    BY <1>0, <1>3, <1>8, LeavingPool
  <2>7. Returning'
    BY <1>0, <1>3, <1>8 DEF Returning
  <2>. QED
    BY <1>4, <2>1, <2>3, <2>4, <2>5, <2>6, <2>7 DEF PoolInvariant
<1>. QED
  BY <1>1, <1>6, <1>7, <1>8 DEF TryNext

LEMMA TryNewKeeps == ASSUME PoolInvariant, TryNew PROVE PoolInvariant'
<1>0. /\ TypeOK /\ Books /\ Views /\ Deliveries /\ Couriers /\ Worked /\ Resulted /\ Leaving /\ Returning
  BY DEF PoolInvariant
<1>1. PICK c : c = Head(addCn)
  OBVIOUS
<1>2. PICK t : t = Submits[c]
  OBVIOUS
<1>3. /\ at = "inner" /\ listIndex = Len(txsList) /\ addCn # <<>> /\ addCn' = Tail(addCn)
      /\ UNCHANGED <<chainVars, threadVars, work, viewVars>>
  BY DEF TryNew
<1>4. /\ tip' = tip /\ updates' = updates /\ chainPc' = chainPc /\ chainErr' = chainErr /\ dropped' = dropped
      /\ updater' = updater /\ syncer' = syncer /\ news' = news /\ pooler' = pooler /\ work' = work
  BY <1>3 DEF chainVars, threadVars
<1>5. Views' /\ Deliveries'
  BY <1>0, <1>3, <1>4, ViewsSame, DeliveriesSame
<1>6. c \in Clients /\ addCn' \in Seq(Clients) /\ t \in Txs
  <2>1. addCn \in Seq(Clients)
    BY <1>0 DEF TypeOK
  <2>2. c \in Clients /\ addCn' \in Seq(Clients)
    BY <1>1, <1>3, <2>1, HeadTailProperties
  <2>. QED
    BY <1>2, <2>2, ClientsAssumption
<1>7. client' \in [Clients -> {"new", "waiting", "accepted", "refused"}]
  <2>1. client \in [Clients -> {"new", "waiting", "accepted", "refused"}]
    BY <1>0 DEF TypeOK
  <2>2. client' = [client EXCEPT ![c] = "accepted"] \/ client' = [client EXCEPT ![c] = "refused"]
    BY <1>1 DEF TryNew
  <2>. QED
    BY <2>1, <2>2
<1>8. CASE UNCHANGED <<poolVars, included, includedTotalSize, results>> /\ storage' = Storage
  <2>1. Worked' /\ storage' \in Nat \cup {None}
    BY <1>3, <1>4, <1>8, StorageKept
  <2>2. Books'
    BY <1>0, <1>8, BooksSame
  <2>3. TypeOK'
    BY <1>0, <1>3, <1>6, <1>7, <1>8, <2>1 DEF TypeOK, chainVars, threadVars, poolVars, viewVars
  <2>4. pool' = pool
    BY <1>8 DEF poolVars
  <2>5. Couriers' /\ Resulted' /\ Leaving' /\ Returning'
    BY <1>0, <1>4, <1>8, <2>4, CouriersSame, ResultedSame, LeavingSame, ReturningSame
  <2>. QED
    BY <1>5, <2>1, <2>2, <2>3, <2>5 DEF PoolInvariant
<1>9. CASE /\ t \notin txsMap /\ ~Exists(t) /\ Includable(t) /\ Include(t)
           /\ listIndex' = listIndex + 1 /\ txsList' = Append(txsList, t)
           /\ txsMap' = txsMap \cup {t} /\ pool' = pool \cup {t}
  <2>1. /\ Worked' /\ Resulted' /\ Couriers'
        /\ storage' \in Nat \cup {None} /\ included' \in Seq(Txs) /\ includedTotalSize' \in Nat
        /\ results' \in Seq([tip : Tips, txs : Seq(Txs)]) /\ Len(results') = Len(results)
    BY <1>3, <1>4, <1>6, <1>9, IncludeProperties
  <2>2. /\ txsList \in Seq(Txs) /\ listIndex \in Nat /\ Once(txsList)
        /\ Range(txsList) = txsMap /\ txsMap = pool /\ txsMap \subseteq Txs
    BY <1>0 DEF TypeOK, Books
  <2>3. PICK new : new = <<t>>
    OBVIOUS
  <2>4. new \in Seq(Txs) /\ Once(new) /\ Range(new) = {t} /\ Len(new) = 1
    BY <1>6, <2>3 DEF Once, Range
  <2>5. txsList' = txsList \o new
    BY <1>6, <1>9, <2>2, <2>3, AppendIsConcat
  <2>6. Range(txsList) \cap Range(new) = {}
    BY <1>9, <2>2, <2>4
  <2>7. /\ txsList' \in Seq(Txs) /\ Once(txsList') /\ Range(txsList') = Range(txsList) \cup {t}
        /\ Len(txsList') = Len(txsList) + 1 /\ Len(txsList) \in Nat
    <3>1. /\ txsList \o new \in Seq(Txs) /\ Once(txsList \o new)
          /\ Range(txsList \o new) = Range(txsList) \cup Range(new)
          /\ Len(txsList \o new) = Len(txsList) + Len(new) /\ Len(txsList) \in Nat
      <4>1. txsList \in Seq(Txs) /\ Once(txsList) /\ new \in Seq(Txs) /\ Once(new)
        BY <2>2, <2>4
      <4>. QED
        BY <2>6, <4>1, OnceConcat
    <3>. QED
      BY <2>4, <2>5, <3>1
  <2>8. listIndex' \in 0..Len(txsList') /\ listIndex' \in Nat
    BY <1>3, <1>9, <2>7
  <2>9. Books'
    BY <1>9, <2>2, <2>7, <2>8 DEF Books
  <2>10. TypeOK'
    <3>1. txsMap' \subseteq Txs /\ pool' \subseteq Txs
      BY <1>6, <1>9, <2>2
    <3>. QED
      BY <1>0, <1>3, <1>6, <1>7, <2>1, <2>7, <2>8, <3>1 DEF TypeOK, chainVars, threadVars, viewVars
  <2>11. Leaving'
    <3>1. t \notin Held[tip]
      BY <1>3, <1>9, Trying DEF Exists
    <3>. QED
      BY <1>0, <1>4, <1>9, <3>1, LeavingPool
  <2>12. Returning'
    BY <1>0, <1>4, <1>9 DEF Returning
  <2>. QED
    BY <1>5, <2>1, <2>9, <2>10, <2>11, <2>12 DEF PoolInvariant
<1>. QED
  BY <1>1, <1>2, <1>8, <1>9 DEF TryNew

-----------------------------------------------------------------------------
(* The theorems *)

LEMMA InitPool == Init => PoolInvariant
<1>. SUFFICES ASSUME Init PROVE PoolInvariant
  OBVIOUS
<1>1. <<>> \in Seq(Txs) /\ Range(<<>>) = {} /\ Once(<<>>) /\ Len(<<>>) = 0 /\ DOMAIN <<>> = {}
  BY DEF Range, Once
<1>2. 0 \in Tips
  BY ChainAssumption, EmptySeq DEF Tips
<1>3. /\ updater = [pc |-> "wait", tip |-> None, id |-> None] /\ syncer = updater
      /\ updater \in Courier /\ updater.pc = "wait" /\ updater.tip = None /\ updater.id = None
  BY DEF Init, Waiting, Courier
<1>4. /\ pooler \in [pc : {"wait", "remove", "filter", "insert"}, update : Update, txs : Seq(Txs)]
      /\ pooler.pc = "wait" /\ pooler.update.removed = <<>> /\ pooler.txs = <<>>
  <2>1. NoUpdate \in Update /\ NoUpdate.removed = <<>>
    BY <1>1 DEF NoUpdate, Update
  <2>. QED
    BY <1>1, <2>1 DEF Init, NoPool
<1>5. TypeOK
  <2>1. /\ <<>> \in Seq(Update) /\ <<>> \in Seq(Clients) /\ <<>> \in Seq([tip : Tips, txs : Seq(Txs)])
        /\ 0 \in 0..MaxErrors
    BY BoundsAssumption
  <2>2. client \in [Clients -> {"new", "waiting", "accepted", "refused"}]
    BY DEF Init
  <2>. QED
    BY <1>1, <1>2, <1>3, <1>4, <2>1, <2>2 DEF Init, TypeOK
<1>6. Books
  BY <1>1 DEF Init, Books
<1>7. Views
  BY DEF Init, Views
<1>8. Deliveries
  BY <1>1, <1>4 DEF Init, Deliveries
<1>9. Couriers
  BY <1>3 DEF Couriers, CourierOK
<1>10. Worked /\ Resulted
  BY <1>1 DEF Init, Worked, Resulted
<1>11. Leaving /\ Returning
  BY <1>1, <1>4 DEF Init, Leaving, Returning
<1>. QED
  BY <1>5, <1>6, <1>7, <1>8, <1>9, <1>10, <1>11 DEF PoolInvariant

LEMMA StutterPool == ASSUME PoolInvariant, UNCHANGED vars PROVE PoolInvariant'
<1>0. /\ TypeOK /\ Books /\ Views /\ Deliveries /\ Couriers /\ Worked /\ Resulted /\ Leaving /\ Returning
  BY DEF PoolInvariant
<1>1. UNCHANGED <<chainVars, threadVars, clientVars, results, poolVars, workVars, viewVars>>
  BY DEF vars
<1>2. TypeOK'
  BY <1>0, <1>1 DEF TypeOK, chainVars, threadVars, clientVars, poolVars, workVars, viewVars
<1>3. Books' /\ Views' /\ Deliveries' /\ Couriers'
  BY <1>0, <1>1, BooksSame, ViewsSame, DeliveriesSame, CouriersSame DEF chainVars, threadVars, workVars
<1>4. Worked' /\ Resulted' /\ Leaving' /\ Returning'
  BY <1>0, <1>1, WorkedSame, ResultedSame, LeavingSame, ReturningSame
     DEF chainVars, threadVars, workVars, poolVars
<1>. QED
  BY <1>2, <1>3, <1>4 DEF PoolInvariant

LEMMA NextPool == ASSUME PoolInvariant, [Next]_vars PROVE PoolInvariant'
<1>1. CASE AddBlocksThread
  BY <1>1, BeginAddBlocksKeeps, UpdateStoreKeeps, NotifyKeeps DEF AddBlocksThread
<1>2. CASE UpdatesThread
  BY <1>2, TakeUpdatesKeeps, UpdaterStoresResultKeeps DEF UpdatesThread
<1>3. CASE SyncThread
  BY <1>3, SyncStartsKeeps, SyncerReadsKeeps, SyncerStoresResultKeeps DEF SyncThread
<1>4. CASE MempoolUpdateThread
  BY <1>4, PoolerTakesKeeps, PoolerFiltersKeeps DEF MempoolUpdateThread
<1>5. ASSUME NEW c \in Clients, Submit(c) PROVE PoolInvariant'
  BY <1>5, SubmitKeeps
<1>6. CASE Worker
  BY <1>6, SuspendKeeps, ContinueKeeps, WorkFromUpdaterKeeps, WorkFromSyncerKeeps, RemoveTxsKeeps,
     InsertTxsKeeps, TryNextKeeps, TryNewKeeps DEF Worker
<1>7. CASE UNCHANGED vars
  BY <1>7, StutterPool
<1>. QED
  BY <1>1, <1>2, <1>3, <1>4, <1>5, <1>6, <1>7 DEF Next

LEMMA PoolAlways == Spec => []PoolInvariant
<1>1. PoolInvariant /\ [Next]_vars => PoolInvariant'
  BY NextPool
<1>. QED
  BY InitPool, <1>1, PTL DEF Spec

\* In every interleaving of the chain, the updates, the clients and the worker: the worker's list,
\* its map and the shared mempool agree, it only looks at the store of the last block, and once
\* every update is delivered the mempool holds nothing that is on the chain.
THEOREM PoolCorrect == Spec => []PoolIsSound
<1>1. PoolInvariant => PoolIsSound
  <2>. SUFFICES ASSUME PoolInvariant PROVE PoolIsSound
    OBVIOUS
  <2>1. TypeOK /\ Books /\ Views /\ Leaving
    BY DEF PoolInvariant
  <2>2. BooksAgree
    <3>1. txsList \in Seq(Txs) /\ Once(txsList) /\ Range(txsList) = txsMap
      BY <2>1 DEF TypeOK, Books
    <3>2. Len(txsList) = Cardinality(txsMap)
      BY <3>1, OnceLength
    <3>. QED
      BY <2>1, <3>2 DEF Books, BooksAgree
  <2>3. ViewIsCurrent
    BY <2>1 DEF Views, ViewIsCurrent
  <2>4. QuietIsClean
    <3>. SUFFICES ASSUME Quiet, NEW t \in pool \cap Held[tip] PROVE FALSE
      BY DEF QuietIsClean
    <3>1. chainPc = "idle" /\ updates = <<>> /\ news = <<>> /\ pooler.pc = "wait"
      BY DEF Quiet
    <3>2. ~ToQueue(t)
      BY <3>1 DEF ToQueue
    <3>3. ~Queued(t, 0) /\ ~Reported(t, 0)
      BY <3>1 DEF Queued, Reported
    <3>. QED
      BY <2>1, <3>1, <3>2, <3>3 DEF Leaving
  <2>. QED
    BY <2>1, <2>2, <2>3, <2>4 DEF PoolIsSound
<1>. QED
  BY PoolAlways, <1>1, PTL

\* What the worker hands to the forger for the current tip can be included on top of it, in that order.
THEOREM ResultsCorrect == Spec => []ResultApplies
<1>1. PoolInvariant => ResultApplies
  BY DEF PoolInvariant, Resulted, Applies, ResultApplies
<1>. QED
  BY PoolAlways, <1>1, PTL

\* Only the two threads that make work and the worker change the results, and they only add to them.
LEMMA NewResultGrows ==
  ASSUME TypeOK, NEW n, results' = NewResult(n)
  PROVE  \A r \in DOMAIN results : r \in DOMAIN results' /\ results'[r] = results[r]
<1>1. PICK new : new = [tip |-> n, txs |-> <<>>]
  OBVIOUS
<1>2. PICK T : T = [tip : Tips, txs : Seq(Txs)] \cup {new}
  OBVIOUS
<1>3. results \in Seq(T) /\ new \in T
  BY <1>2, SeqMonotonic DEF TypeOK
<1>4. /\ results' \in Seq(T) /\ Len(results') = Len(results) + 1
      /\ \A i \in 1..Len(results) : results'[i] = results[i]
  BY <1>1, <1>3, AppendProperties DEF NewResult
<1>5. /\ DOMAIN results = 1..Len(results) /\ DOMAIN results' = 1..Len(results') /\ Len(results) \in Nat
  BY <1>3, <1>4, LenProperties
<1>. QED
  BY <1>4, <1>5

LEMMA StepGrows == ASSUME PoolInvariant, Next PROVE Growing
<1>0. TypeOK /\ Books
  BY DEF PoolInvariant
<1>1. \A r \in DOMAIN results : results[r] \in [tip : Tips, txs : Seq(Txs)]
  <2>1. results \in Seq([tip : Tips, txs : Seq(Txs)])
    BY <1>0 DEF TypeOK
  <2>. QED
    BY <2>1, LenProperties, ElementOfSeq
<1>2. \A s \in Seq(Txs) : IsPrefix(s, s)
  <2>. SUFFICES ASSUME NEW s \in Seq(Txs) PROVE IsPrefix(s, s)
    OBVIOUS
  <2>1. Len(s) \in Nat /\ SubSeq(s, 1, Len(s)) = s
    BY LenProperties, SubSeqFull
  <2>. QED
    BY <2>1 DEF IsPrefix
<1>3. ASSUME \A r \in DOMAIN results : r \in DOMAIN results' /\ results'[r] = results[r] PROVE Growing
  <2>. SUFFICES ASSUME NEW r \in DOMAIN results
                PROVE  /\ r \in DOMAIN results' /\ results'[r].tip = results[r].tip
                       /\ IsPrefix(results[r].txs, results'[r].txs)
    BY DEF Growing
  <2>1. results[r].txs \in Seq(Txs)
    BY <1>1
  <2>. QED
    BY <1>2, <1>3, <2>1
<1>4. CASE results' = results
  BY <1>3, <1>4
<1>5. CASE AddBlocksThread
  BY <1>4, <1>5 DEF AddBlocksThread, BeginAddBlocks, UpdateStore, Notify
<1>6. CASE UpdatesThread
  <2>1. CASE TakeUpdates
    BY <1>4, <2>1 DEF TakeUpdates
  <2>2. CASE UpdaterStoresResult
    BY <1>0, <1>3, <2>2, NewResultGrows DEF UpdaterStoresResult
  <2>. QED
    BY <1>6, <2>1, <2>2 DEF UpdatesThread
<1>7. CASE SyncThread
  <2>1. CASE SyncStarts \/ SyncerReads
    BY <1>4, <2>1 DEF SyncStarts, SyncerReads
  <2>2. CASE SyncerStoresResult
    BY <1>0, <1>3, <2>2, NewResultGrows DEF SyncerStoresResult
  <2>. QED
    BY <1>7, <2>1, <2>2 DEF SyncThread
<1>8. CASE MempoolUpdateThread
  BY <1>4, <1>8 DEF MempoolUpdateThread, PoolerTakes, PoolerFilters
<1>9. ASSUME NEW c \in Clients, Submit(c) PROVE Growing
  BY <1>4, <1>9 DEF Submit
<1>10. CASE Suspend \/ Continue \/ WorkFromUpdater \/ WorkFromSyncer \/ RemoveTxs \/ InsertTxs
  BY <1>4, <1>10 DEF Suspend, Continue, WorkFromUpdater, WorkFromSyncer, RemoveTxs, InsertTxs
<1>11. CASE TryNext
  <2>1. PICK t : t = txsList[listIndex + 1]
    OBVIOUS
  <2>2. t \in Txs
    <3>1. txsList \in Seq(Txs) /\ listIndex \in Nat /\ listIndex < Len(txsList)
      BY <1>0, <1>11 DEF TypeOK, TryNext
    <3>2. listIndex + 1 \in 1..Len(txsList)
      BY <3>1, LenProperties
    <3>. QED
      BY <2>1, <3>1, <3>2, ElementOfSeq
  <2>3. CASE ~Exists(t) /\ Includable(t) /\ Include(t)
    <3>1. at = "inner" /\ UNCHANGED <<chainVars, work, updater, syncer>>
      BY <1>11 DEF TryNext
    <3>. QED
      BY <2>2, <2>3, <3>1, IncludeProperties
  <2>. QED
    BY <1>4, <1>11, <2>1, <2>3 DEF TryNext
<1>12. CASE TryNew
  <2>1. PICK t : t = Submits[Head(addCn)]
    OBVIOUS
  <2>2. t \in Txs
    <3>1. addCn \in Seq(Clients) /\ addCn # <<>>
      BY <1>0, <1>12 DEF TypeOK, TryNew
    <3>2. Head(addCn) \in Clients
      BY <3>1, HeadTailProperties
    <3>. QED
      BY <2>1, <3>2, ClientsAssumption
  <2>3. CASE ~Exists(t) /\ Includable(t) /\ Include(t)
    <3>1. at = "inner" /\ UNCHANGED <<chainVars, work, updater, syncer>>
      BY <1>12 DEF TryNew, threadVars
    <3>. QED
      BY <2>2, <2>3, <3>1, IncludeProperties
  <2>. QED
    BY <1>4, <1>12, <2>1, <2>3 DEF TryNew
<1>. QED
  BY <1>5, <1>6, <1>7, <1>8, <1>9, <1>10, <1>11, <1>12 DEF Next, Worker

\* The forger, which reads a result at any moment, never sees a list from which a transaction was taken.
THEOREM ResultsGrow == Spec => ResultAppendOnly
<1>1. PoolInvariant /\ [Next]_vars => [Growing]_vars
  BY StepGrows
<1>2. Spec => [][Growing]_vars
  BY PoolAlways, <1>1, PTL DEF Spec
<1>. QED
  BY <1>2, PTL DEF ResultAppendOnly, Growing

\* What InsertTxs leaves out of the transactions before the first staking one was dropped meanwhile.
Restored ==
    InsertTxs =>
        \A i \in DOMAIN pooler.update.removed :
            Range(SubSeq(pooler.update.removed, 1, i)) \cap Staking = {} =>
                pooler.update.removed[i] \in pool' \cup dropped

LEMMA StepRestores == ASSUME PoolInvariant PROVE Restored
<1>0. TypeOK /\ Books /\ Returning
  BY DEF PoolInvariant
<1>. SUFFICES ASSUME InsertTxs PROVE Restored
  BY DEF Restored
<1>1. PICK list \in Seq(Txs) : list = pooler.txs
  BY <1>0 DEF TypeOK
<1>2. pool' = pool \cup Range(Without(list, txsMap)) /\ pooler.pc = "insert" /\ txsMap = pool
  BY <1>0, <1>1 DEF InsertTxs, Missing, Books
<1>3. Range(Without(list, txsMap)) = Range(list) \ txsMap
  BY WithoutProperties
<1>4. Range(pooler.txs) \subseteq pool' /\ pool \subseteq pool'
  BY <1>1, <1>2, <1>3
<1>. QED
  BY <1>0, <1>2, <1>4 DEF Returning, Restored

\* The transactions of the highest block that a fork takes off the chain are in the mempool once the
\* thread has inserted them, except those that the worker dropped since that thread looked.
THEOREM UndoneTxsReturn == Spec => UndoneReturn
<1>1. PoolInvariant => Restored
  BY StepRestores
<1>2. Spec => [][Restored]_vars
  BY PoolAlways, <1>1, PTL
<1>. QED
  BY <1>2, PTL DEF UndoneReturn, Restored

-----------------------------------------------------------------------------
(***************************************************************************)
(* The multicast channel, one of which brings the mempool its news.  As no *)
(* cell is used twice, cell i holds the i-th datum accepted; what is left  *)
(* to say of the pointers is where they are (QueueShape).  A listener is   *)
(* level with what was given, or one behind while it is in the rest of the *)
(* copy that is being delivered to (Places).                               *)
(***************************************************************************)

\* The types of what ChannelTypeOK leaves open
Types ==
    /\ offered \in [Senders -> Data \cup {Idle}] /\ current \in Data \cup {Idle}
    /\ cloned \in BOOLEAN /\ ended \in BOOLEAN /\ crashed \in BOOLEAN
    /\ rest \in Seq(Listeners) /\ listeners \in Seq(Listeners) /\ accepted \in Seq(Data)
    /\ got \in [Listeners -> Seq(Data)] /\ began \in [Listeners -> Nat] /\ given \in Nat
    /\ closed \subseteq Listeners /\ reading \subseteq {l \in Listeners : InList(l)}

\* Where the pointers are: the cells that wait are linked, the tail is the last cell ever.
QueueShape ==
    LET n == Len(accepted)
    IN  /\ queue \in [head : Nat, tail : Nat, length : Nat, next : Seq(Nat), data : Seq(Data)]
        /\ queue.tail = n /\ queue.length = n - Taken /\ queue.data = accepted /\ Len(queue.next) = n
        /\ queue.head = IF Taken = n THEN 0 ELSE Taken + 1
        /\ \A i \in (Taken + 1)..n : queue.next[i] = IF i = n THEN 0 ELSE i + 1

\* What the second goroutine has in hand
InHand ==
    /\ Taken <= Len(accepted)
    /\ current = Idle => ~cloned
    /\ ~cloned => rest = <<>>
    /\ current # Idle => current = accepted[Taken]
    /\ cloned => given > 0

InRest(l) == \E i \in 1..Len(rest) : rest[i] = l

\* The listeners, the ones still to be delivered to, and the places of all of them
Places ==
    /\ \A i, j \in 1..Len(listeners) : listeners[i] = listeners[j] => i = j
    /\ \A i, j \in 1..Len(rest) : rest[i] = rest[j] => i = j
    /\ \A l \in Listeners : InList(l) => l \notin closed
    /\ \A l \in Listeners : InRest(l) => InList(l) \/ l \in closed
    /\ \A l \in Listeners : ~InList(l) /\ l \notin closed => got[l] = <<>>
    /\ \A l \in Listeners : InList(l) => began[l] + Len(got[l]) = IF InRest(l) THEN given - 1 ELSE given
    /\ \A l \in Listeners : began[l] + Len(got[l]) <= given

\* Each got a contiguous run.
Runs ==
    \A l \in Listeners : \A i \in 1..Len(got[l]) : got[l][i] = accepted[began[l] + i]

MulticastInvariant == Types /\ QueueShape /\ InHand /\ Places /\ Runs

-----------------------------------------------------------------------------
\* What only senders and readers do leaves the rest as it is.
LEMMA BroadcastInvariant ==
  ASSUME MulticastInvariant, NEW x \in Senders, Broadcast(x)
  PROVE  MulticastInvariant'
<1>1. Types'
  BY DEF MulticastInvariant, Broadcast, Types, InList
<1>2. QueueShape' /\ InHand'
  BY DEF MulticastInvariant, Broadcast, QueueShape, Taken, InHand
<1>3. Places' /\ Runs'
  BY DEF MulticastInvariant, Broadcast, Places, InList, InRest, Runs
<1>. QED
  BY <1>1, <1>2, <1>3 DEF MulticastInvariant

\* New data get the next cell, linked to the tail unless the list is empty.
LEMMA QueueReceiveInvariant ==
  ASSUME MulticastInvariant, NEW x \in Senders, QueueReceive(x)
  PROVE  MulticastInvariant'
<1>. DEFINE n == Len(accepted)
            y == offered[x]
<1>0. Types /\ QueueShape /\ InHand /\ Places /\ Runs
  BY DEF MulticastInvariant
<1>1. /\ y \in Data /\ accepted' = Append(accepted, y) /\ n \in Nat
      /\ offered' = [offered EXCEPT ![x] = Idle] /\ queue' = Push(queue, y)
      /\ UNCHANGED <<current, cloned, rest, listeners, closed, reading, ended, crashed, got, began, given>>
  BY <1>0 DEF QueueReceive, Types
<1>2. accepted' \in Seq(Data) /\ Len(accepted') = n + 1 /\ \A i \in 1..n : accepted'[i] = accepted[i]
  BY <1>0, <1>1 DEF Types
<1>3. Taken' = Taken /\ Taken \in Nat /\ Taken <= n
  BY <1>0, <1>1 DEF Taken, Types, InHand
<1>4. Types'
  BY <1>0, <1>1, <1>2 DEF Types, InList
<1>5. QueueShape'
  <2>. DEFINE linked == IF queue.head = 0 THEN queue.next ELSE [queue.next EXCEPT ![queue.tail] = n + 1]
  <2>1. queue.tail = n /\ queue.length = n - Taken /\ queue.data = accepted /\ queue.next \in Seq(Nat) /\ Len(queue.next) = n
    BY <1>0 DEF QueueShape
  <2>2. queue.head = (IF Taken = n THEN 0 ELSE Taken + 1) /\ (queue.head = 0 <=> Taken = n)
    BY <1>0, <1>3 DEF QueueShape
  <2>3. /\ linked \in Seq(Nat) /\ Len(linked) = n
        /\ \A i \in (Taken + 1)..n : linked[i] = i + 1
    <3>1. CASE Taken = n
      BY <1>1, <1>3, <2>1, <2>2, <3>1
    <3>2. CASE Taken # n
      <4>1. n \in 1..Len(queue.next) /\ n + 1 \in Nat
        BY <1>1, <1>3, <2>1, <3>2
      <4>2. linked = [queue.next EXCEPT ![n] = n + 1]
        BY <2>1, <2>2, <3>2
      <4>3. /\ linked \in Seq(Nat) /\ Len(linked) = n
            /\ \A i \in 1..n : linked[i] = IF i = n THEN n + 1 ELSE queue.next[i]
        BY <2>1, <4>1, <4>2, ExceptSeq
      <4>4. \A i \in (Taken + 1)..n : queue.next[i] = IF i = n THEN 0 ELSE i + 1
        BY <1>0 DEF QueueShape
      <4>5. \A i \in (Taken + 1)..n : i \in 1..n
        BY <1>1, <1>3
      <4>. HIDE DEF linked
      <4>. QED
        BY <4>3, <4>4, <4>5
    <3>. QED
      BY <3>1, <3>2
  <2>5. queue' = [head |-> IF queue.head = 0 THEN n + 1 ELSE queue.head, tail |-> n + 1,
                  length |-> queue.length + 1, next |-> Append(linked, 0), data |-> Append(accepted, y)]
    BY <1>1, <2>1 DEF Push
  <2>. HIDE DEF linked
  <2>6. Append(linked, 0) \in Seq(Nat) /\ Len(Append(linked, 0)) = n + 1
    BY <2>3
  <2>7. \A i \in (Taken + 1)..(n + 1) : Append(linked, 0)[i] = IF i = n + 1 THEN 0 ELSE i + 1
    BY <1>1, <1>3, <2>3
  <2>9. queue'.head = IF Taken = n + 1 THEN 0 ELSE Taken + 1
    BY <1>1, <1>3, <2>2, <2>5
  <2>10. queue'.head \in Nat /\ queue.length + 1 = n + 1 - Taken /\ n + 1 - Taken \in Nat
    BY <1>1, <1>3, <2>1, <2>9
  <2>11. queue' \in [head : Nat, tail : Nat, length : Nat, next : Seq(Nat), data : Seq(Data)]
    <3>1. Append(accepted, y) \in Seq(Data) /\ n + 1 \in Nat
      BY <1>1, <1>2
    <3>2. queue'.head = IF queue.head = 0 THEN n + 1 ELSE queue.head
      BY <2>5
    <3>. QED
      BY <2>5, <2>6, <2>10, <3>1, <3>2
  <2>12. /\ queue'.tail = n + 1 /\ queue'.length = n + 1 - Taken /\ queue'.data = accepted'
         /\ queue'.next = Append(linked, 0)
    BY <1>1, <2>5, <2>10
  <2>13. Len(queue'.next) = n + 1 /\ \A i \in (Taken + 1)..(n + 1) : queue'.next[i] = IF i = n + 1 THEN 0 ELSE i + 1
    BY <2>6, <2>7, <2>12
  <2>14. /\ queue'.tail = Len(accepted') /\ queue'.length = Len(accepted') - Taken' /\ queue'.data = accepted'
         /\ Len(queue'.next) = Len(accepted')
    BY <1>2, <1>3, <2>12, <2>13
  <2>15. queue'.head = IF Taken' = Len(accepted') THEN 0 ELSE Taken' + 1
    BY <1>2, <1>3, <2>9
  <2>16. \A i \in (Taken' + 1)..Len(accepted') : queue'.next[i] = IF i = Len(accepted') THEN 0 ELSE i + 1
    BY <1>2, <1>3, <2>13
  <2>. HIDE DEF n, y
  <2>. QED
    BY <2>11, <2>14, <2>15, <2>16 DEF QueueShape
<1>6. InHand'
  BY <1>0, <1>1, <1>2, <1>3 DEF InHand, Types, Taken
<1>7. Places'
  BY <1>0, <1>1 DEF Places, InList, InRest
<1>8. Runs'
  <2>1. \A l \in Listeners : /\ Len(got[l]) \in Nat /\ began[l] \in Nat
                             /\ began[l] + Len(got[l]) <= n
    BY <1>0, <1>1, <1>3 DEF Types, Places, InHand, Taken
  <2>. QED
    BY <1>0, <1>1, <1>2, <2>1 DEF Runs
<1>. QED
  BY <1>4, <1>5, <1>6, <1>7, <1>8 DEF MulticastInvariant

\* The first of the list is handed over: the head moves on, the tail stays.
LEMMA QueueSendInvariant ==
  ASSUME MulticastInvariant, QueueSend
  PROVE  MulticastInvariant'
<1>. DEFINE n == Len(accepted)
<1>0. Types /\ QueueShape /\ InHand /\ Places /\ Runs
  BY DEF MulticastInvariant
<1>1. /\ current = Idle /\ ~cloned /\ cloned' = FALSE /\ queue.head # 0
      /\ current' = queue.data[queue.head] /\ queue' = PopHead(queue)
      /\ UNCHANGED <<offered, rest, listeners, closed, reading, ended, crashed, accepted, got, began, given>>
  BY <1>0 DEF QueueSend, InHand, IsEmpty, GetHead
<1>2. Taken = given /\ n \in Nat /\ given \in Nat /\ given < n /\ queue.head = given + 1
  BY <1>0, <1>1 DEF Taken, QueueShape, InHand, Types
<1>3. current' = accepted[given + 1] /\ current' \in Data /\ current' # Idle
  BY <1>0, <1>1, <1>2, MulticastAssumption DEF QueueShape, Types, Data
<1>4. Taken' = given + 1
  BY <1>1, <1>3 DEF Taken
<1>5. Types'
  BY <1>0, <1>1, <1>3 DEF Types, InList
<1>6. QueueShape'
  <2>1. /\ queue \in [head : Nat, tail : Nat, length : Nat, next : Seq(Nat), data : Seq(Data)]
        /\ queue.tail = n /\ queue.length = n - given /\ queue.data = accepted /\ Len(queue.next) = n
        /\ \A i \in (given + 1)..n : queue.next[i] = IF i = n THEN 0 ELSE i + 1
    BY <1>0, <1>2 DEF QueueShape
  <2>2. queue.next[given + 1] = (IF given + 1 = n THEN 0 ELSE given + 2) /\ queue.next[given + 1] \in Nat
    <3>1. given + 1 \in (given + 1)..n /\ given + 1 + 1 = given + 2 /\ given + 2 \in Nat
      BY <1>2
    <3>. QED
      BY <2>1, <3>1
  <2>3. queue' = [queue EXCEPT !.head = queue.next[given + 1], !.length = n - given - 1]
    BY <1>1, <1>2, <2>1 DEF PopHead
  <2>4. \A i \in (given + 2)..n : queue.next[i] = IF i = n THEN 0 ELSE i + 1
    BY <1>2, <2>1
  <2>5. n - given - 1 = n - (given + 1) /\ given + 1 + 1 = given + 2 /\ n - given - 1 \in Nat
    BY <1>2
  <2>6. /\ queue' \in [head : Nat, tail : Nat, length : Nat, next : Seq(Nat), data : Seq(Data)]
        /\ queue'.head = queue.next[given + 1] /\ queue'.length = n - (given + 1)
        /\ queue'.tail = queue.tail /\ queue'.next = queue.next /\ queue'.data = queue.data
    BY <2>1, <2>2, <2>3, <2>5
  <2>. QED
    BY <1>1, <1>4, <2>1, <2>2, <2>4, <2>5, <2>6 DEF QueueShape
<1>7. InHand'
  BY <1>0, <1>1, <1>2, <1>3, <1>4 DEF InHand
<1>8. Places' /\ Runs'
  BY <1>0, <1>1 DEF Places, InList, InRest, Runs
<1>. QED
  BY <1>5, <1>6, <1>7, <1>8 DEF MulticastInvariant

\* The listeners are copied: all of them are level with what was given before.
LEMMA CloneListenersInvariant ==
  ASSUME MulticastInvariant, CloneListeners
  PROVE  MulticastInvariant'
<1>0. Types /\ QueueShape /\ InHand /\ Places /\ Runs
  BY DEF MulticastInvariant
<1>1. /\ current # Idle /\ ~cloned /\ cloned' = TRUE /\ rest' = listeners /\ given' = given + 1 /\ rest = <<>>
      /\ UNCHANGED <<offered, queue, current, listeners, closed, reading, ended, crashed, accepted, got, began>>
  BY <1>0 DEF CloneListeners, InHand
<1>2. Taken' = Taken /\ Taken = given + 1
  BY <1>1 DEF Taken
<1>3. Types'
  BY <1>0, <1>1 DEF Types, InList
<1>4. QueueShape'
  BY <1>0, <1>1, <1>2 DEF QueueShape
<1>7. InHand'
  <2>1. given \in Nat
    BY <1>0 DEF Types
  <2>. QED
    BY <1>0, <1>1, <1>2, <2>1 DEF InHand
<1>5. Places'
  <2>1. \A l \in Listeners : ~InRest(l)
    BY <1>1 DEF InRest
  <2>2. \A l : (InRest(l)' <=> InList(l)) /\ (InList(l)' <=> InList(l))
    BY <1>1 DEF InRest, InList
  <2>3. \A l \in Listeners : began[l] \in Nat /\ Len(got[l]) \in Nat /\ given \in Nat
    BY <1>0 DEF Types
  <2>. QED
    BY <1>0, <1>1, <2>1, <2>2, <2>3 DEF Places
<1>6. Runs'
  BY <1>0, <1>1 DEF Runs
<1>. QED
  BY <1>3, <1>4, <1>5, <1>6, <1>7 DEF MulticastInvariant

\* The first of the rest gets what is in hand, or was closed in the meantime.
LEMMA DeliverInvariant ==
  ASSUME MulticastInvariant, Deliver
  PROVE  MulticastInvariant'
<1>0. Types /\ QueueShape /\ InHand /\ Places /\ Runs
  BY DEF MulticastInvariant
<1>1. PICK l \in Listeners :
        /\ cloned /\ rest # <<>> /\ l = Head(rest) /\ l = rest[1] /\ rest' = Tail(rest)
        /\ UNCHANGED <<offered, queue, current, cloned, listeners, closed, ended, crashed, accepted, began, given>>
  BY <1>0 DEF Deliver, Types
<1>2. /\ Taken = given /\ Taken' = given /\ given \in Nat /\ given > 0 /\ given <= Len(accepted)
      /\ current # Idle /\ current \in Data /\ current = accepted[given]
  BY <1>0, <1>1 DEF Taken, InHand, Types
<1>3. /\ rest' \in Seq(Listeners) /\ Len(rest') = Len(rest) - 1
      /\ \A i \in 1..(Len(rest) - 1) : rest'[i] = rest[i + 1]
  BY <1>0, <1>1 DEF Types
<1>4. \A m : InRest(m)' <=> InRest(m) /\ m # l
  <2>1. \A i, j \in 1..Len(rest) : rest[i] = rest[j] => i = j
    BY <1>0 DEF Places
  <2>2. Len(rest) \in Nat /\ Len(rest) > 0
    BY <1>0, <1>1 DEF Types
  <2>3. ASSUME NEW m, InRest(m)' PROVE InRest(m) /\ m # l
    <3>1. PICK i \in 1..Len(rest') : rest'[i] = m
      BY <2>3 DEF InRest
    <3>2. i + 1 \in 1..Len(rest) /\ rest[i + 1] = m /\ i + 1 # 1 /\ 1 \in 1..Len(rest)
      BY <1>3, <2>2, <3>1
    <3>. QED
      BY <1>1, <2>1, <3>2 DEF InRest
  <2>4. ASSUME NEW m, InRest(m), m # l PROVE InRest(m)'
    <3>1. PICK i \in 1..Len(rest) : rest[i] = m
      BY <2>4 DEF InRest
    <3>2. i - 1 \in 1..Len(rest') /\ rest'[i - 1] = m
      BY <1>1, <1>3, <2>2, <2>4, <3>1
    <3>. QED
      BY <3>2 DEF InRest
  <2>. QED
    BY <2>3, <2>4
<1>5. InRest(l)
  BY <1>0, <1>1 DEF InRest, Types
<1>6. \A i, j \in 1..Len(rest') : rest'[i] = rest'[j] => i = j
  <2>. SUFFICES ASSUME NEW i \in 1..Len(rest'), NEW j \in 1..Len(rest'), rest'[i] = rest'[j] PROVE i = j
    OBVIOUS
  <2>1. Len(rest) \in Nat /\ i \in 1..(Len(rest) - 1) /\ j \in 1..(Len(rest) - 1)
    BY <1>0, <1>3 DEF Types
  <2>2. i + 1 \in 1..Len(rest) /\ j + 1 \in 1..Len(rest) /\ rest[i + 1] = rest[j + 1]
    BY <1>3, <2>1
  <2>3. i + 1 = j + 1
    BY <1>0, <2>2 DEF Places
  <2>. QED
    BY <2>1, <2>3
<1>7. \A m : InList(m)' <=> InList(m)
  BY <1>1 DEF InList
<1>8. InHand' /\ QueueShape'
  BY <1>0, <1>1, <1>2 DEF InHand, QueueShape
<1>9. CASE l \in reading /\ l \notin closed /\ got' = [got EXCEPT ![l] = Append(got[l], current)] /\ reading' = reading \ {l}
  <2>1. InList(l) /\ began[l] + Len(got[l]) = given - 1 /\ began[l] \in Nat /\ Len(got[l]) \in Nat
    <3>1. began[l] \in Nat /\ Len(got[l]) \in Nat /\ l \in Listeners
      BY <1>0, <1>1 DEF Types
    <3>2. InList(l)
      BY <1>0, <1>5, <1>9, <3>1 DEF Places
    <3>. QED
      BY <1>0, <1>5, <3>1, <3>2 DEF Places
  <2>2. /\ got' \in [Listeners -> Seq(Data)] /\ \A m \in Listeners : m # l => got'[m] = got[m]
        /\ Len(got'[l]) = Len(got[l]) + 1 /\ got'[l][Len(got[l]) + 1] = current
        /\ \A i \in 1..Len(got[l]) : got'[l][i] = got[l][i]
    BY <1>0, <1>1, <1>2, <1>9 DEF Types
  <2>3. Types'
    BY <1>0, <1>1, <1>3, <1>7, <1>9, <2>2 DEF Types
  <2>4. \A m \in Listeners : InList(m) =>
           began[m] + Len(got'[m]) = IF InRest(m)' THEN given - 1 ELSE given
    <3>. SUFFICES ASSUME NEW m \in Listeners, InList(m)
                  PROVE  began[m] + Len(got'[m]) = IF InRest(m)' THEN given - 1 ELSE given
      OBVIOUS
    <3>1. CASE m = l
      <4>1. ~InRest(l)'
        BY <1>4
      <4>2. began[l] + (Len(got[l]) + 1) = given
        BY <1>2, <2>1
      <4>. QED
        BY <2>2, <3>1, <4>1, <4>2
    <3>2. CASE m # l
      BY <1>0, <1>4, <2>2, <3>2 DEF Places
    <3>. QED
      BY <3>1, <3>2
  <2>5. \A m \in Listeners : began[m] + Len(got'[m]) <= given
    BY <1>0, <1>2, <2>1, <2>2 DEF Places
  <2>6. Places'
    <3>1. \A m \in Listeners : (InRest(m)' => InList(m) \/ m \in closed) /\ (InList(m) => m \notin closed)
      BY <1>0, <1>4 DEF Places
    <3>2. \A m \in Listeners : ~InList(m) /\ m \notin closed => got'[m] = <<>>
      BY <1>0, <2>1, <2>2 DEF Places
    <3>3. \A i, j \in 1..Len(listeners) : listeners[i] = listeners[j] => i = j
      BY <1>0 DEF Places
    <3>. QED
      BY <1>1, <1>6, <1>7, <2>4, <2>5, <3>1, <3>2, <3>3 DEF Places
  <2>7. Runs'
    <3>. SUFFICES ASSUME NEW m \in Listeners, NEW i \in 1..Len(got'[m])
                  PROVE  got'[m][i] = accepted[began[m] + i]
      BY <1>1 DEF Runs
    <3>1. CASE m = l /\ i = Len(got[l]) + 1
      <4>1. began[l] + i = given
        BY <1>2, <2>1, <3>1
      <4>2. got'[l][i] = current
        BY <2>2, <3>1
      <4>. QED
        BY <1>2, <3>1, <4>1, <4>2
    <3>2. CASE m = l /\ i # Len(got[l]) + 1
      <4>1. i \in 1..Len(got[l])
        BY <2>1, <2>2, <3>2
      <4>2. got'[l][i] = got[l][i] /\ got[l][i] = accepted[began[l] + i]
        BY <1>0, <1>1, <2>2, <4>1 DEF Runs
      <4>. QED
        BY <3>2, <4>2
    <3>3. CASE m # l
      BY <1>0, <2>2, <3>3 DEF Runs
    <3>. QED
      BY <3>1, <3>2, <3>3
  <2>. QED
    BY <1>8, <2>3, <2>6, <2>7 DEF MulticastInvariant
<1>10. CASE l \in closed /\ UNCHANGED <<got, reading>>
  <2>1. Types' /\ Runs'
    BY <1>0, <1>1, <1>3, <1>7, <1>10 DEF Types, Runs
  <2>2. ~InList(l)
    BY <1>0, <1>1, <1>10 DEF Places
  <2>3. Places'
    <3>1. \A m \in Listeners : (InRest(m)' => InList(m) \/ m \in closed) /\ (InList(m) => m \notin closed)
      BY <1>0, <1>4 DEF Places
    <3>2. \A m \in Listeners : InList(m) => began[m] + Len(got[m]) = IF InRest(m)' THEN given - 1 ELSE given
      BY <1>0, <1>4, <2>2 DEF Places
    <3>3. /\ \A i, j \in 1..Len(listeners) : listeners[i] = listeners[j] => i = j
          /\ \A m \in Listeners : ~InList(m) /\ m \notin closed => got[m] = <<>>
          /\ \A m \in Listeners : began[m] + Len(got[m]) <= given
      BY <1>0 DEF Places
    <3>. QED
      BY <1>1, <1>6, <1>7, <1>10, <3>1, <3>2, <3>3 DEF Places
  <2>. QED
    BY <1>8, <2>1, <2>3 DEF MulticastInvariant
<1>. QED
  BY <1>1, <1>9, <1>10 DEF Deliver

\* All of the copy was delivered to: the second goroutine waits for the next data.
LEMMA DeliveredInvariant ==
  ASSUME MulticastInvariant, Delivered
  PROVE  MulticastInvariant'
<1>0. Types /\ QueueShape /\ InHand /\ Places /\ Runs
  BY DEF MulticastInvariant
<1>1. /\ cloned /\ rest = <<>> /\ current' = Idle /\ cloned' = FALSE
      /\ UNCHANGED <<offered, queue, rest, listeners, closed, reading, ended, crashed, accepted, got, began, given>>
  BY DEF Delivered
<1>2. Taken = given /\ Taken' = given
  BY <1>1 DEF Taken
<1>3. Types'
  BY <1>0, <1>1 DEF Types, InList
<1>4. QueueShape' /\ InHand'
  BY <1>0, <1>1, <1>2 DEF QueueShape, InHand
<1>5. Places' /\ Runs'
  BY <1>0, <1>1 DEF Places, InList, InRest, Runs
<1>. QED
  BY <1>3, <1>4, <1>5 DEF MulticastInvariant

\* A new listener begins after what was given.
LEMMA AddListenerInvariant ==
  ASSUME MulticastInvariant, NEW l \in Listeners, AddListener(l)
  PROVE  MulticastInvariant'
<1>0. Types /\ QueueShape /\ InHand /\ Places /\ Runs
  BY DEF MulticastInvariant
<1>1. /\ ~InList(l) /\ l \notin closed /\ listeners' = Append(listeners, l) /\ began' = [began EXCEPT ![l] = given]
      /\ UNCHANGED <<offered, queue, current, cloned, rest, closed, reading, ended, crashed, accepted, got, given>>
  BY DEF AddListener
<1>2. /\ listeners' \in Seq(Listeners) /\ Len(listeners') = Len(listeners) + 1 /\ Len(listeners) \in Nat
      /\ listeners'[Len(listeners) + 1] = l /\ \A i \in 1..Len(listeners) : listeners'[i] = listeners[i]
  BY <1>0, <1>1 DEF Types
<1>3. \A m : InList(m)' <=> InList(m) \/ m = l
  BY <1>2 DEF InList
<1>4. \A m : InRest(m)' <=> InRest(m)
  BY <1>1 DEF InRest
<1>5. /\ began' \in [Listeners -> Nat] /\ began'[l] = given /\ given \in Nat
      /\ \A m \in Listeners : m # l => began'[m] = began[m]
  BY <1>0, <1>1 DEF Types
<1>6. Types'
  BY <1>0, <1>1, <1>2, <1>3, <1>5 DEF Types
<1>7. QueueShape' /\ InHand'
  BY <1>0, <1>1 DEF QueueShape, InHand, Taken
<1>8. got[l] = <<>> /\ ~InRest(l)
  BY <1>0, <1>1 DEF Places
<1>9. Places'
  <2>1. \A i, j \in 1..Len(listeners') : listeners'[i] = listeners'[j] => i = j
    <3>. SUFFICES ASSUME NEW i \in 1..Len(listeners'), NEW j \in 1..Len(listeners'), listeners'[i] = listeners'[j]
                  PROVE  i = j
      OBVIOUS
    <3>1. CASE i \in 1..Len(listeners) /\ j \in 1..Len(listeners)
      BY <1>0, <1>2, <3>1 DEF Places
    <3>2. CASE i = Len(listeners) + 1 \/ j = Len(listeners) + 1
      BY <1>1, <1>2, <3>2 DEF InList
    <3>. QED
      BY <1>2, <3>1, <3>2
  <2>2. \A m \in Listeners : InList(m) \/ m = l => began'[m] + Len(got[m]) = IF InRest(m) THEN given - 1 ELSE given
    <3>. SUFFICES ASSUME NEW m \in Listeners, InList(m) \/ m = l
                  PROVE  began'[m] + Len(got[m]) = IF InRest(m) THEN given - 1 ELSE given
      OBVIOUS
    <3>1. CASE m = l
      BY <1>5, <1>8, <3>1
    <3>2. CASE m # l
      BY <1>0, <1>5, <3>2 DEF Places
    <3>. QED
      BY <3>1, <3>2
  <2>3. \A m \in Listeners : began'[m] + Len(got[m]) <= given
    BY <1>0, <1>5, <1>8 DEF Places
  <2>4. /\ \A i, j \in 1..Len(rest) : rest[i] = rest[j] => i = j
        /\ \A m \in Listeners : InList(m) \/ m = l => m \notin closed
        /\ \A m \in Listeners : InRest(m) => InList(m) \/ m \in closed
        /\ \A m \in Listeners : ~InList(m) /\ m \notin closed => got[m] = <<>>
    BY <1>0, <1>1 DEF Places
  <2>. QED
    BY <1>1, <1>3, <1>4, <2>1, <2>2, <2>3, <2>4 DEF Places
<1>10. Runs'
  BY <1>0, <1>1, <1>5, <1>8 DEF Runs
<1>. QED
  BY <1>6, <1>7, <1>9, <1>10 DEF MulticastInvariant

\* A listener returns to its receive.
LEMMA ReadInvariant ==
  ASSUME MulticastInvariant, NEW l \in Listeners, Read(l)
  PROVE  MulticastInvariant'
<1>1. Types'
  BY DEF MulticastInvariant, Read, Types, InList
<1>2. QueueShape' /\ InHand'
  BY DEF MulticastInvariant, Read, QueueShape, Taken, InHand
<1>3. Places'
  BY DEF MulticastInvariant, Read, Places, InList, InRest
<1>4. Runs'
  BY DEF MulticastInvariant, Read, Runs
<1>. QED
  BY <1>1, <1>2, <1>3, <1>4 DEF MulticastInvariant

\* slices.Delete: a sequence without its k-th element.
LEMMA Deleted ==
  ASSUME NEW S, NEW s \in Seq(S), NEW k \in 1..Len(s)
  PROVE  LET t == SubSeq(s, 1, k - 1) \o SubSeq(s, k + 1, Len(s))
         IN  /\ t \in Seq(S) /\ Len(t) = Len(s) - 1
             /\ \A i \in 1..(k - 1) : t[i] = s[i]
             /\ \A i \in k..(Len(s) - 1) : t[i] = s[i + 1]
<1>. DEFINE a == SubSeq(s, 1, k - 1)
            b == SubSeq(s, k + 1, Len(s))
            t == a \o b
<1>1. Len(s) \in Nat /\ k \in Nat /\ k > 0 /\ k <= Len(s) /\ \A i \in 1..Len(s) : s[i] \in S
  OBVIOUS
<1>2. a \in Seq(S) /\ Len(a) = k - 1 /\ \A i \in 1..(k - 1) : a[i] = s[i]
  BY <1>1, SubSeqProperties
<1>3. b \in Seq(S) /\ Len(b) = Len(s) - k /\ \A i \in 1..(Len(s) - k) : b[i] = s[k + i]
  BY <1>1, SubSeqProperties
<1>. HIDE DEF a, b
<1>4. /\ t \in Seq(S) /\ Len(t) = Len(s) - 1
      /\ \A i \in 1..(Len(s) - 1) : t[i] = IF i <= k - 1 THEN a[i] ELSE b[i - (k - 1)]
  <2>1. k - 1 + (Len(s) - k) = Len(s) - 1
    BY <1>1
  <2>2. /\ t \in Seq(S) /\ Len(t) = Len(a) + Len(b)
        /\ \A i \in 1..(Len(a) + Len(b)) : t[i] = IF i <= Len(a) THEN a[i] ELSE b[i - Len(a)]
    BY <1>2, <1>3, ConcatProperties
  <2>. HIDE DEF t
  <2>. QED
    BY <1>2, <1>3, <2>1, <2>2
<1>. HIDE DEF t
<1>5. ASSUME NEW i \in 1..(k - 1) PROVE t[i] = s[i]
  BY <1>1, <1>2, <1>4
<1>6. ASSUME NEW i \in k..(Len(s) - 1) PROVE t[i] = s[i + 1]
  <2>1. i \in 1..(Len(s) - 1) /\ ~(i <= k - 1) /\ i - (k - 1) \in 1..(Len(s) - k) /\ k + (i - (k - 1)) = i + 1
    BY <1>1
  <2>. QED
    BY <1>3, <1>4, <2>1
<1>. QED
  BY <1>4, <1>5, <1>6 DEF t, a, b

\* Who listens after it: everyone but the one at the place that was cut.
LEMMA DeletedFromList ==
  ASSUME Types, Places, NEW k \in 1..Len(listeners),
         listeners' = SubSeq(listeners, 1, k - 1) \o SubSeq(listeners, k + 1, Len(listeners))
  PROVE  /\ listeners' \in Seq(Listeners)
         /\ \A i, j \in 1..Len(listeners') : listeners'[i] = listeners'[j] => i = j
         /\ \A m : InList(m)' <=> InList(m) /\ m # listeners[k]
<1>. DEFINE n == Len(listeners)
            old(i) == IF i < k THEN i ELSE i + 1
<1>1. n \in Nat /\ k \in Nat /\ k > 0 /\ k <= n /\ listeners \in Seq(Listeners)
  BY DEF Types
<1>2. /\ listeners' \in Seq(Listeners) /\ Len(listeners') = n - 1
      /\ \A i \in 1..(k - 1) : listeners'[i] = listeners[i]
      /\ \A i \in k..(n - 1) : listeners'[i] = listeners[i + 1]
  BY <1>1, Deleted
<1>. HIDE DEF n
<1>3. ASSUME NEW i \in 1..(n - 1)
      PROVE  old(i) \in 1..n /\ old(i) # k /\ listeners'[i] = listeners[old(i)]
  <2>1. CASE i < k
    <3>1. old(i) = i /\ i \in 1..(k - 1) /\ i \in 1..n
      BY <1>1, <2>1
    <3>2. old(i) # k
      BY <1>1, <2>1, <3>1
    <3>. QED
      BY <1>2, <3>1, <3>2
  <2>2. CASE ~(i < k)
    <3>1. old(i) = i + 1 /\ i \in k..(n - 1) /\ i + 1 \in 1..n /\ i + 1 # k
      BY <1>1, <2>2
    <3>. QED
      BY <1>2, <3>1
  <2>. QED
    BY <2>1, <2>2
<1>4. ASSUME NEW i \in 1..(n - 1), NEW j \in 1..(n - 1), old(i) = old(j)
      PROVE  i = j
  BY <1>1, <1>4
<1>5. ASSUME NEW i \in 1..n, i # k
      PROVE  \E j \in 1..(n - 1) : old(j) = i
  <2>1. CASE i < k
    <3>1. i \in 1..(n - 1) /\ old(i) = i
      BY <1>1, <2>1
    <3>. QED
      BY <3>1
  <2>2. CASE ~(i < k)
    <3>1. i - 1 \in 1..(n - 1) /\ ~(i - 1 < k) /\ i - 1 + 1 = i
      BY <1>1, <1>5, <2>2
    <3>. QED
      BY <3>1
  <2>. QED
    BY <2>1, <2>2
<1>. HIDE DEF old
<1>6. \A i, j \in 1..n : listeners[i] = listeners[j] => i = j
  BY DEF Places, n
<1>7. ASSUME NEW m PROVE InList(m)' <=> InList(m) /\ m # listeners[k]
  <2>1. ASSUME NEW i \in 1..(n - 1), listeners'[i] = m
        PROVE  InList(m) /\ m # listeners[k]
    <3>1. old(i) \in 1..n /\ old(i) # k /\ m = listeners[old(i)]
      BY <1>3, <2>1
    <3>2. k \in 1..n
      BY <1>1
    <3>. QED
      BY <1>6, <3>1, <3>2 DEF InList, n
  <2>2. ASSUME NEW i \in 1..n, listeners[i] = m, m # listeners[k]
        PROVE  \E j \in 1..(n - 1) : listeners'[j] = m
    BY <1>3, <1>5, <2>2
  <2>. QED
    BY <1>2, <2>1, <2>2 DEF InList, n
<1>8. ASSUME NEW i \in 1..(n - 1), NEW j \in 1..(n - 1), listeners'[i] = listeners'[j]
      PROVE  i = j
  BY <1>3, <1>4, <1>6, <1>8
<1>. QED
  BY <1>2, <1>7, <1>8

\* Whoever leaves is closed; the ones that stay keep their places.
LEMMA LeaveInvariant ==
  ASSUME MulticastInvariant, NEW left \in SUBSET Listeners, \A l \in left : InList(l),
         listeners' \in Seq(Listeners),
         \A i, j \in 1..Len(listeners') : listeners'[i] = listeners'[j] => i = j,
         \A m \in Listeners : InList(m)' <=> InList(m) /\ m \notin left,
         closed' = closed \cup left, reading' \subseteq reading \ left, ended' \in BOOLEAN,
         UNCHANGED <<offered, queue, current, cloned, rest, crashed, accepted, got, began, given>>
  PROVE  MulticastInvariant'
<1>0. Types /\ QueueShape /\ InHand /\ Places /\ Runs
  BY DEF MulticastInvariant
<1>1. Types'
  BY <1>0 DEF Types
<1>2. QueueShape' /\ InHand' /\ Runs'
  BY <1>0 DEF QueueShape, InHand, Taken, Runs
<1>3. \A m : InRest(m)' <=> InRest(m)
  BY DEF InRest
<1>4. Places'
  BY <1>0, <1>3 DEF Places
<1>. QED
  BY <1>1, <1>2, <1>4 DEF MulticastInvariant

\* A listener leaves; slices.Delete.
LEMMA RemoveChannelInvariant ==
  ASSUME MulticastInvariant, NEW l \in Listeners, RemoveChannel(l)
  PROVE  MulticastInvariant'
<1>0. Types /\ Places
  BY DEF MulticastInvariant
<1>1. PICK k \in 1..Len(listeners) :
        /\ listeners[k] = l
        /\ listeners' = SubSeq(listeners, 1, k - 1) \o SubSeq(listeners, k + 1, Len(listeners))
  BY DEF RemoveChannel
<1>2. /\ listeners' \in Seq(Listeners)
      /\ \A i, j \in 1..Len(listeners') : listeners'[i] = listeners'[j] => i = j
      /\ \A m : InList(m)' <=> InList(m) /\ m # l
  BY <1>0, <1>1, DeletedFromList
<1>3. /\ l \notin reading /\ closed' = closed \cup {l} /\ {l} \in SUBSET Listeners /\ InList(l)
      /\ UNCHANGED <<offered, queue, current, cloned, rest, reading, ended, crashed, accepted, got, began, given>>
  BY <1>1 DEF RemoveChannel, InList
<1>4. reading' \subseteq reading \ {l} /\ ended' \in BOOLEAN
  BY <1>0, <1>3 DEF Types
<1>5. \A m \in Listeners : InList(m)' <=> InList(m) /\ m \notin {l}
  BY <1>2
<1>6. \A m \in {l} : InList(m)
  BY <1>3
<1>. QED
  BY <1>2, <1>3, <1>4, <1>5, <1>6, LeaveInvariant

\* CloseAll closes every listener.
LEMMA CloseAllInvariant ==
  ASSUME MulticastInvariant, CloseAll
  PROVE  MulticastInvariant'
<1>. DEFINE left == {l \in Listeners : InList(l)}
<1>1. /\ closed' = closed \cup left /\ listeners' = <<>> /\ reading' = {} /\ ended' = TRUE
      /\ UNCHANGED <<offered, queue, current, cloned, rest, crashed, accepted, got, began, given>>
  BY DEF CloseAll
<1>2. PICK all \in SUBSET Listeners : all = left
  OBVIOUS
<1>3. \A l \in all : InList(l)
  BY <1>2
<1>4. \A m \in Listeners : InList(m)' <=> InList(m) /\ m \notin all
  BY <1>1, <1>2 DEF InList
<1>5. listeners' \in Seq(Listeners) /\ \A i, j \in 1..Len(listeners') : listeners'[i] = listeners'[j] => i = j
  BY <1>1
<1>6. reading' \subseteq reading \ all /\ ended' \in BOOLEAN /\ closed' = closed \cup all
  BY <1>1, <1>2
<1>. HIDE DEF left
<1>. QED
  BY <1>1, <1>3, <1>4, <1>5, <1>6, LeaveInvariant

\* At the start nothing waits and nobody listens.
LEMMA MulticastInit == ChannelInit => MulticastInvariant
<1>. SUFFICES ASSUME ChannelInit PROVE MulticastInvariant
  OBVIOUS
<1>1. Taken = 0 /\ Len(accepted) = 0
  BY DEF ChannelInit, Taken
<1>2. Types
  <2>1. offered \in [Senders -> Data \cup {Idle}] /\ current \in Data \cup {Idle}
    BY DEF ChannelInit
  <2>2. cloned \in BOOLEAN /\ ended \in BOOLEAN /\ crashed \in BOOLEAN
    BY DEF ChannelInit
  <2>3. /\ rest \in Seq(Listeners) /\ listeners \in Seq(Listeners) /\ accepted \in Seq(Data)
        /\ given \in Nat /\ closed \subseteq Listeners /\ reading \subseteq {l \in Listeners : InList(l)}
    BY DEF ChannelInit
  <2>4. got \in [Listeners -> Seq(Data)]
    BY DEF ChannelInit
  <2>5. began \in [Listeners -> Nat]
    BY DEF ChannelInit
  <2>. QED
    BY <2>1, <2>2, <2>3, <2>4, <2>5 DEF Types
<1>3. QueueShape
  BY <1>1 DEF ChannelInit, QueueShape, NewLinkedList
<1>4. InHand /\ Runs
  BY <1>1 DEF ChannelInit, InHand, Runs
<1>5. Places
  BY DEF ChannelInit, Places, InList, InRest
<1>. QED
  BY <1>2, <1>3, <1>4, <1>5 DEF MulticastInvariant

\* Every step keeps the invariant.
LEMMA MulticastNext == MulticastInvariant /\ [ChannelNext]_channelVars => MulticastInvariant'
<1>. SUFFICES ASSUME MulticastInvariant, [ChannelNext]_channelVars PROVE MulticastInvariant'
  OBVIOUS
<1>1. ASSUME NEW x \in Senders, Broadcast(x) \/ QueueReceive(x) PROVE MulticastInvariant'
  BY <1>1, BroadcastInvariant, QueueReceiveInvariant
<1>2. CASE Channel
  BY <1>2, QueueSendInvariant, CloneListenersInvariant, DeliverInvariant, DeliveredInvariant DEF Channel
<1>3. CASE QueuePanics \/ UNCHANGED channelVars
  <2>1. UNCHANGED <<offered, queue, current, cloned, rest, listeners, closed, reading, ended, accepted, got, began, given>>
    BY <1>3 DEF QueuePanics, channelVars
  <2>2. crashed' \in BOOLEAN
    BY <1>3 DEF QueuePanics, channelVars, MulticastInvariant, Types
  <2>3. Types'
    BY <2>1, <2>2 DEF MulticastInvariant, Types, InList
  <2>4. QueueShape' /\ InHand'
    BY <2>1 DEF MulticastInvariant, QueueShape, Taken, InHand
  <2>5. Places' /\ Runs'
    BY <2>1 DEF MulticastInvariant, Places, InList, InRest, Runs
  <2>. QED
    BY <2>3, <2>4, <2>5 DEF MulticastInvariant
<1>4. ASSUME NEW l \in Listeners, AddListener(l) \/ Read(l) \/ RemoveChannel(l) PROVE MulticastInvariant'
  BY <1>4, AddListenerInvariant, ReadInvariant, RemoveChannelInvariant
<1>5. CASE CloseAll
  BY <1>5, CloseAllInvariant
<1>. QED
  BY <1>1, <1>2, <1>3, <1>4, <1>5 DEF ChannelNext, Running

\* What a slice of a sequence holds
LEMMA Slice ==
  ASSUME NEW S, NEW s \in Seq(S), NEW b \in Nat, NEW m \in Nat, b + m <= Len(s)
  PROVE  /\ SubSeq(s, b + 1, b + m) \in Seq(S) /\ Len(SubSeq(s, b + 1, b + m)) = m
         /\ \A i \in 1..m : SubSeq(s, b + 1, b + m)[i] = s[b + i]
<1>. DEFINE run == SubSeq(s, b + 1, b + m)
<1>1. b + 1 \in Int /\ b + m \in Int /\ \A i \in (b + 1)..(b + m) : s[i] \in S
  OBVIOUS
<1>2. /\ run \in Seq(S) /\ Len(run) = (IF b + 1 <= b + m THEN b + m - (b + 1) + 1 ELSE 0)
      /\ \A i \in 1..(b + m - (b + 1) + 1) : run[i] = s[b + 1 + i - 1]
  BY <1>1, SubSeqProperties
<1>. HIDE DEF run
<1>3. b + m - (b + 1) + 1 = m /\ \A i \in 1..m : b + 1 + i - 1 = b + i
  OBVIOUS
<1>4. Len(run) = m
  BY <1>2
<1>5. \A i \in 1..m : run[i] = s[b + i]
  BY <1>2, <1>3
<1>. QED
  BY <1>2, <1>4, <1>5 DEF run

\* The invariant says what is promised: the walk from the head visits the cells one by one.
LEMMA InvariantImpliesSound == MulticastInvariant => QueueIsSound
<1>. SUFFICES ASSUME MulticastInvariant PROVE QueueIsSound
  OBVIOUS
<1>. DEFINE n == Len(accepted)
<1>0. Types /\ QueueShape /\ InHand /\ Places /\ Runs
  BY DEF MulticastInvariant
<1>1. n \in Nat /\ Taken \in Nat /\ Taken <= n /\ given \in Nat /\ given <= Taken /\ accepted \in Seq(Data)
  BY <1>0 DEF Types, InHand, Taken
<1>2. ASSUME NEW l \in Listeners
      PROVE  got[l] = SubSeq(accepted, began[l] + 1, began[l] + Len(got[l]))
  <2>. DEFINE b == began[l]
              m == Len(got[l])
              run == SubSeq(accepted, b + 1, b + m)
  <2>1. b \in Nat /\ m \in Nat /\ b + m <= n /\ got[l] \in Seq(Data)
    BY <1>0, <1>1 DEF Types, Places
  <2>3. run \in Seq(Data) /\ Len(run) = m /\ \A i \in 1..m : run[i] = accepted[b + i]
    <3>. HIDE DEF b, m
    <3>. QED
      BY <1>1, <2>1, Slice
  <2>4. \A i \in 1..m : got[l][i] = accepted[b + i]
    BY <1>0 DEF Runs
  <2>. HIDE DEF run, b
  <2>5. got[l] = run
    BY <2>1, <2>3, <2>4, SeqEqual
  <2>. QED
    BY <2>5 DEF run, b
<1>3. ChannelTypeOK
  BY <1>0, <1>1, <1>2 DEF ChannelTypeOK, Types
<1>4. QueueRepresents
  <2>. DEFINE w == n - Taken
              cell == [i \in 1..(w + 1) |-> IF i = w + 1 THEN 0 ELSE Taken + i]
  <2>1. w \in Nat /\ Len(NotTaken) = w /\ NotTaken \in Seq(Data) /\ \A i \in 1..w : NotTaken[i] = accepted[Taken + i]
    <3>1. w \in Nat /\ Taken + w = n
      BY <1>1
    <3>. HIDE DEF w
    <3>2. /\ SubSeq(accepted, Taken + 1, Taken + w) \in Seq(Data)
          /\ Len(SubSeq(accepted, Taken + 1, Taken + w)) = w
          /\ \A i \in 1..w : SubSeq(accepted, Taken + 1, Taken + w)[i] = accepted[Taken + i]
      BY <1>1, <3>1, Slice
    <3>. QED
      BY <3>1, <3>2 DEF NotTaken
  <2>2. /\ queue.length = w /\ queue.tail = n /\ queue.data = accepted /\ Len(queue.next) = n
        /\ queue.head = (IF Taken = n THEN 0 ELSE Taken + 1)
        /\ \A i \in (Taken + 1)..n : queue.next[i] = IF i = n THEN 0 ELSE i + 1
    BY <1>0 DEF QueueShape
  <2>3. cell \in [1..(w + 1) -> 1..n \cup {0}]
    BY <1>1
  <2>4. cell[1] = queue.head /\ cell[w + 1] = 0
    BY <1>1, <2>2
  <2>5. ASSUME NEW i \in 1..w
        PROVE  cell[i] # 0 /\ queue.data[cell[i]] = NotTaken[i] /\ queue.next[cell[i]] = cell[i + 1]
    <3>1. cell[i] = Taken + i /\ cell[i] # 0 /\ Taken + i \in (Taken + 1)..n
      BY <1>1
    <3>2. queue.next[cell[i]] = IF Taken + i = n THEN 0 ELSE Taken + i + 1
      BY <2>2, <3>1
    <3>3. cell[i + 1] = IF Taken + i = n THEN 0 ELSE Taken + i + 1
      BY <1>1
    <3>. QED
      BY <2>1, <2>2, <3>1, <3>2, <3>3
  <2>6. GetList(queue, NotTaken)
    <3>1. /\ cell \in [1..(Len(NotTaken) + 1) -> Cells(queue) \cup {0}]
          /\ cell[1] = queue.head /\ cell[Len(NotTaken) + 1] = 0
      BY <2>1, <2>2, <2>3, <2>4 DEF Cells
    <3>2. \A i \in 1..Len(NotTaken) : cell[i] # 0 /\ queue.data[cell[i]] = NotTaken[i] /\ queue.next[cell[i]] = cell[i + 1]
      BY <2>1, <2>5
    <3>. HIDE DEF cell, w
    <3>. QED
      BY <3>1, <3>2 DEF GetList
  <2>7. NotTaken # <<>> => queue.next[queue.tail] = 0 /\ GetTail(queue) = NotTaken[Len(NotTaken)]
    <3>. SUFFICES ASSUME NotTaken # <<>> PROVE queue.next[queue.tail] = 0 /\ GetTail(queue) = NotTaken[Len(NotTaken)]
      OBVIOUS
    <3>1. w \in 1..w /\ Taken + w = n /\ n \in (Taken + 1)..n
      BY <1>1, <2>1
    <3>. HIDE DEF w
    <3>. QED
      BY <2>1, <2>2, <3>1 DEF GetTail
  <2>. HIDE DEF w
  <2>. QED
    BY <2>1, <2>2, <2>6, <2>7 DEF QueueRepresents, Represents
<1>. QED
  BY <1>3, <1>4 DEF QueueIsSound

\* In every order of senders, receivers, comers and leavers the linked list holds exactly what
\* waits, also after it was drained with a stale tail, and every listener got a contiguous run
\* of what was accepted (runQueueBroadcast, runInternalBroadcast).
THEOREM QueueCorrect == ChannelSpec => []QueueIsSound
BY MulticastInit, MulticastNext, InvariantImpliesSound, PTL DEF ChannelSpec

-----------------------------------------------------------------------------
(* The channel implements the reliable multicast, step by step *)

\* The first state is one of the promise.
LEMMA PromiseInit == ChannelInit => Promise!Init
BY DEF ChannelInit, Promise!Init, InList

\* Every step is one of the promise, or changes nothing it speaks of.
LEMMA PromiseNext == MulticastInvariant /\ [ChannelNext]_channelVars => [Promise!Next]_(Promise!vars)
<1>. SUFFICES ASSUME MulticastInvariant, [ChannelNext]_channelVars PROVE [Promise!Next]_(Promise!vars)
  OBVIOUS
<1>. DEFINE member == {l \in Listeners : InList(l)}
            heard == [l \in Listeners |-> Len(got[l])]
<1>0. Types /\ QueueShape /\ InHand /\ Places /\ Runs
  BY DEF MulticastInvariant
<1>1. CASE ended'
  <2>1. Promise!Close
    BY <1>1 DEF Promise!Close
  <2>. QED
    BY <2>1 DEF Promise!Next
<1>2. CASE ended' = FALSE
  <2>0. ended = FALSE /\ ended' = FALSE
    BY <1>0, <1>2 DEF Types, ChannelNext, Running, Channel, Broadcast, QueueReceive, QueueSend, QueuePanics, CloneListeners, Deliver, Delivered,
                      AddListener, Read, RemoveChannel, CloseAll, channelVars
  <2>1. ASSUME UNCHANGED <<accepted, ended, listeners, began, got>> PROVE UNCHANGED Promise!vars
    BY <2>1 DEF Promise!vars, InList
  <2>2. ASSUME NEW s \in Senders, Broadcast(s) PROVE UNCHANGED Promise!vars
    BY <2>1, <2>2 DEF Broadcast
  <2>3. ASSUME NEW s \in Senders, QueueReceive(s) PROVE Promise!Next
    <3>1. offered[s] \in Data /\ accepted' = Append(accepted, offered[s]) /\ UNCHANGED <<ended, listeners, began, got>>
      BY <1>0, <2>3 DEF QueueReceive, Types
    <3>2. Promise!Send(offered[s])
      BY <2>0, <3>1 DEF Promise!Send, InList
    <3>. QED
      BY <3>1, <3>2 DEF Promise!Next
  <2>4. CASE QueueSend \/ CloneListeners \/ Delivered \/ QueuePanics \/ UNCHANGED channelVars
    BY <2>1, <2>4 DEF QueueSend, CloneListeners, Delivered, QueuePanics, channelVars
  <2>5. CASE Deliver
    <3>0. Head(rest) \in Listeners /\ 1 \in 1..Len(rest) /\ rest[1] = Head(rest)
      BY <1>0, <2>5 DEF Deliver, Types
    <3>1. PICK l \in Listeners : /\ l = Head(rest) /\ 1 \in 1..Len(rest) /\ rest[1] = l
                                 /\ UNCHANGED <<accepted, ended, listeners, began>>
      BY <2>5, <3>0 DEF Deliver
    <3>2. CASE l \in closed /\ UNCHANGED <<got, reading>>
      BY <2>1, <3>1, <3>2
    <3>3. CASE l \in reading /\ l \notin closed /\ got' = [got EXCEPT ![l] = Append(@, current)]
      <4>1. InRest(l) /\ InList(l) /\ cloned
        BY <1>0, <2>5, <3>1, <3>3 DEF Deliver, InRest, Types
      <4>2. began[l] + Len(got[l]) = given - 1 /\ given \in Nat /\ Len(accepted) \in Nat /\ given <= Len(accepted)
        BY <1>0, <3>1, <4>1 DEF Places, InHand, Taken, Types
      <4>3. current \in Data
        BY <1>0, <4>1 DEF InHand, Types
      <4>4. /\ got' \in [Listeners -> Seq(Data)] /\ Len(got'[l]) = Len(got[l]) + 1
            /\ \A m \in Listeners : m # l => got'[m] = got[m]
        BY <1>0, <3>1, <3>3, <4>3 DEF Types
      <4>5. heard' = [heard EXCEPT ![l] = @ + 1]
        BY <3>1, <4>4
      <4>6. l \in member /\ heard[l] = Len(got[l]) /\ member' = member
        BY <3>1, <4>1 DEF InList
      <4>7. began[l] + heard[l] < Len(accepted)
        BY <4>2, <4>6
      <4>. HIDE DEF heard, member
      <4>8. Promise!Hear(l)
        BY <2>0, <3>1, <4>5, <4>6, <4>7 DEF Promise!Hear, heard, member
      <4>. QED
        BY <3>1, <4>8 DEF Promise!Next
    <3>. QED
      BY <2>5, <3>1, <3>2, <3>3 DEF Deliver
  <2>6. ASSUME NEW l \in Listeners, AddListener(l) PROVE Promise!Next
    <3>1. /\ ~InList(l) /\ l \notin closed /\ listeners' = Append(listeners, l)
          /\ began' = [began EXCEPT ![l] = given] /\ UNCHANGED <<accepted, ended, got>>
      BY <2>6 DEF AddListener
    <3>2. given \in 0..Len(accepted)
      BY <1>0 DEF InHand, Taken, Types
    <3>3. heard[l] = 0
      BY <1>0, <3>1 DEF Places
    <3>4. \A m : InList(m)' <=> InList(m) \/ m = l
      <4>1. /\ listeners \in Seq(Listeners) /\ Len(listeners) \in Nat /\ Len(listeners') = Len(listeners) + 1
            /\ \A i \in 1..Len(listeners) : listeners'[i] = listeners[i]
            /\ listeners'[Len(listeners) + 1] = l
        BY <1>0, <3>1 DEF Types
      <4>2. \A i : i \in 1..(Len(listeners) + 1) <=> i \in 1..Len(listeners) \/ i = Len(listeners) + 1
        BY <4>1
      <4>. QED
        BY <4>1, <4>2 DEF InList
    <3>5. member' = member \cup {l} /\ l \notin member
      BY <3>1, <3>4
    <3>. HIDE DEF member
    <3>6. Promise!Join(l)
      BY <2>0, <3>1, <3>2, <3>3, <3>5 DEF Promise!Join, member
    <3>. QED
      BY <3>6 DEF Promise!Next
  <2>7. ASSUME NEW l \in Listeners, Read(l) PROVE UNCHANGED Promise!vars
    BY <2>1, <2>7 DEF Read
  <2>8. ASSUME NEW l \in Listeners, RemoveChannel(l) PROVE Promise!Next
    <3>1. PICK i \in 1..Len(listeners) : /\ listeners[i] = l
             /\ listeners' = SubSeq(listeners, 1, i - 1) \o SubSeq(listeners, i + 1, Len(listeners))
      BY <2>8 DEF RemoveChannel
    <3>2. \A m : InList(m)' <=> InList(m) /\ m # l
      BY <1>0, <3>1, DeletedFromList
    <3>3. InList(l)
      BY <3>1 DEF InList
    <3>4. member' = member \ {l} /\ {l} \subseteq member /\ {l} # {}
      BY <3>2, <3>3
    <3>5. UNCHANGED <<accepted, ended, began, got>>
      BY <2>8 DEF RemoveChannel
    <3>. HIDE DEF member
    <3>6. Promise!Leave({l})
      BY <2>0, <3>4, <3>5 DEF Promise!Leave, member
    <3>. QED
      BY <3>6 DEF Promise!Next
  <2>9. ~CloseAll
    BY <2>0 DEF CloseAll
  <2>. QED
    BY <2>2, <2>3, <2>4, <2>5, <2>6, <2>7, <2>8, <2>9 DEF ChannelNext, Running, Channel
<1>3. ended' \in BOOLEAN
  <2>1. MulticastInvariant'
    BY MulticastNext
  <2>. QED
    BY <2>1 DEF MulticastInvariant, Types
<1>. QED
  BY <1>1, <1>2, <1>3

\* However senders, comers, slow readers and leavers interleave, the channel does only what
\* the reliable multicast allows: what it accepts has one order, and who listens hears all of
\* it from the place where he came, without gap, repetition or exchange, until he leaves or
\* CloseAll (runQueueBroadcast, runInternalBroadcast, AddListener, RemoveChannel).
THEOREM ChannelKeepsPromise == ChannelSpec => Promise!Init /\ [][Promise!Next]_(Promise!vars)
BY PromiseInit, PromiseNext, MulticastInit, MulticastNext, PTL DEF ChannelSpec
=============================================================================
