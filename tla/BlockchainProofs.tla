-------------------------- MODULE BlockchainProofs --------------------------
(***************************************************************************)
(* Proofs about AddBlocks: for every tree of blocks, every batch and a     *)
(* crash at any step, the store holds one whole chain with its             *)
(* transactions and its state, the chain data in memory is the stored one, *)
(* only a heavier chain replaces the present one, and the update tells     *)
(* exactly what changed.                                                   *)
(*                                                                         *)
(* The invariant says of the transaction under way what the properties say *)
(* of the committed store: wr holds one chain at every step, only its      *)
(* height and the heights that wait to be cleaned change.                  *)
(***************************************************************************)
EXTENDS Blockchain, TLAPS, SequenceTheorems, FiniteSetTheorems, NaturalsInduction, WellFoundedInduction

\* The hash below a height of a store's chain.
Below(s, h) == IF h = 0 THEN Genesis ELSE s.hashAt[h - 1]

\* The difficulty summed up to a height.
DifficultyAt(s, h) == IF h = 0 THEN 0 ELSE s.info[h].difficulty

\* The state at a height of a chain of n blocks.
Recorded(s, n, h) == IF h < n THEN s.before[h] ELSE s.state

\* The blocks below n, each on top of the one below it, and none above.
Links(s, n) ==
    /\ \A h \in Heights : h < n =>
          /\ s.hashAt[h] \in Blocks /\ Header[s.hashAt[h]].height = h
          /\ Header[s.hashAt[h]].prev = Below(s, h)
          /\ s.txsAt[h] = s.hashAt[h]
    /\ \A h \in Heights : h >= n => s.hashAt[h] = None
    /\ s.byHash = StoredBlocks(s)

\* No transaction is in two blocks of the chain.
Once(s) ==
    \A g, h \in Heights :
        g # h /\ s.hashAt[g] # None /\ s.hashAt[h] # None =>
            Header[s.hashAt[g]].txs \cap Header[s.hashAt[h]].txs = {}

\* The chain data of the heights, from which a fork goes on.
Infos(s, n) ==
    \A h \in 1..n :
        /\ s.info[h] \in ChainData
        /\ s.info[h].hash = s.hashAt[h - 1] /\ s.info[h].prev = Below(s, h - 1)
        /\ s.info[h].height = h
        /\ s.info[h].difficulty = Difficulty[s.info[h].prev] + DifficultyAt(s, h - 1)

\* The states recorded, which undoing gives back.
States(s, n) ==
    /\ \A h \in 0..n : Recorded(s, n, h) \in State
    /\ Recorded(s, n, 0) = GenesisState
    /\ \A h \in 1..n : Recorded(s, n, h) = After(Recorded(s, n, h - 1), s.hashAt[h - 1])

\* A store holds one chain of n blocks.
Holds(s, n) == n \in 0..MaxHeight /\ Links(s, n) /\ Once(s) /\ Infos(s, n) /\ States(s, n)

\* Nothing is left above a height.
Clean(s, n) == \A h \in Heights : h >= n => s.txsAt[h] = None /\ s.before[h] = None

\* Chain data describes the top of a store's chain.
Describes(d, s) == d.hash = Below(s, d.height) /\ d.difficulty = DifficultyAt(s, d.height)

\* Chain data that differs at most in the number of accounts.
Same(c, d) ==
    /\ c.hash = d.hash /\ c.prev = d.prev /\ c.height = d.height /\ c.difficulty = d.difficulty
    /\ c.txCount = d.txCount /\ c.supply = d.supply /\ c.selfForged = d.selfForged

\* The store as committed.
StoreOK ==
    IF db.tip = None THEN db = [EmptyStore EXCEPT !.state = db.state] /\ db.state \in {None, GenesisState}
    ELSE /\ Holds(db, db.tip.height) /\ Clean(db, db.tip.height)
         /\ Describes(db.tip, db) /\ db.txs = ChainTxs(db)

\* The chain data in memory, at every step.
MemoryOK ==
    /\ pc = "save" => /\ db.tip = None /\ db.state = GenesisState
                      /\ chainData = [GenesisData EXCEPT !.accounts = GenesisState.accounts]
    /\ pc \in {"idle", "remove", "check", "include", "finish", "rollback"} =>
          db.tip # None /\ Same(chainData, db.tip)
    /\ pc = "publish" => db.tip # None /\ Same(new, db.tip) /\ chainData.difficulty < new.difficulty

Working == pc \in {"remove", "check", "include", "finish"}

\* The height of the chain that the transaction under way holds.
Reached == IF pc = "remove" THEN chainData.height - Len(unwound) ELSE new.height

\* The heights undone and not saved again: u lists them, from n up to the old height.
Pending(u, n, old) ==
    /\ Len(u) = (IF n < old THEN old - n ELSE 0)
    /\ \A i \in 1..Len(u) : u[i] = n + i - 1

\* The store as the transaction under way sees it.
WorkOK ==
    Working =>
        /\ Holds(wr, Reached) /\ Pending(unwound, Reached, chainData.height)
        /\ \A h \in Heights : h >= Reached /\ h >= chainData.height => wr.txsAt[h] = None /\ wr.before[h] = None
        /\ pc # "remove" => Describes(new, wr)
        /\ pc = "remove" => First.height <= Reached /\ new = chainData /\ changes.inserted = {}
        /\ pc \in {"remove", "check"} => batch # <<>>

\* Its transactions, against those of the committed store.
TxsOK ==
    Working =>
        /\ ChainTxs(wr) \ changes.inserted = ChainTxs(db) \ changes.removed
        /\ changes.inserted \subseteq ChainTxs(wr) /\ changes.removed \subseteq ChainTxs(db)
        /\ removed = changes.removed \ changes.inserted
        /\ wr.txs = ChainTxs(db) \cup changes.inserted

ChainInvariant == TypeOK /\ StoreOK /\ MemoryOK /\ WorkOK /\ TxsOK

-----------------------------------------------------------------------------
(* Chains in a store *)

\* The fields of a store, and of a block's content.
LEMMA Fields ==
  ASSUME NEW s \in Store
  PROVE  /\ s.hashAt \in [Heights -> Blocks \cup {None}] /\ s.txsAt \in [Heights -> Blocks \cup {None}]
         /\ s.byHash \in SUBSET Blocks /\ s.txs \in SUBSET Txs /\ s.txBlock \in [Txs -> Heights \cup {None}]
         /\ s.info \in [1..MaxHeight -> ChainData \cup {None}] /\ s.tip \in ChainData \cup {None}
         /\ s.state \in State \cup {None} /\ s.before \in [Heights -> State \cup {None}]
BY DEF Store

\* What a block holds.
LEMMA Contents ==
  ASSUME NEW b \in Blocks
  PROVE  /\ Header[b].prev \in Hashes /\ Header[b].height \in Heights /\ Header[b].txs \in SUBSET Txs
         /\ Header[b].reward \in Nat /\ Header[b].accounts \in Nat /\ Header[b].check \in Checks
BY HeaderAssumption

\* Heights are numbers, and no block is "none".
LEMMA HeightsAreNumbers ==
  /\ \A h : h \in Heights <=> h \in Nat /\ h < MaxHeight
  /\ MaxHeight \in Nat /\ MaxHeight # 0 /\ None \notin Blocks
BY BoundsAssumption, NamesAssumption DEF Heights, Hashes

\* A stored block is one that stands at a height.
LEMMA StoredAt ==
  ASSUME NEW s, NEW b
  PROVE  b \in StoredBlocks(s) <=> \E h \in Heights : s.hashAt[h] = b /\ b # None
BY DEF StoredBlocks

\* A stored transaction is one that a block at a height holds.
LEMMA TxAt ==
  ASSUME NEW s, NEW t
  PROVE  t \in ChainTxs(s) <=> \E h \in Heights : s.hashAt[h] # None /\ t \in Header[s.hashAt[h]].txs
BY DEF ChainTxs, StoredBlocks

\* A store that agrees with another on its chain holds it too.
LEMMA HoldsFrame ==
  ASSUME NEW s, NEW t, NEW n, Holds(s, n),
         t.hashAt = s.hashAt, t.byHash = s.byHash, t.info = s.info, t.state = s.state,
         \A h \in Heights : h < n => t.txsAt[h] = s.txsAt[h] /\ t.before[h] = s.before[h]
  PROVE  Holds(t, n) /\ ChainTxs(t) = ChainTxs(s)
<1>1. StoredBlocks(t) = StoredBlocks(s)
  BY DEF StoredBlocks
<1>2. ChainTxs(t) = ChainTxs(s)
  BY <1>1 DEF ChainTxs
<1>3. n \in 0..MaxHeight
  BY DEF Holds
<1>4. Links(t, n) /\ Once(t)
  BY <1>1 DEF Holds, Links, Once, Below
<1>5. Infos(t, n)
  BY DEF Holds, Infos, Below, DifficultyAt
<1>6. \A h \in 0..n : Recorded(t, n, h) = Recorded(s, n, h)
  BY <1>3, HeightsAreNumbers DEF Recorded
<1>7. States(t, n)
  <2>1. \A h \in 1..n : h - 1 \in 0..n /\ h \in 0..n
    BY <1>3
  <2>2. 0 \in 0..n
    BY <1>3
  <2>3. States(s, n)
    BY DEF Holds
  <2>. QED
    BY <1>6, <2>1, <2>2, <2>3 DEF States
<1>. QED
  BY <1>2, <1>3, <1>4, <1>5, <1>7 DEF Holds

\* Undoing the highest block leaves the chain below it (removeBlockComplete).
LEMMA HoldsUndone ==
  ASSUME NEW s \in Store, NEW t \in Store, NEW n \in 1..MaxHeight, Holds(s, n),
         t.hashAt = [s.hashAt EXCEPT ![n - 1] = None], t.byHash = s.byHash \ {s.hashAt[n - 1]},
         t.info = s.info, t.txsAt = s.txsAt, t.before = s.before, t.state = s.before[n - 1]
  PROVE  /\ Holds(t, n - 1)
         /\ s.hashAt[n - 1] \in Blocks /\ s.txsAt[n - 1] = s.hashAt[n - 1]
         /\ ChainTxs(t) = ChainTxs(s) \ Header[s.hashAt[n - 1]].txs
         /\ Header[s.hashAt[n - 1]].txs \subseteq ChainTxs(s)
<1>. DEFINE k == n - 1
<1>1. k \in Heights /\ k \in 0..MaxHeight /\ k < n /\ n = k + 1 /\ k \in Nat /\ n \in Nat
  BY HeightsAreNumbers
<1>2. Links(s, n) /\ Once(s) /\ Infos(s, n) /\ States(s, n)
  BY DEF Holds
<1>3. s.hashAt \in [Heights -> Blocks \cup {None}]
  BY Fields
<1>. HIDE DEF k
<1>4. /\ t.hashAt[k] = None
      /\ \A h \in Heights : h # k => t.hashAt[h] = s.hashAt[h]
  BY <1>1, <1>3 DEF k
<1>5. /\ s.hashAt[k] \in Blocks /\ s.txsAt[k] = s.hashAt[k] /\ s.hashAt[k] # None
      /\ \A h \in Heights : h # k => s.hashAt[h] # s.hashAt[k]
  BY <1>1, <1>2, HeightsAreNumbers DEF Links
<1>6. StoredBlocks(t) = StoredBlocks(s) \ {s.hashAt[k]}
  <2>1. ASSUME NEW b
        PROVE  b \in StoredBlocks(t) <=> b \in StoredBlocks(s) /\ b # s.hashAt[k]
    <3>1. b \in StoredBlocks(s) <=> \E h \in Heights : s.hashAt[h] = b /\ b # None
      BY StoredAt
    <3>2. b \in StoredBlocks(t) <=> \E h \in Heights : t.hashAt[h] = b /\ b # None
      BY StoredAt
    <3>. QED
      BY <1>1, <1>4, <1>5, <3>1, <3>2
  <2>. QED
    BY <2>1
<1>7. ChainTxs(t) = ChainTxs(s) \ Header[s.hashAt[k]].txs /\ Header[s.hashAt[k]].txs \subseteq ChainTxs(s)
  <2>1. ASSUME NEW x, x \in Header[s.hashAt[k]].txs
        PROVE  x \in ChainTxs(s) /\ x \notin ChainTxs(t)
    <3>1. x \in ChainTxs(s) <=> \E h \in Heights : s.hashAt[h] # None /\ x \in Header[s.hashAt[h]].txs
      BY TxAt
    <3>2. x \in ChainTxs(t) <=> \E h \in Heights : t.hashAt[h] # None /\ x \in Header[t.hashAt[h]].txs
      BY TxAt
    <3>. QED
      BY <1>1, <1>2, <1>4, <1>5, <2>1, <3>1, <3>2 DEF Once
  <2>2. ASSUME NEW x, x \notin Header[s.hashAt[k]].txs
        PROVE  x \in ChainTxs(s) <=> x \in ChainTxs(t)
    <3>1. x \in ChainTxs(s) <=> \E h \in Heights : s.hashAt[h] # None /\ x \in Header[s.hashAt[h]].txs
      BY TxAt
    <3>2. x \in ChainTxs(t) <=> \E h \in Heights : t.hashAt[h] # None /\ x \in Header[t.hashAt[h]].txs
      BY TxAt
    <3>. QED
      BY <1>1, <1>4, <1>5, <2>2, <3>1, <3>2
  <2>. QED
    BY <2>1, <2>2
<1>8. Links(t, k)
  <2>1. \A h \in Heights : h < k => h < n /\ h # k /\ h - 1 # k /\ (h # 0 => h - 1 \in Heights)
    BY <1>1, HeightsAreNumbers
  <2>2. \A h \in Heights : h >= k => h = k \/ h >= n
    BY <1>1, HeightsAreNumbers
  <2>3. \A h \in Heights : h < k => Below(t, h) = Below(s, h)
    BY <1>4, <2>1 DEF Below
  <2>4. t.byHash = StoredBlocks(t)
    BY <1>2, <1>6 DEF Links, k
  <2>. QED
    BY <1>2, <1>4, <2>1, <2>2, <2>3, <2>4 DEF Links
<1>9. Once(t)
  BY <1>2, <1>4 DEF Once
<1>10. Infos(t, k)
  <2>1. \A h \in 1..k : h \in 1..n /\ h - 1 \in Heights /\ h - 1 # k
    BY <1>1, HeightsAreNumbers
  <2>2. \A h \in 1..k : Below(t, h - 1) = Below(s, h - 1)
    <3>1. \A h \in 1..k : h - 1 # 0 => (h - 1) - 1 \in Heights /\ (h - 1) - 1 # k
      BY <1>1, HeightsAreNumbers
    <3>. QED
      BY <1>4, <3>1 DEF Below
  <2>. QED
    BY <1>2, <1>4, <2>1, <2>2 DEF Infos, DifficultyAt
<1>11. States(t, k)
  <2>1. \A h \in 0..k : Recorded(t, k, h) = Recorded(s, n, h)
    BY <1>1 DEF Recorded, k
  <2>2. \A h \in 0..k : h \in 0..n
    BY <1>1
  <2>3. \A h \in 1..k : h \in 1..n /\ h \in 0..k /\ h - 1 \in 0..k /\ h - 1 \in Heights /\ h - 1 # k
    BY <1>1, HeightsAreNumbers
  <2>4. 0 \in 0..k
    BY <1>1
  <2>. QED
    BY <1>2, <1>4, <2>1, <2>2, <2>3, <2>4 DEF States
<1>. QED
  BY <1>1, <1>5, <1>7, <1>8, <1>9, <1>10, <1>11 DEF Holds, k

\* A block b, described by d, is saved on top of the n blocks of a store (saveBlockComplete,
\* saveBlockchainInfo).
Grows(s, t, n, b, d) ==
    /\ Header[b].height = n /\ Header[b].prev = Below(s, n) /\ Header[b].txs \cap ChainTxs(s) = {}
    /\ t.hashAt = [s.hashAt EXCEPT ![n] = b] /\ t.txsAt = [s.txsAt EXCEPT ![n] = b]
    /\ t.byHash = s.byHash \cup {b} /\ t.before = [s.before EXCEPT ![n] = s.state]
    /\ t.state = After(s.state, b) /\ t.info = [s.info EXCEPT ![n + 1] = d]
    /\ d.hash = b /\ d.prev = Below(s, n) /\ d.height = n + 1
    /\ d.difficulty = DifficultyAt(s, n) + Difficulty[Below(s, n)]

\* The store then holds a chain of one block more.
LEMMA HoldsExtended ==
  ASSUME NEW s \in Store, NEW t \in Store, NEW n \in Heights, NEW b \in Blocks, NEW d \in ChainData,
         Holds(s, n), Grows(s, t, n, b, d)
  PROVE  Holds(t, n + 1) /\ ChainTxs(t) = ChainTxs(s) \cup Header[b].txs
<1>. USE DEF Grows
<1>1. n \in Nat /\ n + 1 \in 1..MaxHeight /\ n + 1 \in 0..MaxHeight /\ n < n + 1
  BY HeightsAreNumbers
<1>2. Links(s, n) /\ Once(s) /\ Infos(s, n) /\ States(s, n)
  BY DEF Holds
<1>3. /\ t.hashAt[n] = b /\ t.txsAt[n] = b /\ t.before[n] = s.state /\ t.info[n + 1] = d
      /\ \A h \in Heights : h # n => /\ t.hashAt[h] = s.hashAt[h] /\ t.txsAt[h] = s.txsAt[h]
                                     /\ t.before[h] = s.before[h]
      /\ \A h \in 1..MaxHeight : h # n + 1 => t.info[h] = s.info[h]
  <2>1. /\ s.hashAt \in [Heights -> Blocks \cup {None}] /\ s.txsAt \in [Heights -> Blocks \cup {None}]
        /\ s.info \in [1..MaxHeight -> ChainData \cup {None}] /\ s.before \in [Heights -> State \cup {None}]
    BY Fields
  <2>. QED
    BY <1>1, <2>1
<1>4. s.hashAt[n] = None /\ b # None
  BY <1>1, <1>2, HeightsAreNumbers DEF Links
<1>5. StoredBlocks(t) = StoredBlocks(s) \cup {b}
  <2>1. ASSUME NEW c
        PROVE  c \in StoredBlocks(t) <=> c \in StoredBlocks(s) \/ c = b
    <3>1. c \in StoredBlocks(s) <=> \E h \in Heights : s.hashAt[h] = c /\ c # None
      BY StoredAt
    <3>2. c \in StoredBlocks(t) <=> \E h \in Heights : t.hashAt[h] = c /\ c # None
      BY StoredAt
    <3>. QED
      BY <1>3, <1>4, <3>1, <3>2
  <2>. QED
    BY <2>1
<1>6. ChainTxs(t) = ChainTxs(s) \cup Header[b].txs
  <2>1. ASSUME NEW x
        PROVE  x \in ChainTxs(t) <=> x \in ChainTxs(s) \/ x \in Header[b].txs
    <3>1. x \in ChainTxs(s) <=> \E h \in Heights : s.hashAt[h] # None /\ x \in Header[s.hashAt[h]].txs
      BY TxAt
    <3>2. x \in ChainTxs(t) <=> \E h \in Heights : t.hashAt[h] # None /\ x \in Header[t.hashAt[h]].txs
      BY TxAt
    <3>. QED
      BY <1>3, <1>4, <3>1, <3>2
  <2>. QED
    BY <2>1
<1>7. Links(t, n + 1)
  <2>1. \A h \in Heights : h < n + 1 => h = n \/ (h < n /\ h # n)
    BY <1>1, HeightsAreNumbers
  <2>2. \A h \in Heights : h >= n + 1 => h >= n /\ h # n
    BY <1>1, HeightsAreNumbers
  <2>3. \A h \in Heights : h < n + 1 => Below(t, h) = Below(s, h)
    <3>1. \A h \in Heights : h < n + 1 /\ h # 0 => h - 1 \in Heights /\ h - 1 # n
      BY <1>1, HeightsAreNumbers
    <3>. QED
      BY <1>3, <3>1 DEF Below
  <2>4. t.byHash = StoredBlocks(t)
    BY <1>2, <1>5 DEF Links
  <2>. QED
    BY <1>1, <1>2, <1>3, <2>1, <2>2, <2>3, <2>4 DEF Links
<1>8. Once(t)
  <2>. SUFFICES ASSUME NEW g \in Heights, NEW h \in Heights, g # h, t.hashAt[g] # None, t.hashAt[h] # None
                PROVE  Header[t.hashAt[g]].txs \cap Header[t.hashAt[h]].txs = {}
    BY DEF Once
  <2>1. ASSUME NEW k \in Heights, k # n, t.hashAt[k] # None
        PROVE  Header[b].txs \cap Header[t.hashAt[k]].txs = {}
    <3>1. \A x \in Header[s.hashAt[k]].txs : x \in ChainTxs(s)
      BY <1>3, <2>1, TxAt
    <3>. QED
      BY <1>3, <2>1, <3>1
  <2>2. CASE g = n
    BY <1>3, <2>1, <2>2
  <2>3. CASE h = n
    BY <1>3, <2>1, <2>3
  <2>4. CASE g # n /\ h # n
    BY <1>2, <1>3, <2>4 DEF Once
  <2>. QED
    BY <2>2, <2>3, <2>4
<1>9. Infos(t, n + 1)
  <2>1. \A h \in 1..(n + 1) : Below(t, h - 1) = Below(s, h - 1) /\ DifficultyAt(t, h - 1) = DifficultyAt(s, h - 1)
    <3>1. \A h \in 1..(n + 1) : h - 1 # 0 => /\ (h - 1) - 1 \in Heights /\ (h - 1) - 1 # n
                                             /\ h - 1 \in 1..MaxHeight /\ h - 1 # n + 1
      BY <1>1, HeightsAreNumbers
    <3>. QED
      BY <1>3, <3>1 DEF Below, DifficultyAt
  <2>2. \A h \in 1..n : /\ h \in 1..(n + 1) /\ h \in 1..MaxHeight /\ h # n + 1
                        /\ h - 1 \in Heights /\ h - 1 # n
    BY <1>1, HeightsAreNumbers
  <2>3. ASSUME NEW h \in 1..n
        PROVE  /\ t.info[h] \in ChainData
               /\ t.info[h].hash = t.hashAt[h - 1] /\ t.info[h].prev = Below(t, h - 1) /\ t.info[h].height = h
               /\ t.info[h].difficulty = Difficulty[t.info[h].prev] + DifficultyAt(t, h - 1)
    BY <1>2, <1>3, <2>1, <2>2 DEF Infos
  <2>4. /\ t.info[n + 1] \in ChainData
        /\ t.info[n + 1].hash = t.hashAt[(n + 1) - 1] /\ t.info[n + 1].prev = Below(t, (n + 1) - 1)
        /\ t.info[n + 1].height = n + 1
        /\ t.info[n + 1].difficulty = Difficulty[t.info[n + 1].prev] + DifficultyAt(t, (n + 1) - 1)
    <3>1. (n + 1) - 1 = n /\ n + 1 \in 1..(n + 1)
      BY <1>1
    <3>2. Below(t, n) = Below(s, n) /\ DifficultyAt(t, n) = DifficultyAt(s, n)
      BY <2>1, <3>1
    <3>3. DifficultyAt(s, n) \in Nat
      <4>1. n # 0 => n \in 1..n
        BY <1>1
      <4>. QED
        BY <1>2, <4>1 DEF DifficultyAt, Infos, ChainData
    <3>4. Difficulty[Below(s, n)] \in Nat
      BY Contents, DifficultyAssumption
    <3>. QED
      BY <1>3, <3>1, <3>2, <3>3, <3>4
  <2>5. \A h \in 1..(n + 1) : h \in 1..n \/ h = n + 1
    BY <1>1
  <2>. QED
    BY <2>3, <2>4, <2>5 DEF Infos
<1>10. States(t, n + 1)
  <2>1. \A h \in 0..n : Recorded(t, n + 1, h) = Recorded(s, n, h)
    <3>1. \A h \in 0..n : h < n + 1 /\ (h < n => h \in Heights /\ h # n) /\ (~(h < n) => h = n)
      BY <1>1, HeightsAreNumbers
    <3>. QED
      BY <1>3, <3>1 DEF Recorded
  <2>2. Recorded(t, n + 1, n + 1) = After(s.state, b)
    BY <1>1 DEF Recorded
  <2>3. Recorded(s, n, n) = s.state /\ n \in 0..n
    BY <1>1 DEF Recorded
  <2>4. s.state \in State
    BY <1>2, <2>3 DEF States
  <2>5. After(s.state, b) \in State
    BY <2>4, Contents DEF After, State
  <2>6. \A h \in 0..(n + 1) : h \in 0..n \/ h = n + 1
    BY <1>1
  <2>7. \A h \in 0..(n + 1) : Recorded(t, n + 1, h) \in State
    BY <1>2, <2>1, <2>2, <2>5, <2>6 DEF States
  <2>8. Recorded(t, n + 1, 0) = GenesisState
    BY <1>1, <1>2, <2>1 DEF States
  <2>9. ASSUME NEW h \in 1..(n + 1)
        PROVE  Recorded(t, n + 1, h) = After(Recorded(t, n + 1, h - 1), t.hashAt[h - 1])
    <3>1. CASE h = n + 1
      <4>1. h - 1 = n
        BY <1>1, <3>1
      <4>. QED
        BY <1>3, <2>1, <2>2, <2>3, <3>1, <4>1
    <3>2. CASE h # n + 1
      <4>1. h \in 1..n /\ h \in 0..n /\ h - 1 \in 0..n /\ h - 1 \in Heights /\ h - 1 # n
        BY <1>1, <3>2, HeightsAreNumbers
      <4>. QED
        BY <1>2, <1>3, <2>1, <4>1 DEF States
    <3>. QED
      BY <3>1, <3>2
  <2>. QED
    BY <2>7, <2>8, <2>9 DEF States
<1>. QED
  BY <1>1, <1>6, <1>7, <1>8, <1>9, <1>10 DEF Holds

-----------------------------------------------------------------------------
(* The records that AddBlocks builds *)

\* A store that has never been written, the chain data of the genesis and an update without changes.
LEMMA Empties ==
  /\ EmptyStore \in Store /\ EmptyStore.tip = None /\ EmptyStore.state = None
  /\ GenesisData \in ChainData /\ NoChanges \in TxChanges
<1>1. EmptyStore \in Store
  BY DEF EmptyStore, Store
<1>2. EmptyStore.tip = None /\ EmptyStore.state = None
  BY DEF EmptyStore
<1>3. GenesisData \in ChainData
  BY BoundsAssumption DEF GenesisData, ChainData, Hashes
<1>4. NoChanges \in TxChanges
  BY DEF NoChanges, TxChanges
<1>. QED
  BY <1>1, <1>2, <1>3, <1>4

\* The store once the block of a height is undone (removeBlockComplete).
Undone(s, h) == [s EXCEPT !.state = s.before[h], !.byHash = @ \ {s.hashAt[h]}, !.hashAt[h] = None]

\* It is a store, with these fields.
LEMMA UndoneStore ==
  ASSUME NEW s \in Store, NEW h \in Heights
  PROVE  /\ Undone(s, h) \in Store
         /\ Undone(s, h).hashAt = [s.hashAt EXCEPT ![h] = None]
         /\ Undone(s, h).byHash = s.byHash \ {s.hashAt[h]}
         /\ Undone(s, h).state = s.before[h] /\ Undone(s, h).txs = s.txs
         /\ Undone(s, h).info = s.info /\ Undone(s, h).txsAt = s.txsAt /\ Undone(s, h).before = s.before
<1>1. /\ s.hashAt \in [Heights -> Blocks \cup {None}] /\ s.byHash \in SUBSET Blocks
      /\ s.before \in [Heights -> State \cup {None}]
  BY Fields
<1>2. /\ [s.hashAt EXCEPT ![h] = None] \in [Heights -> Blocks \cup {None}]
      /\ s.byHash \ {s.hashAt[h]} \in SUBSET Blocks /\ s.before[h] \in State \cup {None}
  BY <1>1
<1>3. Undone(s, h) \in Store
  BY <1>2 DEF Store, Undone
<1>. QED
  BY <1>3 DEF Store, Undone

\* The state after a block, and the chain data that describes it (includeBlockComplete).
LEMMA ExtendedData ==
  ASSUME TypeOK, wr.state \in State, NEW b \in Blocks, new.height \in Heights
  PROVE  /\ After(wr.state, b) \in State /\ Extended(b) \in ChainData
         /\ Extended(b).hash = b /\ Extended(b).prev = new.hash /\ Extended(b).height = new.height + 1
         /\ Extended(b).difficulty = new.difficulty + Difficulty[new.hash]
<1>1. After(wr.state, b) \in State
  BY Contents DEF After, State
<1>2. new \in ChainData /\ new.hash \in Hashes /\ new.difficulty \in Nat /\ Difficulty[new.hash] \in Nat
  BY DifficultyAssumption DEF TypeOK, ChainData
<1>3. new.height + 1 \in 0..MaxHeight /\ b \in Hashes
  BY HeightsAreNumbers DEF Hashes
<1>4. new.txCount + Cardinality(Header[b].txs) \in Nat
  <2>1. Header[b].txs \in SUBSET Txs
    BY Contents
  <2>2. IsFiniteSet(Header[b].txs)
    BY <2>1, BoundsAssumption, FS_Subset
  <2>3. Cardinality(Header[b].txs) \in Nat
    BY <2>2, FS_CardinalityType
  <2>. QED
    BY <1>2, <2>3 DEF ChainData
<1>5. wr.state.supply + Header[b].reward \in Nat
  BY Contents DEF State
<1>6. new.difficulty + Difficulty[new.hash] \in Nat /\ new.accounts \in Nat /\ new.selfForged \in Nat
  BY <1>2 DEF ChainData
<1>. QED
  BY <1>1, <1>2, <1>3, <1>4, <1>5, <1>6 DEF Extended, ChainData

\* The store once a block is saved (saveBlockComplete, saveBlockchainInfo).
LEMMA SavedStore ==
  ASSUME TypeOK, wr.state \in State, NEW b \in Blocks, Header[b].height = new.height
  PROVE  /\ Saved(b) \in Store
         /\ Saved(b).hashAt = [wr.hashAt EXCEPT ![new.height] = b]
         /\ Saved(b).txsAt = [wr.txsAt EXCEPT ![new.height] = b]
         /\ Saved(b).byHash = wr.byHash \cup {b} /\ Saved(b).state = After(wr.state, b)
         /\ Saved(b).before = [wr.before EXCEPT ![new.height] = wr.state]
         /\ Saved(b).txs = wr.txs \cup (Header[b].txs \ removed)
         /\ Saved(b).info = [wr.info EXCEPT ![new.height + 1] = Extended(b)]
<1>. DEFINE n == new.height
            s == wr
            fresh == Header[b].txs \ removed
            d == Extended(b)
            a == After(wr.state, b)
<1>1. n \in Heights /\ n + 1 \in 1..MaxHeight
  BY Contents, HeightsAreNumbers
<1>2. s \in Store /\ d \in ChainData /\ fresh \in SUBSET Txs /\ a \in State
  BY <1>1, Contents, ExtendedData DEF TypeOK
<1>3. Saved(b) = [s EXCEPT !.state = a, !.before[n] = s.state, !.byHash = @ \cup {b}, !.hashAt[n] = b,
                           !.txsAt[n] = b, !.txs = @ \cup fresh,
                           !.txBlock = [t \in Txs |-> IF t \in fresh THEN n ELSE @[t]],
                           !.info[n + 1] = d]
  BY DEF Saved
<1>. HIDE DEF n, s, fresh, d, a
<1>4. /\ s.hashAt \in [Heights -> Blocks \cup {None}] /\ s.txsAt \in [Heights -> Blocks \cup {None}]
      /\ s.byHash \in SUBSET Blocks /\ s.txs \in SUBSET Txs /\ s.txBlock \in [Txs -> Heights \cup {None}]
      /\ s.info \in [1..MaxHeight -> ChainData \cup {None}] /\ s.tip \in ChainData \cup {None}
      /\ s.state \in State \cup {None} /\ s.before \in [Heights -> State \cup {None}]
  BY <1>2, Fields
<1>5. /\ [s.hashAt EXCEPT ![n] = b] \in [Heights -> Blocks \cup {None}]
      /\ [s.txsAt EXCEPT ![n] = b] \in [Heights -> Blocks \cup {None}]
      /\ s.byHash \cup {b} \in SUBSET Blocks /\ s.txs \cup fresh \in SUBSET Txs
  BY <1>1, <1>2, <1>4
<1>6. /\ [t \in Txs |-> IF t \in fresh THEN n ELSE s.txBlock[t]] \in [Txs -> Heights \cup {None}]
      /\ [s.info EXCEPT ![n + 1] = d] \in [1..MaxHeight -> ChainData \cup {None}]
      /\ [s.before EXCEPT ![n] = s.state] \in [Heights -> State \cup {None}]
  BY <1>1, <1>2, <1>4
<1>7. Saved(b) = [s EXCEPT !.state = a, !.before = [s.before EXCEPT ![n] = s.state], !.byHash = s.byHash \cup {b},
                           !.hashAt = [s.hashAt EXCEPT ![n] = b], !.txsAt = [s.txsAt EXCEPT ![n] = b],
                           !.txs = s.txs \cup fresh,
                           !.txBlock = [t \in Txs |-> IF t \in fresh THEN n ELSE s.txBlock[t]],
                           !.info = [s.info EXCEPT ![n + 1] = d]]
  BY <1>2, <1>3 DEF Store
<1>8. PICK hashes, lists, hashed, kept, places, infos, befores :
         /\ hashes = [s.hashAt EXCEPT ![n] = b] /\ lists = [s.txsAt EXCEPT ![n] = b]
         /\ hashed = s.byHash \cup {b} /\ kept = s.txs \cup fresh
         /\ places = [t \in Txs |-> IF t \in fresh THEN n ELSE s.txBlock[t]]
         /\ infos = [s.info EXCEPT ![n + 1] = d] /\ befores = [s.before EXCEPT ![n] = s.state]
  OBVIOUS
<1>9. Saved(b) = [s EXCEPT !.state = a, !.before = befores, !.byHash = hashed, !.hashAt = hashes, !.txsAt = lists,
                           !.txs = kept, !.txBlock = places, !.info = infos]
  BY <1>7, <1>8
<1>10. /\ hashes \in [Heights -> Blocks \cup {None}] /\ lists \in [Heights -> Blocks \cup {None}]
       /\ hashed \in SUBSET Blocks /\ kept \in SUBSET Txs /\ places \in [Txs -> Heights \cup {None}]
       /\ infos \in [1..MaxHeight -> ChainData \cup {None}] /\ befores \in [Heights -> State \cup {None}]
  BY <1>5, <1>6, <1>8
<1>11. Saved(b) = [hashAt |-> hashes, txsAt |-> lists, byHash |-> hashed, txs |-> kept, txBlock |-> places,
                   info |-> infos, tip |-> s.tip, state |-> a, before |-> befores]
  BY <1>2, <1>9 DEF Store
<1>12. /\ Saved(b).hashAt = hashes /\ Saved(b).txsAt = lists
       /\ Saved(b).byHash = hashed /\ Saved(b).state = a /\ Saved(b).before = befores
       /\ Saved(b).txs = kept /\ Saved(b).info = infos
  BY <1>11
<1>13. Saved(b) \in Store
  <2>1. a \in State \cup {None} /\ s.tip \in ChainData \cup {None}
    BY <1>2, <1>4
  <2>. QED
    BY <1>10, <1>11, <2>1 DEF Store
<1>. QED
  BY <1>8, <1>12, <1>13 DEF n, s, fresh, d, a

\* The store that is committed: the heights undone and not saved again are cleared
\* (deleteUnusedBlocksComplete), and the transactions the new chain does not hold are deleted.
LEMMA FinalStore ==
  ASSUME TypeOK, NEW data \in ChainData
  PROVE  /\ Final(data) \in Store /\ Final(data).tip = data
         /\ Final(data).byHash = wr.byHash /\ Final(data).state = wr.state /\ Final(data).info = wr.info
         /\ Final(data).txs = wr.txs \ Removed
         /\ \A h \in Heights :
               IF \E i \in DOMAIN unwound : unwound[i] = h
               THEN Final(data).hashAt[h] = None /\ Final(data).txsAt[h] = None /\ Final(data).before[h] = None
               ELSE /\ Final(data).hashAt[h] = wr.hashAt[h] /\ Final(data).txsAt[h] = wr.txsAt[h]
                    /\ Final(data).before[h] = wr.before[h]
<1>. DEFINE s == wr
            R == Removed
            unused == {unwound[i] : i \in DOMAIN unwound}
            Clear(f) == [h \in Heights |-> IF h \in unused THEN None ELSE f[h]]
            drop == [t \in Txs |-> IF t \in R THEN None ELSE s.txBlock[t]]
<1>1. s \in Store
  BY DEF TypeOK
<1>2. Final(data) = [s EXCEPT !.tip = data, !.before = Clear(s.before), !.hashAt = Clear(s.hashAt),
                              !.txsAt = Clear(s.txsAt), !.txs = s.txs \ R, !.txBlock = drop]
  BY <1>1 DEF Final, Store
<1>3. \A h : h \in unused <=> \E i \in DOMAIN unwound : unwound[i] = h
  OBVIOUS
<1>. HIDE DEF s, R, unused
<1>4. /\ s.hashAt \in [Heights -> Blocks \cup {None}] /\ s.txsAt \in [Heights -> Blocks \cup {None}]
      /\ s.byHash \in SUBSET Blocks /\ s.txs \in SUBSET Txs /\ s.txBlock \in [Txs -> Heights \cup {None}]
      /\ s.info \in [1..MaxHeight -> ChainData \cup {None}]
      /\ s.state \in State \cup {None} /\ s.before \in [Heights -> State \cup {None}]
  BY <1>1, Fields
<1>5. /\ Clear(s.hashAt) \in [Heights -> Blocks \cup {None}] /\ Clear(s.txsAt) \in [Heights -> Blocks \cup {None}]
      /\ Clear(s.before) \in [Heights -> State \cup {None}]
      /\ s.txs \ R \in SUBSET Txs /\ drop \in [Txs -> Heights \cup {None}]
  BY <1>4
<1>6. \A h \in Heights :
         IF h \in unused
         THEN Clear(s.hashAt)[h] = None /\ Clear(s.txsAt)[h] = None /\ Clear(s.before)[h] = None
         ELSE /\ Clear(s.hashAt)[h] = s.hashAt[h] /\ Clear(s.txsAt)[h] = s.txsAt[h]
              /\ Clear(s.before)[h] = s.before[h]
  OBVIOUS
<1>. HIDE DEF Clear, drop
<1>7. Final(data) = [hashAt |-> Clear(s.hashAt), txsAt |-> Clear(s.txsAt), byHash |-> s.byHash, txs |-> s.txs \ R,
                     txBlock |-> drop, info |-> s.info, tip |-> data, state |-> s.state,
                     before |-> Clear(s.before)]
  BY <1>1, <1>2 DEF Store
<1>8. /\ Final(data).tip = data /\ Final(data).byHash = s.byHash /\ Final(data).state = s.state
      /\ Final(data).info = s.info /\ Final(data).txs = s.txs \ R
      /\ Final(data).hashAt = Clear(s.hashAt) /\ Final(data).txsAt = Clear(s.txsAt)
      /\ Final(data).before = Clear(s.before)
  BY <1>7
<1>11. Final(data) \in Store
  BY <1>4, <1>5, <1>7 DEF Store
<1>9. /\ Final(data).byHash = wr.byHash /\ Final(data).state = wr.state /\ Final(data).info = wr.info
      /\ Final(data).txs = wr.txs \ Removed
  BY <1>8 DEF s, R
<1>10. \A h \in Heights :
         IF \E i \in DOMAIN unwound : unwound[i] = h
         THEN Final(data).hashAt[h] = None /\ Final(data).txsAt[h] = None /\ Final(data).before[h] = None
         ELSE /\ Final(data).hashAt[h] = wr.hashAt[h] /\ Final(data).txsAt[h] = wr.txsAt[h]
              /\ Final(data).before[h] = wr.before[h]
  BY <1>3, <1>6, <1>8 DEF s
<1>. QED
  BY <1>8, <1>9, <1>10, <1>11

\* A set of numbers that has a member has a smallest one.
LEMMA SmallestNumber ==
  ASSUME NEW S \in SUBSET Nat, S # {}
  PROVE  \E x \in S : \A y \in S : x <= y
<1>1. PICK x \in S : \A y \in S : ~(<<y, x>> \in OpToRel(<, Nat))
  BY NatLessThanWellFounded, WFMin
<1>2. \A y \in S : ~(y < x)
  BY <1>1 DEF OpToRel
<1>. QED
  BY <1>2

\* Dropping the blocks that are stored leaves blocks of the batch.
LEMMA FilterType ==
  ASSUME NEW blocks \in Seq(Blocks)
  PROVE  FilterExisting(blocks) \in Seq(Blocks)
<1>1. CASE \E i \in DOMAIN blocks : Known(blocks[i])
  <2>. DEFINE K(i) == Known(blocks[i])
              L == Len(blocks)
              S == {k \in Nat : L - k \in DOMAIN blocks /\ K(L - k)}
              Last(i) == K(i) /\ \A j \in DOMAIN blocks : K(j) => j <= i
              last == CHOOSE i \in DOMAIN blocks : Last(i)
  <2>1. L \in Nat /\ DOMAIN blocks = 1..L /\ \A i \in 1..L : blocks[i] \in Blocks
    OBVIOUS
  <2>2. FilterExisting(blocks) = SubSeq(blocks, last + 1, L)
    BY <1>1 DEF FilterExisting
  <2>3. \E i \in DOMAIN blocks : K(i)
    BY <1>1
  <2>. HIDE DEF K, L
  <2>4. PICK i \in 1..L : K(i)
    BY <2>1, <2>3
  <2>5. L - i \in S
    <3>1. L - i \in Nat /\ L - (L - i) = i
      BY <2>1, <2>4
    <3>. QED
      BY <2>1, <2>4, <3>1
  <2>6. S \in SUBSET Nat /\ S # {}
    BY <2>5
  <2>7. PICK k \in S : \A y \in S : k <= y
    BY <2>6, SmallestNumber
  <2>8. L - k \in DOMAIN blocks /\ K(L - k)
    BY <2>7
  <2>9. ASSUME NEW j \in DOMAIN blocks, K(j)
        PROVE  j <= L - k
    <3>1. L - j \in Nat /\ L - (L - j) = j
      BY <2>1
    <3>2. L - j \in S
      BY <2>9, <3>1
    <3>3. k <= L - j /\ k \in Nat
      BY <2>7, <3>2
    <3>. QED
      BY <2>1, <3>3
  <2>10. Last(L - k)
    BY <2>8, <2>9
  <2>11. last \in DOMAIN blocks
    <3>. HIDE DEF Last
    <3>. QED
      BY <2>8, <2>10
  <2>. HIDE DEF last
  <2>12. last + 1 \in Int /\ L \in Int /\ \A j \in (last + 1)..L : blocks[j] \in Blocks
    BY <2>1, <2>11
  <2>13. SubSeq(blocks, last + 1, L) \in Seq(Blocks)
    BY <2>12, SubSeqProperties
  <2>. QED
    BY <2>2, <2>13
<1>2. CASE ~ \E i \in DOMAIN blocks : Known(blocks[i])
  BY <1>2 DEF FilterExisting
<1>. QED
  BY <1>1, <1>2

-----------------------------------------------------------------------------
(* Starting and losing the node *)

\* A step that leaves the store alone keeps what is said of it.
LEMMA StoreKept ==
  ASSUME StoreOK, db' = db
  PROVE  StoreOK'
BY DEF StoreOK

\* Outside AddBlocks nothing is said of the transaction under way.
LEMMA NotWorking ==
  ASSUME pc' \notin {"remove", "check", "include", "finish"}
  PROVE  WorkOK' /\ TxsOK'
BY DEF WorkOK, TxsOK, Working

\* The variables of AddBlocks have their types when it returns.
LEMMA ReturnTypes ==
  ASSUME TypeOK, Return, db' \in Store, chainData' \in ChainData, update' \in TxChanges,
         pc' \in {"boot", "idle"}
  PROVE  TypeOK'
<1>1. wr' \in Store /\ new' \in ChainData /\ changes' \in TxChanges
  BY Empties DEF Return
<1>2. batch' \in Seq(Blocks) /\ unwound' \in Seq(Heights)
  BY DEF Return
<1>3. forging' \in BOOLEAN /\ removed' \subseteq Txs /\ saved' \in BOOLEAN
  BY DEF Return
<1>. QED
  BY <1>1, <1>2, <1>3 DEF TypeOK

\* The chain data loaded has its type.
LEMMA TipType ==
  ASSUME TypeOK, db.tip # None
  PROVE  db.tip \in ChainData
BY Fields DEF TypeOK

\* The invariant holds before the node starts.
LEMMA InitInvariant ==
  ASSUME Init
  PROVE  ChainInvariant
<1>1. TypeOK
  <2>1. db \in Store /\ wr \in Store /\ chainData \in ChainData /\ new \in ChainData
        /\ changes \in TxChanges /\ update \in TxChanges
    BY Empties DEF Init
  <2>2. batch \in Seq(Blocks) /\ unwound \in Seq(Heights)
    BY DEF Init
  <2>3. pc = "boot" /\ forging \in BOOLEAN /\ removed \subseteq Txs /\ saved \in BOOLEAN
    BY DEF Init
  <2>. QED
    BY <2>1, <2>2, <2>3 DEF TypeOK
<1>2. StoreOK
  <2>1. db = EmptyStore /\ db.tip = None /\ db.state = None
    BY Empties DEF Init
  <2>2. EmptyStore = [EmptyStore EXCEPT !.state = None]
    BY Empties DEF Store
  <2>. QED
    BY <2>1, <2>2 DEF StoreOK
<1>3. MemoryOK /\ WorkOK /\ TxsOK
  BY DEF Init, MemoryOK, WorkOK, TxsOK, Working
<1>. QED
  BY <1>1, <1>2, <1>3 DEF ChainInvariant

\* The chain data is loaded (loadBlockchain).
LEMMA LoadInvariant ==
  ASSUME ChainInvariant, LoadBlockchain
  PROVE  ChainInvariant'
<1>0. TypeOK /\ StoreOK /\ MemoryOK
  BY DEF ChainInvariant
<1>1. /\ pc = "boot" /\ db.tip # None /\ chainData' = db.tip /\ pc' = "idle" /\ db' = db /\ wr' = wr
      /\ new' = new /\ batch' = batch /\ forging' = forging /\ unwound' = unwound /\ removed' = removed
      /\ changes' = changes /\ saved' = saved /\ update' = update
  BY DEF LoadBlockchain, locals
<1>2. TypeOK'
  BY <1>0, <1>1, TipType DEF TypeOK
<1>3. MemoryOK'
  BY <1>1 DEF MemoryOK, Same
<1>4. StoreOK' /\ WorkOK' /\ TxsOK'
  BY <1>0, <1>1, StoreKept, NotWorking
<1>. QED
  BY <1>2, <1>3, <1>4 DEF ChainInvariant

\* The state of a new chain is stored (initializeNewChain).
LEMMA InitChainInvariant ==
  ASSUME ChainInvariant, InitChain
  PROVE  ChainInvariant'
<1>0. TypeOK /\ StoreOK /\ MemoryOK
  BY DEF ChainInvariant
<1>1. /\ pc = "boot" /\ db.tip = None /\ db.state = None
      /\ db' = [db EXCEPT !.state = GenesisState]
      /\ chainData' = [GenesisData EXCEPT !.accounts = GenesisState.accounts]
      /\ pc' = "save" /\ wr' = wr
      /\ new' = new /\ batch' = batch /\ forging' = forging /\ unwound' = unwound /\ removed' = removed
      /\ changes' = changes /\ saved' = saved /\ update' = update
  BY DEF InitChain, locals
<1>2. db' \in Store /\ db'.tip = None /\ db'.state = GenesisState
  BY <1>0, <1>1, StateAssumption DEF TypeOK, Store
<1>3. chainData' \in ChainData
  BY <1>1, Empties, StateAssumption DEF ChainData, State
<1>4. TypeOK'
  BY <1>0, <1>1, <1>2, <1>3 DEF TypeOK
<1>5. StoreOK'
  <2>1. db = [EmptyStore EXCEPT !.state = None]
    BY <1>0, <1>1 DEF StoreOK
  <2>2. db' = [EmptyStore EXCEPT !.state = GenesisState]
    BY <1>1, <2>1 DEF EmptyStore
  <2>. QED
    BY <1>2, <2>2 DEF StoreOK
<1>6. MemoryOK'
  BY <1>1, <1>2 DEF MemoryOK
<1>7. WorkOK' /\ TxsOK'
  BY <1>1, NotWorking
<1>. QED
  BY <1>4, <1>5, <1>6, <1>7 DEF ChainInvariant

\* An empty chain is a chain.
LEMMA EmptyHolds ==
  ASSUME NEW s, s.hashAt = [h \in Heights |-> None], s.txsAt = [h \in Heights |-> None],
         s.before = [h \in Heights |-> None], s.byHash = {}, s.state = GenesisState
  PROVE  Holds(s, 0) /\ Clean(s, 0) /\ ChainTxs(s) = {}
<1>1. \A h \in Heights : s.hashAt[h] = None /\ s.txsAt[h] = None /\ s.before[h] = None
  OBVIOUS
<1>2. StoredBlocks(s) = {}
  BY <1>1 DEF StoredBlocks
<1>3. ChainTxs(s) = {}
  BY <1>2 DEF ChainTxs
<1>4. Links(s, 0)
  BY <1>1, <1>2, HeightsAreNumbers DEF Links
<1>5. Once(s) /\ Clean(s, 0)
  BY <1>1 DEF Once, Clean
<1>6. Infos(s, 0)
  BY DEF Infos
<1>7. States(s, 0)
  BY StateAssumption DEF States, Recorded
<1>8. 0 \in 0..MaxHeight
  BY HeightsAreNumbers
<1>. QED
  BY <1>3, <1>4, <1>5, <1>6, <1>7, <1>8 DEF Holds

\* The chain data of a new chain is stored (saveBlockchain).
LEMMA SaveInvariant ==
  ASSUME ChainInvariant, SaveBlockchain
  PROVE  ChainInvariant'
<1>0. TypeOK /\ StoreOK /\ MemoryOK
  BY DEF ChainInvariant
<1>1. /\ pc = "save" /\ db' = [db EXCEPT !.tip = chainData] /\ pc' = "idle" /\ wr' = wr
      /\ chainData' = chainData
      /\ new' = new /\ batch' = batch /\ forging' = forging /\ unwound' = unwound /\ removed' = removed
      /\ changes' = changes /\ saved' = saved /\ update' = update
  BY DEF SaveBlockchain, locals
<1>2. /\ db.tip = None /\ db.state = GenesisState
      /\ chainData = [GenesisData EXCEPT !.accounts = GenesisState.accounts]
  BY <1>0, <1>1 DEF MemoryOK
<1>3. db' \in Store /\ db'.tip = chainData
  BY <1>0, <1>1 DEF TypeOK, Store
<1>4. TypeOK'
  BY <1>0, <1>1, <1>3 DEF TypeOK
<1>5. /\ db'.hashAt = [h \in Heights |-> None] /\ db'.txsAt = [h \in Heights |-> None]
      /\ db'.before = [h \in Heights |-> None] /\ db'.byHash = {} /\ db'.state = GenesisState
      /\ db'.txs = {}
  <2>1. db = [EmptyStore EXCEPT !.state = GenesisState]
    BY <1>0, <1>2 DEF StoreOK
  <2>2. db' = [EmptyStore EXCEPT !.state = GenesisState, !.tip = chainData]
    BY <1>1, <2>1 DEF EmptyStore
  <2>. QED
    BY <2>2 DEF EmptyStore
<1>6. Holds(db', 0) /\ Clean(db', 0) /\ ChainTxs(db') = {}
  BY <1>5, EmptyHolds
<1>7. chainData \in ChainData /\ chainData.height = 0 /\ chainData.hash = Genesis /\ chainData.difficulty = 0
  BY <1>0, <1>2 DEF TypeOK, GenesisData
<1>8. db'.tip # None
  BY <1>3, <1>7, NoneAssumption
<1>9. Describes(db'.tip, db')
  BY <1>3, <1>7 DEF Describes, Below, DifficultyAt
<1>10. StoreOK'
  BY <1>3, <1>5, <1>6, <1>7, <1>8, <1>9 DEF StoreOK
<1>11. MemoryOK'
  BY <1>1, <1>3, <1>8 DEF MemoryOK, Same
<1>12. WorkOK' /\ TxsOK'
  BY <1>1, NotWorking
<1>. QED
  BY <1>4, <1>10, <1>11, <1>12 DEF ChainInvariant

\* The process ends.
LEMMA CrashInvariant ==
  ASSUME ChainInvariant, Crash
  PROVE  ChainInvariant'
<1>0. TypeOK /\ StoreOK
  BY DEF ChainInvariant
<1>1. pc' = "boot" /\ chainData' = GenesisData /\ Return /\ update' = NoChanges /\ db' = db
  BY DEF Crash
<1>2. TypeOK'
  <2>1. db' \in Store /\ chainData' \in ChainData /\ update' \in TxChanges
    BY <1>0, <1>1, Empties DEF TypeOK
  <2>. QED
    BY <1>0, <1>1, <2>1, ReturnTypes
<1>3. StoreOK' /\ WorkOK' /\ TxsOK'
  BY <1>0, <1>1, StoreKept, NotWorking
<1>4. MemoryOK'
  BY <1>1 DEF MemoryOK
<1>. QED
  BY <1>2, <1>3, <1>4 DEF ChainInvariant

-----------------------------------------------------------------------------
(* AddBlocks *)

\* Between calls the chain data in memory describes the committed store.
LEMMA MemoryDescribes ==
  ASSUME TypeOK, StoreOK, db.tip # None, Same(chainData, db.tip)
  PROVE  /\ Holds(db, chainData.height) /\ Clean(db, chainData.height)
         /\ Describes(chainData, db) /\ db.txs = ChainTxs(db)
         /\ chainData.height \in 0..MaxHeight /\ chainData.difficulty = db.tip.difficulty
<1>1. chainData.height = db.tip.height /\ chainData.hash = db.tip.hash /\ chainData.difficulty = db.tip.difficulty
  BY DEF Same
<1>2. /\ Holds(db, db.tip.height) /\ Clean(db, db.tip.height)
      /\ Describes(db.tip, db) /\ db.txs = ChainTxs(db)
  BY DEF StoreOK
<1>3. chainData.height \in 0..MaxHeight
  BY DEF TypeOK, ChainData
<1>. QED
  BY <1>1, <1>2, <1>3 DEF Describes

\* AddBlocks starts: the transaction sees the committed store.
LEMMA AddInvariant ==
  ASSUME ChainInvariant, NEW blocks \in Batches, NEW calledByForging \in BOOLEAN,
         AddBlocks(blocks, calledByForging)
  PROVE  ChainInvariant'
<1>0. TypeOK /\ StoreOK /\ MemoryOK
  BY DEF ChainInvariant
<1>1. /\ pc = "idle" /\ new' = chainData /\ wr' = db /\ forging' = calledByForging
      /\ batch' = FilterExisting(blocks) /\ unwound' = <<>> /\ removed' = {} /\ changes' = NoChanges
      /\ saved' = FALSE /\ update' = NoChanges
      /\ db' = db /\ chainData' = chainData
  BY DEF AddBlocks
<1>2. pc' = IF batch' = <<>> THEN "rollback"
            ELSE IF Header[batch'[1]].height < chainData.height THEN "remove" ELSE "check"
  BY DEF AddBlocks
<1>3. pc' \in {"rollback", "remove", "check"}
  BY <1>2
<1>4. db.tip # None /\ Same(chainData, db.tip)
  BY <1>0, <1>1 DEF MemoryOK
<1>5. /\ Holds(db, chainData.height) /\ Clean(db, chainData.height)
      /\ Describes(chainData, db) /\ db.txs = ChainTxs(db) /\ chainData.height \in 0..MaxHeight
  BY <1>0, <1>4, MemoryDescribes
<1>6. TypeOK'
  <2>1. batch' \in Seq(Blocks)
    BY <1>1, BatchesAssumption, FilterType
  <2>2. unwound' \in Seq(Heights)
    BY <1>1
  <2>3. changes' \in TxChanges /\ update' \in TxChanges
    BY <1>1, Empties
  <2>4. removed' \subseteq Txs /\ saved' \in BOOLEAN /\ forging' \in BOOLEAN
    BY <1>1
  <2>5. db' \in Store /\ wr' \in Store /\ chainData' \in ChainData /\ new' \in ChainData
    BY <1>0, <1>1 DEF TypeOK
  <2>. QED
    BY <1>3, <2>1, <2>2, <2>3, <2>4, <2>5 DEF TypeOK
<1>7. StoreOK'
  BY <1>0, <1>1, StoreKept
<1>8. MemoryOK'
  BY <1>1, <1>3, <1>4 DEF MemoryOK
<1>9. WorkOK'
  <2>. SUFFICES ASSUME pc' \in {"remove", "check"}
                PROVE  WorkOK'
    BY <1>3, NotWorking
  <2>1. Reached' = chainData.height
    <3>1. Len(<<>>) = 0
      OBVIOUS
    <3>2. chainData.height - 0 = chainData.height
      BY <1>5
    <3>. QED
      BY <1>1, <3>1, <3>2 DEF Reached
  <2>2. Holds(wr', Reached') /\ Describes(new', wr')
    BY <1>1, <1>5, <2>1
  <2>3. Pending(unwound', Reached', chainData'.height)
    <3>1. chainData.height - chainData.height = 0 /\ ~(chainData.height < chainData.height)
      BY <1>5
    <3>. QED
      BY <1>1, <2>1, <3>1 DEF Pending
  <2>4. \A h \in Heights : h >= Reached' => wr'.txsAt[h] = None /\ wr'.before[h] = None
    BY <1>1, <1>5, <2>1 DEF Clean
  <2>5. batch' # <<>>
    BY <1>2
  <2>6. pc' = "remove" => First'.height <= Reached' /\ new' = chainData' /\ changes'.inserted = {}
    <3>1. pc' = "remove" => Header[batch'[1]].height < chainData.height
      BY <1>2
    <3>2. batch' \in Seq(Blocks) /\ batch'[1] \in Blocks
      BY <1>6, <2>5 DEF TypeOK
    <3>3. Header[batch'[1]].height \in Nat
      BY <3>2, Contents, HeightsAreNumbers
    <3>. QED
      BY <1>1, <1>5, <2>1, <3>1, <3>3 DEF First, NoChanges
  <2>. QED
    BY <2>2, <2>3, <2>4, <2>5, <2>6 DEF WorkOK
<1>10. TxsOK'
  BY <1>1, <1>5 DEF TxsOK, NoChanges
<1>. QED
  BY <1>6, <1>7, <1>8, <1>9, <1>10 DEF ChainInvariant

\* A list grows at its front.
LEMMA Pushed ==
  ASSUME NEW u \in Seq(Heights), NEW n \in Nat, NEW old \in Nat, n < old, n \in Heights,
         Pending(u, n + 1, old)
  PROVE  /\ <<n>> \o u \in Seq(Heights) /\ Pending(<<n>> \o u, n, old)
         /\ Len(<<n>> \o u) = Len(u) + 1
<1>. DEFINE v == <<n>> \o u
<1>1. v \in Seq(Heights) /\ Len(v) = 1 + Len(u)
  OBVIOUS
<1>2. \A i \in 1..Len(v) : v[i] = IF i = 1 THEN n ELSE u[i - 1]
  OBVIOUS
<1>3. Len(u) = old - (n + 1) /\ Len(u) \in Nat /\ \A i \in 1..Len(u) : u[i] = (n + 1) + i - 1
  BY DEF Pending
<1>. HIDE DEF v
<1>4. Len(v) = old - n
  BY <1>1, <1>3
<1>5. ASSUME NEW i \in 1..Len(v)
      PROVE  v[i] = n + i - 1
  <2>1. CASE i = 1
    BY <1>2, <2>1
  <2>2. CASE i # 1
    <3>1. i - 1 \in 1..Len(u)
      BY <1>1, <1>3, <2>2
    <3>2. u[i - 1] = (n + 1) + (i - 1) - 1
      BY <1>3, <3>1
    <3>. QED
      BY <1>2, <2>2, <3>2
  <2>. QED
    BY <2>1, <2>2
<1>6. Pending(v, n, old)
  BY <1>4, <1>5 DEF Pending
<1>7. Len(v) = Len(u) + 1
  BY <1>1, <1>3
<1>. QED
  BY <1>1, <1>6, <1>7 DEF v

\* A list shrinks at its front, or is empty when the chain is as high as the old one.
LEMMA Popped ==
  ASSUME NEW u \in Seq(Heights), NEW n \in Nat, NEW old \in Nat, Pending(u, n, old)
  PROVE  /\ (IF u = <<>> THEN <<>> ELSE Tail(u)) \in Seq(Heights)
         /\ Pending(IF u = <<>> THEN <<>> ELSE Tail(u), n + 1, old)
<1>1. Len(u) = (IF n < old THEN old - n ELSE 0) /\ \A i \in 1..Len(u) : u[i] = n + i - 1
  BY DEF Pending
<1>2. CASE u = <<>>
  <2>1. ~(n < old)
    BY <1>1, <1>2
  <2>2. ~(n + 1 < old)
    BY <2>1
  <2>. QED
    BY <1>2, <2>2 DEF Pending
<1>3. CASE u # <<>>
  <2>. DEFINE v == Tail(u)
  <2>1. v \in Seq(Heights) /\ Len(v) = Len(u) - 1 /\ \A i \in 1..Len(v) : v[i] = u[i + 1]
    BY <1>3
  <2>2. Len(u) \in Nat /\ Len(u) > 0
    BY <1>3
  <2>. HIDE DEF v
  <2>3. Len(v) = (IF n + 1 < old THEN old - (n + 1) ELSE 0)
    BY <1>1, <2>1, <2>2
  <2>4. ASSUME NEW i \in 1..Len(v)
        PROVE  v[i] = (n + 1) + i - 1
    <3>1. i + 1 \in 1..Len(u)
      BY <2>1, <2>2
    <3>2. u[i + 1] = n + (i + 1) - 1
      BY <1>1, <3>1
    <3>. QED
      BY <2>1, <3>2
  <2>5. Pending(v, n + 1, old)
    BY <2>3, <2>4 DEF Pending
  <2>. QED
    BY <1>3, <2>1, <2>5 DEF v
<1>. QED
  BY <1>2, <1>3

\* What is known while AddBlocks works.
LEMMA AtWork ==
  ASSUME ChainInvariant, Working
  PROVE  /\ db.tip # None /\ Same(chainData, db.tip) /\ chainData.height \in 0..MaxHeight
         /\ Holds(wr, Reached) /\ Reached \in 0..MaxHeight /\ wr.state \in State
         /\ Pending(unwound, Reached, chainData.height)
         /\ \A h \in Heights : h >= Reached /\ h >= chainData.height => wr.txsAt[h] = None /\ wr.before[h] = None
<1>1. /\ Holds(wr, Reached) /\ Pending(unwound, Reached, chainData.height)
      /\ \A h \in Heights : h >= Reached /\ h >= chainData.height => wr.txsAt[h] = None /\ wr.before[h] = None
  BY DEF ChainInvariant, WorkOK
<1>2. db.tip # None /\ Same(chainData, db.tip)
  BY DEF ChainInvariant, MemoryOK, Working
<1>3. chainData.height \in 0..MaxHeight
  BY DEF ChainInvariant, TypeOK, ChainData
<1>4. Reached \in 0..MaxHeight /\ States(wr, Reached)
  BY <1>1 DEF Holds
<1>5. wr.state \in State
  <2>1. Reached \in 0..Reached /\ Recorded(wr, Reached, Reached) = wr.state
    BY <1>4 DEF Recorded
  <2>. QED
    BY <1>4, <2>1 DEF States
<1>. QED
  BY <1>1, <1>2, <1>3, <1>4, <1>5

\* A block of the old chain is undone (removeBlockComplete).
LEMMA RemoveInvariant ==
  ASSUME ChainInvariant, RemoveBlock
  PROVE  ChainInvariant'
<1>0. TypeOK /\ StoreOK /\ MemoryOK /\ WorkOK /\ TxsOK
  BY DEF ChainInvariant
<1>1. PICK h : h = chainData.height - 1 - Len(unwound)
  OBVIOUS
<1>2. PICK b : b = wr.txsAt[h]
  OBVIOUS
<1>3. /\ pc = "remove" /\ Len(unwound) < chainData.height - First.height
      /\ unwound' = <<h>> \o unwound
      /\ wr' = Undone(wr, h)
      /\ removed' = removed \cup Header[b].txs
      /\ changes' = [changes EXCEPT !.removed = @ \cup Header[b].txs]
      /\ db' = db /\ pc' = pc /\ chainData' = chainData /\ new' = new /\ batch' = batch
      /\ forging' = forging /\ saved' = saved /\ update' = update
  BY <1>1, <1>2 DEF RemoveBlock, Restored, Undone
<1>4. Working
  BY <1>3 DEF Working
<1>5. /\ db.tip # None /\ Same(chainData, db.tip) /\ chainData.height \in 0..MaxHeight
      /\ Holds(wr, Reached) /\ Reached \in 0..MaxHeight /\ Pending(unwound, Reached, chainData.height)
      /\ \A g \in Heights : g >= Reached /\ g >= chainData.height => wr.txsAt[g] = None /\ wr.before[g] = None
  BY <1>4, AtWork
<1>6. First.height <= Reached /\ new = chainData /\ changes.inserted = {} /\ batch # <<>>
  BY <1>0, <1>3, <1>4 DEF WorkOK
<1>7. Reached = chainData.height - Len(unwound) /\ Len(unwound) \in Nat /\ unwound \in Seq(Heights)
  BY <1>0, <1>3 DEF Reached, TypeOK
<1>8. First.height \in Nat
  <2>1. batch[1] \in Blocks
    BY <1>0, <1>6 DEF TypeOK
  <2>. QED
    BY <2>1, Contents, HeightsAreNumbers DEF First
<1>9. /\ Reached \in 1..MaxHeight /\ h = Reached - 1 /\ h + 1 = Reached /\ h \in Nat /\ h \in Heights
      /\ First.height <= h /\ h < chainData.height
  <2>1. PICK f : f = First.height
    OBVIOUS
  <2>2. PICK l : l = Len(unwound)
    OBVIOUS
  <2>3. PICK o : o = chainData.height
    OBVIOUS
  <2>4. f \in Nat /\ l \in Nat /\ o \in 0..MaxHeight /\ MaxHeight \in Nat /\ l < o - f /\ Reached = o - l /\ h = o - 1 - l
    BY <1>1, <1>3, <1>5, <1>7, <1>8, <2>1, <2>2, <2>3, HeightsAreNumbers
  <2>5. /\ Reached \in 1..MaxHeight /\ h = Reached - 1 /\ h + 1 = Reached /\ h \in Nat /\ h < MaxHeight
        /\ f <= h /\ h < o
    BY <2>4
  <2>. QED
    BY <2>1, <2>3, <2>5, HeightsAreNumbers
<1>10. wr \in Store
  BY <1>0 DEF TypeOK
<1>11. /\ wr' \in Store
       /\ wr'.hashAt = [wr.hashAt EXCEPT ![h] = None] /\ wr'.byHash = wr.byHash \ {wr.hashAt[h]}
       /\ wr'.state = wr.before[h] /\ wr'.txs = wr.txs
       /\ wr'.info = wr.info /\ wr'.txsAt = wr.txsAt /\ wr'.before = wr.before
  BY <1>3, <1>9, <1>10, UndoneStore
<1>12. /\ Holds(wr', h) /\ wr.hashAt[h] \in Blocks /\ b = wr.hashAt[h]
       /\ ChainTxs(wr') = ChainTxs(wr) \ Header[b].txs /\ Header[b].txs \subseteq ChainTxs(wr)
  <2>1. /\ Holds(wr', Reached - 1)
        /\ wr.hashAt[Reached - 1] \in Blocks /\ wr.txsAt[Reached - 1] = wr.hashAt[Reached - 1]
        /\ ChainTxs(wr') = ChainTxs(wr) \ Header[wr.hashAt[Reached - 1]].txs
        /\ Header[wr.hashAt[Reached - 1]].txs \subseteq ChainTxs(wr)
    BY <1>5, <1>9, <1>10, <1>11, HoldsUndone
  <2>. QED
    BY <1>2, <1>9, <2>1
<1>13. /\ unwound' \in Seq(Heights) /\ Pending(unwound', h, chainData.height)
       /\ Len(unwound') = Len(unwound) + 1
  BY <1>3, <1>5, <1>7, <1>9, Pushed
<1>14. Reached' = h
  <2>1. Reached' = chainData.height - (Len(unwound) + 1)
    BY <1>3, <1>13 DEF Reached
  <2>. QED
    BY <1>1, <1>5, <1>7, <2>1
<1>15. /\ changes' \in TxChanges /\ removed' \subseteq Txs
       /\ changes'.inserted = changes.inserted /\ changes'.removed = changes.removed \cup Header[b].txs
  <2>1. Header[b].txs \subseteq Txs
    BY <1>12, Contents
  <2>. QED
    BY <1>0, <1>3, <2>1 DEF TypeOK, TxChanges
<1>16. TypeOK'
  BY <1>0, <1>3, <1>11, <1>13, <1>15 DEF TypeOK
<1>17. StoreOK'
  BY <1>0, <1>3, StoreKept
<1>18. MemoryOK'
  BY <1>3, <1>5 DEF MemoryOK
<1>19. WorkOK'
  <2>1. Pending(unwound', Reached', chainData'.height) /\ Holds(wr', Reached')
    BY <1>3, <1>12, <1>13, <1>14
  <2>2. \A g \in Heights : g >= Reached' /\ g >= chainData'.height => wr'.txsAt[g] = None /\ wr'.before[g] = None
    <3>1. \A g \in Heights : g >= chainData.height => g >= Reached
      BY <1>5, <1>7, HeightsAreNumbers
    <3>. QED
      BY <1>3, <1>5, <1>11, <3>1
  <2>3. pc' = "remove" /\ batch' # <<>> /\ First'.height <= Reached' /\ new' = chainData' /\ changes'.inserted = {}
    BY <1>3, <1>6, <1>9, <1>14, <1>15 DEF First
  <2>. QED
    BY <2>1, <2>2, <2>3 DEF WorkOK
<1>20. TxsOK'
  <2>1. /\ ChainTxs(wr) \ changes.inserted = ChainTxs(db) \ changes.removed
        /\ changes.removed \subseteq ChainTxs(db)
        /\ removed = changes.removed \ changes.inserted
        /\ wr.txs = ChainTxs(db) \cup changes.inserted
    BY <1>0, <1>4 DEF TxsOK
  <2>2. ChainTxs(db') = ChainTxs(db)
    BY <1>3
  <2>3. /\ ChainTxs(wr') \ changes'.inserted = ChainTxs(db') \ changes'.removed
        /\ changes'.removed \subseteq ChainTxs(db')
    BY <1>6, <1>12, <1>15, <2>1, <2>2
  <2>4. removed' = changes'.removed \ changes'.inserted
    BY <1>3, <1>6, <1>15, <2>1
  <2>5. changes'.inserted \subseteq ChainTxs(wr') /\ wr'.txs = ChainTxs(db') \cup changes'.inserted
    BY <1>6, <1>11, <1>15, <2>1, <2>2
  <2>. QED
    BY <2>3, <2>4, <2>5 DEF TxsOK
<1>. QED
  BY <1>16, <1>17, <1>18, <1>19, <1>20 DEF ChainInvariant

\* The transactions of the transaction under way do not change with the step.
LEMMA TxsKept ==
  ASSUME TxsOK, Working, db' = db, wr' = wr, changes' = changes, removed' = removed
  PROVE  TxsOK'
BY DEF TxsOK

\* Every block above the first new height is undone: the chain data of that height is loaded.
LEMMA UnwoundInvariant ==
  ASSUME ChainInvariant, Unwound
  PROVE  ChainInvariant'
<1>0. TypeOK /\ StoreOK /\ MemoryOK /\ WorkOK /\ TxsOK
  BY DEF ChainInvariant
<1>1. /\ pc = "remove" /\ Len(unwound) = chainData.height - First.height
      /\ db' = db /\ wr' = wr /\ chainData' = chainData /\ batch' = batch /\ forging' = forging
      /\ unwound' = unwound /\ removed' = removed /\ changes' = changes /\ saved' = saved /\ update' = update
  BY DEF Unwound
<1>2. \/ First.height = 0 /\ new' = GenesisData /\ pc' = "check"
      \/ new' = new /\ pc' = "rollback"
      \/ First.height # 0 /\ wr.info[First.height] # None /\ new' = wr.info[First.height] /\ pc' = "check"
  BY DEF Unwound
<1>3. Working
  BY <1>1 DEF Working
<1>4. /\ db.tip # None /\ Same(chainData, db.tip) /\ chainData.height \in 0..MaxHeight
      /\ Holds(wr, Reached) /\ Reached \in 0..MaxHeight /\ Pending(unwound, Reached, chainData.height)
      /\ \A g \in Heights : g >= Reached /\ g >= chainData.height => wr.txsAt[g] = None /\ wr.before[g] = None
  BY <1>3, AtWork
<1>5. batch # <<>>
  BY <1>0, <1>1, <1>3 DEF WorkOK
<1>6. First.height \in Nat
  <2>1. batch[1] \in Blocks
    BY <1>0, <1>5 DEF TypeOK
  <2>. QED
    BY <2>1, Contents, HeightsAreNumbers DEF First
<1>7. Reached = First.height
  BY <1>1, <1>4, <1>6 DEF Reached
<1>8. pc' = "check" => new' \in ChainData /\ new'.height = Reached /\ Describes(new', wr)
  <2>1. CASE First.height = 0 /\ new' = GenesisData
    <3>1. new'.height = 0 /\ new'.hash = Genesis /\ new'.difficulty = 0
      BY <2>1 DEF GenesisData
    <3>. QED
      BY <1>7, <2>1, <3>1, Empties DEF Describes, Below, DifficultyAt
  <2>2. CASE First.height # 0 /\ new' = wr.info[First.height]
    <3>1. Reached \in 1..Reached
      BY <1>4, <1>7, <2>2
    <3>2. /\ new' \in ChainData /\ new'.hash = wr.hashAt[Reached - 1] /\ new'.height = Reached
          /\ new' = wr.info[Reached]
      BY <1>4, <1>7, <2>2, <3>1 DEF Holds, Infos
    <3>. QED
      BY <1>7, <2>2, <3>2 DEF Describes, Below, DifficultyAt
  <2>. QED
    BY <1>2, <2>1, <2>2
<1>9. pc' \in {"check", "rollback"} /\ new' \in ChainData
  BY <1>0, <1>2, <1>8 DEF TypeOK
<1>10. TypeOK'
  BY <1>0, <1>1, <1>9 DEF TypeOK
<1>11. StoreOK'
  BY <1>0, <1>1, StoreKept
<1>12. MemoryOK'
  BY <1>1, <1>4, <1>9 DEF MemoryOK
<1>13. WorkOK' /\ TxsOK'
  <2>1. CASE pc' = "rollback"
    BY <2>1, NotWorking
  <2>2. CASE pc' = "check"
    <3>1. Reached' = Reached
      BY <1>8, <2>2 DEF Reached
    <3>2. WorkOK'
      BY <1>1, <1>4, <1>5, <1>8, <2>2, <3>1 DEF WorkOK
    <3>3. TxsOK'
      BY <1>0, <1>1, <1>3, TxsKept
    <3>. QED
      BY <3>2, <3>3
  <2>. QED
    BY <1>9, <2>1, <2>2
<1>. QED
  BY <1>10, <1>11, <1>12, <1>13 DEF ChainInvariant

\* The first block is compared with the chain that is left.
LEMMA CheckInvariant ==
  ASSUME ChainInvariant, CheckFirst
  PROVE  ChainInvariant'
<1>0. TypeOK /\ StoreOK /\ MemoryOK /\ WorkOK /\ TxsOK
  BY DEF ChainInvariant
<1>1. /\ pc = "check" /\ pc' \in {"include", "rollback"} /\ db' = db /\ wr' = wr /\ chainData' = chainData
      /\ new' = new /\ batch' = batch /\ forging' = forging /\ unwound' = unwound /\ removed' = removed
      /\ changes' = changes /\ saved' = saved /\ update' = update
  BY DEF CheckFirst, locals
<1>2. Working
  BY <1>1 DEF Working
<1>3. TypeOK'
  BY <1>0, <1>1 DEF TypeOK
<1>4. StoreOK'
  BY <1>0, <1>1, StoreKept
<1>5. MemoryOK'
  BY <1>0, <1>1 DEF MemoryOK
<1>6. WorkOK' /\ TxsOK'
  <2>1. CASE pc' = "rollback"
    BY <2>1, NotWorking
  <2>2. CASE pc' = "include"
    <3>1. Reached' = Reached /\ Describes(new, wr)
      BY <1>0, <1>1, <1>2, <2>2 DEF Reached, WorkOK
    <3>2. WorkOK'
      BY <1>1, <1>2, <2>2, <3>1, AtWork DEF WorkOK
    <3>3. TxsOK'
      BY <1>0, <1>1, <1>2, TxsKept
    <3>. QED
      BY <3>2, <3>3
  <2>. QED
    BY <1>1, <2>1, <2>2
<1>. QED
  BY <1>3, <1>4, <1>5, <1>6 DEF ChainInvariant

\* A block is included and saved on top of the chain (includeBlockComplete, saveBlockComplete).
LEMMA IncludeInvariant ==
  ASSUME ChainInvariant, IncludeBlock
  PROVE  ChainInvariant'
<1>0. TypeOK /\ StoreOK /\ MemoryOK /\ WorkOK /\ TxsOK
  BY DEF ChainInvariant
<1>1. PICK b : b = Head(batch)
  OBVIOUS
<1>2. /\ pc = "include" /\ batch # <<>> /\ Acceptable(b)
      /\ new' = Extended(b) /\ wr' = Saved(b) /\ removed' = removed \ Header[b].txs
      /\ changes' = [changes EXCEPT !.inserted = @ \cup Header[b].txs]
      /\ unwound' = (IF unwound = <<>> THEN <<>> ELSE Tail(unwound))
      /\ saved' = TRUE /\ batch' = Tail(batch)
      /\ db' = db /\ pc' = pc /\ chainData' = chainData /\ forging' = forging /\ update' = update
  BY <1>1 DEF IncludeBlock
<1>3. Working
  BY <1>2 DEF Working
<1>4. PICK n : n = new.height
  OBVIOUS
<1>5. Reached = n
  BY <1>2, <1>4 DEF Reached
<1>6. /\ db.tip # None /\ Same(chainData, db.tip) /\ chainData.height \in 0..MaxHeight
      /\ Holds(wr, n) /\ n \in 0..MaxHeight /\ wr.state \in State
      /\ Pending(unwound, n, chainData.height)
      /\ \A g \in Heights : g >= n /\ g >= chainData.height => wr.txsAt[g] = None /\ wr.before[g] = None
  BY <1>3, <1>5, AtWork
<1>7. Describes(new, wr)
  BY <1>0, <1>2, <1>3 DEF WorkOK
<1>8. b \in Blocks /\ batch' \in Seq(Blocks)
  <2>1. batch \in Seq(Blocks)
    BY <1>0 DEF TypeOK
  <2>. QED
    BY <1>1, <1>2, <2>1
<1>9. Header[b].height = n /\ Header[b].prev = new.hash /\ Header[b].txs \cap ChainTxs(wr) = {}
  BY <1>2, <1>4 DEF Acceptable, Staked
<1>10. n \in Heights /\ n \in Nat /\ n + 1 \in Nat
  BY <1>8, <1>9, Contents, HeightsAreNumbers
<1>11. /\ Extended(b) \in ChainData /\ Extended(b).hash = b /\ Extended(b).prev = new.hash
       /\ Extended(b).height = n + 1 /\ Extended(b).difficulty = new.difficulty + Difficulty[new.hash]
  BY <1>0, <1>4, <1>6, <1>8, <1>10, ExtendedData
<1>12. /\ wr' \in Store
       /\ wr'.hashAt = [wr.hashAt EXCEPT ![n] = b] /\ wr'.txsAt = [wr.txsAt EXCEPT ![n] = b]
       /\ wr'.byHash = wr.byHash \cup {b} /\ wr'.state = After(wr.state, b)
       /\ wr'.before = [wr.before EXCEPT ![n] = wr.state]
       /\ wr'.txs = wr.txs \cup (Header[b].txs \ removed)
       /\ wr'.info = [wr.info EXCEPT ![n + 1] = Extended(b)]
  <2>1. /\ Saved(b) \in Store
        /\ Saved(b).hashAt = [wr.hashAt EXCEPT ![new.height] = b]
        /\ Saved(b).txsAt = [wr.txsAt EXCEPT ![new.height] = b]
        /\ Saved(b).byHash = wr.byHash \cup {b} /\ Saved(b).state = After(wr.state, b)
        /\ Saved(b).before = [wr.before EXCEPT ![new.height] = wr.state]
        /\ Saved(b).txs = wr.txs \cup (Header[b].txs \ removed)
        /\ Saved(b).info = [wr.info EXCEPT ![new.height + 1] = Extended(b)]
    BY <1>0, <1>4, <1>6, <1>8, <1>9, SavedStore
  <2>. QED
    BY <1>2, <1>4, <2>1
<1>13. wr \in Store
  BY <1>0 DEF TypeOK
<1>14. new.hash = Below(wr, n) /\ new.difficulty = DifficultyAt(wr, n)
  BY <1>4, <1>7 DEF Describes
<1>15. Holds(wr', n + 1) /\ ChainTxs(wr') = ChainTxs(wr) \cup Header[b].txs
  <2>1. /\ Extended(b).prev = Below(wr, n)
        /\ Extended(b).difficulty = DifficultyAt(wr, n) + Difficulty[Below(wr, n)]
    BY <1>11, <1>14
  <2>2. Grows(wr, wr', n, b, Extended(b))
    BY <1>9, <1>11, <1>12, <1>14, <2>1 DEF Grows
  <2>. QED
    BY <1>6, <1>8, <1>10, <1>11, <1>12, <1>13, <2>2, HoldsExtended
<1>16. unwound' \in Seq(Heights) /\ Pending(unwound', n + 1, chainData.height)
  <2>1. unwound \in Seq(Heights) /\ chainData.height \in Nat
    BY <1>0, <1>6 DEF TypeOK
  <2>. QED
    BY <1>2, <1>6, <1>10, <2>1, Popped
<1>17. Reached' = n + 1
  BY <1>2, <1>11 DEF Reached
<1>18. /\ changes' \in TxChanges /\ removed' \subseteq Txs
       /\ changes'.inserted = changes.inserted \cup Header[b].txs /\ changes'.removed = changes.removed
  <2>1. Header[b].txs \subseteq Txs
    BY <1>8, Contents
  <2>. QED
    BY <1>0, <1>2, <2>1 DEF TypeOK, TxChanges
<1>19. TypeOK'
  BY <1>0, <1>2, <1>8, <1>11, <1>12, <1>16, <1>18 DEF TypeOK
<1>20. StoreOK'
  BY <1>0, <1>2, StoreKept
<1>21. MemoryOK'
  BY <1>2, <1>6 DEF MemoryOK
<1>22. WorkOK'
  <2>1. Pending(unwound', Reached', chainData'.height) /\ Holds(wr', Reached')
    BY <1>2, <1>15, <1>16, <1>17
  <2>2. \A g \in Heights : g >= Reached' /\ g >= chainData'.height => wr'.txsAt[g] = None /\ wr'.before[g] = None
    <3>1. \A g \in Heights : g >= n + 1 => g >= n /\ g # n
      BY <1>10, HeightsAreNumbers
    <3>2. \A g \in Heights : g # n => wr'.txsAt[g] = wr.txsAt[g] /\ wr'.before[g] = wr.before[g]
      BY <1>10, <1>12, <1>13, Fields
    <3>. QED
      BY <1>2, <1>6, <1>17, <3>1, <3>2
  <2>3. Describes(new', wr')
    <3>1. wr'.hashAt[n] = b /\ wr'.info[n + 1] = Extended(b)
      <4>1. n + 1 \in 1..MaxHeight
        BY <1>10, HeightsAreNumbers
      <4>2. wr.hashAt \in [Heights -> Blocks \cup {None}] /\ wr.info \in [1..MaxHeight -> ChainData \cup {None}]
        BY <1>13, Fields
      <4>. QED
        BY <1>10, <1>12, <4>1, <4>2
    <3>2. n + 1 # 0 /\ (n + 1) - 1 = n
      BY <1>10
    <3>. QED
      BY <1>2, <1>11, <3>1, <3>2 DEF Describes, Below, DifficultyAt
  <2>. QED
    BY <1>2, <2>1, <2>2, <2>3 DEF WorkOK
<1>23. TxsOK'
  <2>1. /\ ChainTxs(wr) \ changes.inserted = ChainTxs(db) \ changes.removed
        /\ changes.inserted \subseteq ChainTxs(wr) /\ changes.removed \subseteq ChainTxs(db)
        /\ removed = changes.removed \ changes.inserted
        /\ wr.txs = ChainTxs(db) \cup changes.inserted
    BY <1>0, <1>3 DEF TxsOK
  <2>2. ChainTxs(db') = ChainTxs(db)
    BY <1>2
  <2>3. ChainTxs(wr') \ changes'.inserted = ChainTxs(db') \ changes'.removed
    BY <1>9, <1>15, <1>18, <2>1, <2>2
  <2>4. changes'.inserted \subseteq ChainTxs(wr') /\ changes'.removed \subseteq ChainTxs(db')
    BY <1>15, <1>18, <2>1, <2>2
  <2>5. removed' = changes'.removed \ changes'.inserted
    BY <1>2, <1>18, <2>1
  <2>6. wr'.txs = ChainTxs(db') \cup changes'.inserted
    BY <1>12, <1>18, <2>1, <2>2
  <2>. QED
    BY <2>3, <2>4, <2>5, <2>6 DEF TxsOK
<1>. QED
  BY <1>19, <1>20, <1>21, <1>22, <1>23 DEF ChainInvariant

\* A block is refused, or its save fails: the chain that was built so far stays.
LEMMA StopInvariant ==
  ASSUME ChainInvariant, RefuseBlock \/ SaveFails
  PROVE  ChainInvariant'
<1>0. TypeOK /\ StoreOK /\ MemoryOK /\ WorkOK /\ TxsOK
  BY DEF ChainInvariant
<1>1. /\ pc = "include" /\ batch # <<>> /\ pc' = "finish" /\ db' = db /\ wr' = wr /\ chainData' = chainData
      /\ batch' = batch /\ forging' = forging /\ unwound' = unwound /\ removed' = removed
      /\ changes' = changes /\ saved' \in {saved, FALSE} /\ update' = update
  BY DEF RefuseBlock, SaveFails
<1>2. new' = new \/ new' = [new EXCEPT !.supply = wr.state.supply + Header[Head(batch)].reward]
  BY DEF RefuseBlock, SaveFails
<1>3. Working
  BY <1>1 DEF Working
<1>4. wr.state.supply + Header[Head(batch)].reward \in Nat
  <2>1. Head(batch) \in Blocks
    BY <1>0, <1>1 DEF TypeOK
  <2>2. wr.state \in State
    BY <1>3, AtWork
  <2>. QED
    BY <2>1, <2>2, Contents DEF State
<1>5. /\ new' \in ChainData /\ new'.height = new.height /\ new'.hash = new.hash
      /\ new'.difficulty = new.difficulty
  BY <1>0, <1>2, <1>4 DEF TypeOK, ChainData
<1>6. TypeOK'
  BY <1>0, <1>1, <1>5 DEF TypeOK
<1>7. StoreOK'
  BY <1>0, <1>1, StoreKept
<1>8. MemoryOK'
  BY <1>0, <1>1 DEF MemoryOK
<1>9. WorkOK'
  <2>1. Reached' = Reached
    BY <1>1, <1>5 DEF Reached
  <2>2. Describes(new', wr')
    <3>1. Describes(new, wr)
      BY <1>0, <1>1, <1>3 DEF WorkOK
    <3>. QED
      BY <1>1, <1>5, <3>1 DEF Describes
  <2>. QED
    BY <1>1, <1>3, <2>1, <2>2, AtWork DEF WorkOK
<1>10. TxsOK'
  BY <1>0, <1>1, <1>3, TxsKept
<1>. QED
  BY <1>6, <1>7, <1>8, <1>9, <1>10 DEF ChainInvariant

\* The transactions stored and deleted by the commit are those of the chains.
LEMMA CommittedTxs ==
  ASSUME NEW old, NEW now, NEW inserted, NEW dropped,
         now \ inserted = old \ dropped, inserted \subseteq now, dropped \subseteq old
  PROVE  /\ (old \cup inserted) \ (dropped \ inserted) = now
         /\ dropped \ inserted = old \ now
         /\ now \ old \subseteq inserted
OBVIOUS

\* The store that the commit leaves (CommitBlocks), for the chain data it writes.
LEMMA CommitStore ==
  ASSUME ChainInvariant, Ended, NEW data \in ChainData,
         data.height = new.height, data.hash = new.hash, data.difficulty = new.difficulty
  PROVE  /\ Final(data) \in Store /\ Final(data).tip = data /\ data # None
         /\ Holds(Final(data), new.height) /\ Clean(Final(data), new.height)
         /\ Describes(data, Final(data)) /\ ChainTxs(Final(data)) = ChainTxs(wr)
         /\ Final(data).txs = ChainTxs(wr)
         /\ Removed = ChainTxs(db) \ ChainTxs(wr)
         /\ ChainTxs(wr) \ ChainTxs(db) \subseteq changes.inserted
         /\ changes.inserted \subseteq ChainTxs(wr)
<1>0. TypeOK /\ StoreOK /\ MemoryOK /\ WorkOK /\ TxsOK
  BY DEF ChainInvariant
<1>1. pc \in {"finish", "include"} /\ Working
  BY DEF Ended, Working
<1>2. PICK n : n = new.height
  OBVIOUS
<1>3. Reached = n
  BY <1>1, <1>2 DEF Reached
<1>4. PICK o : o = chainData.height
  OBVIOUS
<1>5. /\ Holds(wr, n) /\ n \in 0..MaxHeight /\ o \in 0..MaxHeight
      /\ Pending(unwound, n, o)
      /\ \A g \in Heights : g >= n /\ g >= o => wr.txsAt[g] = None /\ wr.before[g] = None
  BY <1>1, <1>3, <1>4, AtWork
<1>6. Describes(new, wr)
  BY <1>0, <1>1 DEF WorkOK
<1>7. PICK f : f = Final(data)
  OBVIOUS
<1>8. /\ f \in Store /\ f.tip = data
      /\ f.byHash = wr.byHash /\ f.state = wr.state /\ f.info = wr.info
      /\ f.txs = wr.txs \ Removed
      /\ \A h \in Heights :
            IF \E i \in DOMAIN unwound : unwound[i] = h
            THEN f.hashAt[h] = None /\ f.txsAt[h] = None /\ f.before[h] = None
            ELSE f.hashAt[h] = wr.hashAt[h] /\ f.txsAt[h] = wr.txsAt[h] /\ f.before[h] = wr.before[h]
  BY <1>0, <1>7, FinalStore
<1>9. \A h \in Heights : (\E i \in DOMAIN unwound : unwound[i] = h) <=> (h >= n /\ h < o)
  <2>1. unwound \in Seq(Heights)
    BY <1>0 DEF TypeOK
  <2>2. DOMAIN unwound = 1..Len(unwound) /\ Len(unwound) \in Nat
    BY <2>1
  <2>3. Len(unwound) = (IF n < o THEN o - n ELSE 0) /\ \A i \in 1..Len(unwound) : unwound[i] = n + i - 1
    BY <1>5 DEF Pending
  <2>4. ASSUME NEW h \in Heights, h >= n, h < o
        PROVE  \E i \in DOMAIN unwound : unwound[i] = h
    <3>1. h - n + 1 \in 1..Len(unwound) /\ n + (h - n + 1) - 1 = h
      BY <1>5, <2>3, <2>4, HeightsAreNumbers
    <3>2. unwound[h - n + 1] = h
      BY <2>3, <3>1
    <3>. QED
      BY <2>2, <3>1, <3>2
  <2>5. ASSUME NEW i \in DOMAIN unwound
        PROVE  unwound[i] >= n /\ unwound[i] < o
    BY <1>5, <2>2, <2>3
  <2>. QED
    BY <2>4, <2>5
<1>10. wr \in Store /\ \A h \in Heights : h >= n => wr.hashAt[h] = None
  BY <1>0, <1>5 DEF TypeOK, Holds, Links
<1>11. f.hashAt = wr.hashAt
  <2>1. \A h \in Heights : f.hashAt[h] = wr.hashAt[h]
    BY <1>8, <1>9, <1>10
  <2>2. f.hashAt \in [Heights -> Blocks \cup {None}] /\ wr.hashAt \in [Heights -> Blocks \cup {None}]
    BY <1>8, <1>10, Fields
  <2>. QED
    BY <2>1, <2>2
<1>12. \A h \in Heights : h < n => f.txsAt[h] = wr.txsAt[h] /\ f.before[h] = wr.before[h]
  <2>1. \A h \in Heights : h < n => ~(h >= n)
    BY <1>5, HeightsAreNumbers
  <2>. QED
    BY <1>8, <1>9, <2>1
<1>13. Clean(f, n)
  <2>1. ASSUME NEW h \in Heights, h >= n
        PROVE  f.txsAt[h] = None /\ f.before[h] = None
    <3>1. CASE h < o
      BY <1>8, <1>9, <2>1, <3>1
    <3>2. CASE ~(h < o)
      <4>1. h >= o
        BY <1>5, <3>2, HeightsAreNumbers
      <4>. QED
        BY <1>5, <1>8, <1>9, <2>1, <3>2, <4>1
    <3>. QED
      BY <3>1, <3>2
  <2>. QED
    BY <2>1 DEF Clean
<1>14. Holds(f, n) /\ ChainTxs(f) = ChainTxs(wr)
  BY <1>5, <1>8, <1>11, <1>12, HoldsFrame
<1>15. Describes(data, f)
  BY <1>6, <1>8, <1>11 DEF Describes, Below, DifficultyAt
<1>16. data # None
  BY NoneAssumption
<1>17. /\ ChainTxs(wr) \ changes.inserted = ChainTxs(db) \ changes.removed
       /\ changes.inserted \subseteq ChainTxs(wr) /\ changes.removed \subseteq ChainTxs(db)
       /\ wr.txs = ChainTxs(db) \cup changes.inserted
  BY <1>0, <1>1 DEF TxsOK
<1>18. /\ (ChainTxs(db) \cup changes.inserted) \ (changes.removed \ changes.inserted) = ChainTxs(wr)
       /\ changes.removed \ changes.inserted = ChainTxs(db) \ ChainTxs(wr)
       /\ ChainTxs(wr) \ ChainTxs(db) \subseteq changes.inserted
  BY <1>17, CommittedTxs
<1>19. f.txs = ChainTxs(wr) /\ Removed = ChainTxs(db) \ ChainTxs(wr)
  BY <1>8, <1>17, <1>18 DEF Removed
<1>. QED
  BY <1>2, <1>7, <1>8, <1>13, <1>14, <1>15, <1>16, <1>17, <1>18, <1>19

\* The chain data that the commit writes, and the one it keeps in memory.
LEMMA CommitData ==
  ASSUME ChainInvariant, CommitBlocks
  PROVE  \E data \in ChainData :
            /\ db' = Final(data) /\ Same(new', data) /\ new' \in ChainData
            /\ data.height = new.height /\ data.hash = new.hash /\ data.difficulty = new.difficulty
<1>. DEFINE data == [new EXCEPT !.selfForged = IF forging THEN @ + 1 ELSE 0]
<1>1. new \in ChainData
  BY DEF ChainInvariant, TypeOK
<1>2. db' = Final(data) /\ new' = [data EXCEPT !.accounts = wr.state.accounts]
  BY DEF CommitBlocks
<1>3. data \in ChainData /\ data.height = new.height /\ data.hash = new.hash /\ data.difficulty = new.difficulty
  BY <1>1 DEF ChainData
<1>4. wr.state.accounts \in Nat
  <2>1. Working
    BY DEF CommitBlocks, Ended, Working
  <2>2. wr.state \in State
    BY <2>1, AtWork
  <2>. QED
    BY <2>2 DEF State
<1>. HIDE DEF data
<1>5. new' \in ChainData /\ Same(new', data)
  BY <1>2, <1>3, <1>4 DEF ChainData, Same
<1>. QED
  BY <1>2, <1>3, <1>5

\* The heavier chain is committed.
LEMMA CommitInvariant ==
  ASSUME ChainInvariant, CommitBlocks
  PROVE  ChainInvariant'
<1>0. TypeOK /\ StoreOK /\ MemoryOK /\ WorkOK /\ TxsOK
  BY DEF ChainInvariant
<1>1. /\ Ended /\ Better /\ update' = [inserted |-> changes.inserted, removed |-> Removed]
      /\ pc' = "publish" /\ wr' = wr /\ chainData' = chainData /\ batch' = batch /\ forging' = forging
      /\ unwound' = unwound /\ removed' = removed /\ changes' = changes /\ saved' = saved
  BY DEF CommitBlocks
<1>2. PICK data \in ChainData :
         /\ db' = Final(data) /\ Same(new', data) /\ new' \in ChainData
         /\ data.height = new.height /\ data.hash = new.hash /\ data.difficulty = new.difficulty
  BY CommitData
<1>3. /\ db' \in Store /\ db'.tip = data /\ data # None
      /\ Holds(db', new.height) /\ Clean(db', new.height)
      /\ Describes(data, db') /\ db'.txs = ChainTxs(db')
  <2>1. /\ Final(data) \in Store /\ Final(data).tip = data /\ data # None
        /\ Holds(Final(data), new.height) /\ Clean(Final(data), new.height)
        /\ Describes(data, Final(data)) /\ Final(data).txs = ChainTxs(Final(data))
    BY <1>1, <1>2, CommitStore
  <2>. QED
    BY <1>2, <2>1
<1>4. TypeOK'
  <2>1. update' \in TxChanges
    BY <1>0, <1>1 DEF TypeOK, TxChanges, Removed
  <2>. QED
    BY <1>0, <1>1, <1>2, <1>3, <2>1 DEF TypeOK
<1>5. StoreOK'
  BY <1>2, <1>3 DEF StoreOK
<1>6. MemoryOK'
  <2>1. chainData.difficulty < new.difficulty
    BY <1>1 DEF Better
  <2>2. new'.difficulty = new.difficulty
    BY <1>2 DEF Same
  <2>. QED
    BY <1>1, <1>2, <1>3, <2>1, <2>2 DEF MemoryOK
<1>7. WorkOK' /\ TxsOK'
  BY <1>1, NotWorking
<1>. QED
  BY <1>4, <1>5, <1>6, <1>7 DEF ChainInvariant

\* The transaction is dropped.
LEMMA RollbackInvariant ==
  ASSUME ChainInvariant, RollbackBlocks
  PROVE  ChainInvariant'
<1>0. TypeOK /\ StoreOK /\ MemoryOK
  BY DEF ChainInvariant
<1>1. /\ pc \in {"rollback", "finish", "include"} /\ pc' = "idle" /\ Return
      /\ db' = db /\ chainData' = chainData /\ update' = update
  BY DEF RollbackBlocks, Ended
<1>2. TypeOK'
  <2>1. db' \in Store /\ chainData' \in ChainData /\ update' \in TxChanges
    BY <1>0, <1>1 DEF TypeOK
  <2>. QED
    BY <1>0, <1>1, <2>1, ReturnTypes
<1>3. StoreOK' /\ WorkOK' /\ TxsOK'
  BY <1>0, <1>1, StoreKept, NotWorking
<1>4. MemoryOK'
  BY <1>0, <1>1 DEF MemoryOK
<1>. QED
  BY <1>2, <1>3, <1>4 DEF ChainInvariant

\* The chain data in memory is replaced.
LEMMA PublishInvariant ==
  ASSUME ChainInvariant, PublishBlocks
  PROVE  ChainInvariant'
<1>0. TypeOK /\ StoreOK /\ MemoryOK
  BY DEF ChainInvariant
<1>1. pc = "publish" /\ chainData' = new /\ pc' = "idle" /\ Return /\ db' = db /\ update' = update
  BY DEF PublishBlocks
<1>2. TypeOK'
  <2>1. db' \in Store /\ chainData' \in ChainData /\ update' \in TxChanges
    BY <1>0, <1>1 DEF TypeOK
  <2>. QED
    BY <1>0, <1>1, <2>1, ReturnTypes
<1>3. StoreOK' /\ WorkOK' /\ TxsOK'
  BY <1>0, <1>1, StoreKept, NotWorking
<1>4. MemoryOK'
  BY <1>0, <1>1 DEF MemoryOK
<1>. QED
  BY <1>2, <1>3, <1>4 DEF ChainInvariant

-----------------------------------------------------------------------------
(* The theorems *)

\* Every step keeps the invariant.
LEMMA StepInvariant ==
  ASSUME ChainInvariant, [Next]_vars
  PROVE  ChainInvariant'
<1>1. CASE Next
  <2>1. CASE LoadBlockchain \/ InitChain \/ SaveBlockchain \/ Crash
    BY <2>1, LoadInvariant, InitChainInvariant, SaveInvariant, CrashInvariant
  <2>2. CASE \E blocks \in Batches, calledByForging \in BOOLEAN :
                (calledByForging => Len(blocks) = 1) /\ AddBlocks(blocks, calledByForging)
    BY <2>2, AddInvariant
  <2>3. CASE RemoveBlock \/ Unwound \/ CheckFirst
    BY <2>3, RemoveInvariant, UnwoundInvariant, CheckInvariant
  <2>4. CASE IncludeBlock \/ RefuseBlock \/ SaveFails
    BY <2>4, IncludeInvariant, StopInvariant
  <2>5. CASE CommitBlocks \/ RollbackBlocks \/ PublishBlocks
    BY <2>5, CommitInvariant, RollbackInvariant, PublishInvariant
  <2>. QED
    BY <1>1, <2>1, <2>2, <2>3, <2>4, <2>5 DEF Next
<1>2. CASE UNCHANGED vars
  <2>1. /\ db' = db /\ wr' = wr /\ pc' = pc /\ chainData' = chainData /\ new' = new /\ batch' = batch
        /\ forging' = forging /\ unwound' = unwound /\ removed' = removed /\ changes' = changes
        /\ saved' = saved /\ update' = update
    BY <1>2 DEF vars
  <2>2. TypeOK' /\ StoreOK' /\ MemoryOK'
    BY <2>1, StoreKept DEF ChainInvariant, TypeOK, MemoryOK
  <2>3. Reached' = Reached /\ First' = First
    BY <2>1 DEF Reached, First
  <2>4. WorkOK' /\ TxsOK'
    BY <2>1, <2>3 DEF ChainInvariant, WorkOK, TxsOK, Working
  <2>. QED
    BY <2>2, <2>4 DEF ChainInvariant
<1>. QED
  BY <1>1, <1>2

\* The invariant holds in every state.
LEMMA Invariance == Spec => []ChainInvariant
<1>1. Init => ChainInvariant
  BY InitInvariant
<1>2. ChainInvariant /\ [Next]_vars => ChainInvariant'
  BY StepInvariant
<1>. QED
  BY <1>1, <1>2, PTL DEF Spec

\* The committed store holds one whole chain, whatever was undone, half-included, refused or
\* interrupted by a crash (AddBlocks, saveBlockComplete, removeBlockComplete).
THEOREM StoreHoldsOneChain == Spec => []ChainIsWhole
<1>1. ASSUME ChainInvariant
      PROVE  ChainIsWhole
  <2>0. TypeOK /\ StoreOK
    BY <1>1 DEF ChainInvariant
  <2>1. CASE db.tip = None
    <3>1. db = [EmptyStore EXCEPT !.state = db.state]
      BY <2>0, <2>1 DEF StoreOK
    <3>2. db.hashAt = [h \in Heights |-> None] /\ db.txs = {}
      BY <3>1 DEF EmptyStore
    <3>3. StoredBlocks(db) = {}
      BY <3>2 DEF StoredBlocks
    <3>4. TxsAreOfChain
      BY <3>2, <3>3 DEF TxsAreOfChain, ChainTxs
    <3>5. StoredChainLinked /\ InfoDescribesChain
      BY <2>1 DEF StoredChainLinked, InfoDescribesChain
    <3>. QED
      BY <2>0, <3>4, <3>5 DEF ChainIsWhole
  <2>2. CASE db.tip # None
    <3>1. PICK n : n = db.tip.height
      OBVIOUS
    <3>2. /\ n \in 0..MaxHeight /\ Links(db, n) /\ Infos(db, n) /\ Clean(db, n)
          /\ Describes(db.tip, db) /\ db.txs = ChainTxs(db)
      BY <2>0, <2>2, <3>1 DEF StoreOK, Holds
    <3>3. \A h \in Heights : h < n \/ h >= n
      BY <3>2, HeightsAreNumbers
    <3>4. \A h \in Heights :
             IF h < n
             THEN /\ db.hashAt[h] \in Blocks /\ Header[db.hashAt[h]].height = h
                  /\ Header[db.hashAt[h]].prev = (IF h = 0 THEN Genesis ELSE db.hashAt[h - 1])
                  /\ db.txsAt[h] = db.hashAt[h]
             ELSE db.hashAt[h] = None /\ db.txsAt[h] = None /\ db.before[h] = None
      BY <3>2, <3>3 DEF Links, Clean, Below
    <3>5. db.byHash = StoredBlocks(db)
      BY <3>2 DEF Links
    <3>6. db.tip.hash = (IF n = 0 THEN Genesis ELSE db.hashAt[n - 1])
      BY <3>1, <3>2 DEF Describes, Below
    <3>7. StoredChainLinked
      BY <3>1, <3>4, <3>5, <3>6 DEF StoredChainLinked
    <3>8. ASSUME NEW h \in 1..n
          PROVE  /\ db.info[h] # None
                 /\ db.info[h].hash = db.hashAt[h - 1]
                 /\ db.info[h].prev = (IF h = 1 THEN Genesis ELSE db.hashAt[h - 2])
                 /\ db.info[h].height = h
                 /\ db.info[h].difficulty = Difficulty[db.info[h].prev]
                        + (IF h = 1 THEN 0 ELSE db.info[h - 1].difficulty)
      <4>1. (h - 1 = 0 <=> h = 1) /\ (h - 1) - 1 = h - 2
        BY <3>2
      <4>2. /\ db.info[h] \in ChainData
            /\ db.info[h].hash = db.hashAt[h - 1] /\ db.info[h].prev = Below(db, h - 1)
            /\ db.info[h].height = h
            /\ db.info[h].difficulty = Difficulty[db.info[h].prev] + DifficultyAt(db, h - 1)
        BY <3>2 DEF Infos
      <4>3. db.info[h] # None
        BY <4>2, NoneAssumption
      <4>4. /\ Below(db, h - 1) = (IF h = 1 THEN Genesis ELSE db.hashAt[h - 2])
            /\ DifficultyAt(db, h - 1) = (IF h = 1 THEN 0 ELSE db.info[h - 1].difficulty)
        BY <4>1 DEF Below, DifficultyAt
      <4>. QED
        BY <4>2, <4>3, <4>4
    <3>9. InfoDescribesChain
      BY <3>1, <3>8 DEF InfoDescribesChain
    <3>10. TxsAreOfChain
      BY <3>2 DEF TxsAreOfChain
    <3>. QED
      BY <2>0, <3>7, <3>9, <3>10 DEF ChainIsWhole
  <2>. QED
    BY <2>1, <2>2
<1>. QED
  BY <1>1, Invariance, PTL

\* The data storage is the one that the stored blocks build from the state of the genesis,
\* whatever was undone (ReadTransitionalChangesFromStore, includeBlockComplete).
THEOREM StateIsRebuilt == Spec => []StateIsReplay
<1>1. ASSUME ChainInvariant
      PROVE  StateIsReplay
  <2>0. TypeOK /\ StoreOK
    BY <1>1 DEF ChainInvariant
  <2>1. CASE db.tip = None
    BY <2>0, <2>1 DEF StoreOK, StateIsReplay
  <2>2. CASE db.tip # None
    <3>1. States(db, db.tip.height)
      BY <2>0, <2>2 DEF StoreOK, Holds
    <3>2. \A h : StateAt(db, h) = Recorded(db, db.tip.height, h)
      BY DEF StateAt, Recorded
    <3>. QED
      BY <2>2, <3>1, <3>2 DEF States, StateIsReplay
  <2>. QED
    BY <2>1, <2>2
<1>. QED
  BY <1>1, Invariance, PTL

\* Between calls the chain data in memory is what a restart would load (ChainData.Store,
\* loadBlockchain).
THEOREM MemoryAgreesWithStore == Spec => []MemoryIsStored
<1>1. ASSUME ChainInvariant
      PROVE  MemoryIsStored
  <2>. SUFFICES ASSUME pc = "idle"
                PROVE  [chainData EXCEPT !.accounts = 0] = [db.tip EXCEPT !.accounts = 0]
    BY DEF MemoryIsStored
  <2>1. db.tip # None /\ Same(chainData, db.tip)
    BY <1>1 DEF ChainInvariant, MemoryOK
  <2>2. chainData \in ChainData /\ db.tip \in ChainData
    BY <1>1, <2>1, TipType DEF ChainInvariant, TypeOK
  <2>. QED
    BY <2>1, <2>2 DEF Same, ChainData
<1>. QED
  BY <1>1, Invariance, PTL

\* Only a heavier chain replaces the present one, in the store and in memory.
THEOREM OnlyHeavierChains == Spec => DifficultyGrows
<1>1. ASSUME ChainInvariant, Next
      PROVE  /\ db.tip # None /\ db'.tip # db.tip => db'.tip.difficulty > db.tip.difficulty
             /\ pc = "publish" /\ pc' = "idle" => chainData'.difficulty > chainData.difficulty
  <2>0. TypeOK /\ StoreOK /\ MemoryOK
    BY <1>1 DEF ChainInvariant
  <2>1. CASE CommitBlocks
    <3>1. Ended /\ Better /\ pc' = "publish"
      BY <2>1 DEF CommitBlocks
    <3>2. PICK data \in ChainData :
             /\ db' = Final(data)
             /\ data.height = new.height /\ data.hash = new.hash /\ data.difficulty = new.difficulty
      BY <1>1, <2>1, CommitData
    <3>3. db'.tip = data
      <4>1. Final(data).tip = data
        BY <2>0, FinalStore
      <4>. QED
        BY <3>2, <4>1
    <3>4. chainData.difficulty = db.tip.difficulty
      <4>1. Same(chainData, db.tip)
        BY <2>0, <3>1 DEF MemoryOK, Ended
      <4>. QED
        BY <4>1 DEF Same
    <3>5. chainData.difficulty \in Nat /\ new.difficulty \in Nat /\ chainData.difficulty < new.difficulty
      BY <2>0, <3>1 DEF TypeOK, ChainData, Better
    <3>. QED
      BY <3>1, <3>2, <3>3, <3>4, <3>5
  <2>2. CASE SaveBlockchain
    BY <2>0, <2>2 DEF SaveBlockchain, MemoryOK
  <2>3. CASE InitChain
    BY <2>3 DEF InitChain
  <2>4. CASE PublishBlocks
    <3>1. pc = "publish" /\ chainData' = new /\ db' = db
      BY <2>4 DEF PublishBlocks
    <3>2. chainData.difficulty < new.difficulty /\ chainData.difficulty \in Nat /\ new.difficulty \in Nat
      BY <2>0, <3>1 DEF MemoryOK, TypeOK, ChainData
    <3>. QED
      BY <3>1, <3>2
  <2>5. CASE LoadBlockchain \/ Crash \/ RemoveBlock \/ Unwound \/ CheckFirst \/ IncludeBlock
             \/ RefuseBlock \/ SaveFails \/ RollbackBlocks
    <3>1. db' = db
      BY <2>5 DEF LoadBlockchain, Crash, RemoveBlock, Unwound, CheckFirst, IncludeBlock,
                  RefuseBlock, SaveFails, RollbackBlocks
    <3>2. pc # "publish" \/ pc' = "boot"
      BY <2>5 DEF LoadBlockchain, Crash, RemoveBlock, Unwound, CheckFirst, IncludeBlock,
                  RefuseBlock, SaveFails, RollbackBlocks, Ended
    <3>. QED
      BY <3>1, <3>2
  <2>6. CASE \E blocks \in Batches, calledByForging \in BOOLEAN : AddBlocks(blocks, calledByForging)
    BY <2>6 DEF AddBlocks
  <2>. QED
    BY <1>1, <2>1, <2>2, <2>3, <2>4, <2>5, <2>6 DEF Next
<1>. QED
  BY <1>1, Invariance, PTL DEF Spec, DifficultyGrows

\* The update tells exactly which transactions the chain lost, and every one it gained
\* (allTransactionsChanges, removedTxHashes).
THEOREM UpdatesAreExact == Spec => UpdateIsExact
<1>1. ASSUME ChainInvariant, CommitBlocks
      PROVE  /\ update'.removed = ChainTxs(db) \ ChainTxs(db')
             /\ ChainTxs(db') \ ChainTxs(db) \subseteq update'.inserted
             /\ update'.inserted \subseteq ChainTxs(db')
  <2>1. Ended /\ update' = [inserted |-> changes.inserted, removed |-> Removed]
    BY <1>1 DEF CommitBlocks
  <2>2. PICK data \in ChainData :
           /\ db' = Final(data)
           /\ data.height = new.height /\ data.hash = new.hash /\ data.difficulty = new.difficulty
    BY <1>1, CommitData
  <2>3. /\ ChainTxs(Final(data)) = ChainTxs(wr)
        /\ Removed = ChainTxs(db) \ ChainTxs(wr)
        /\ ChainTxs(wr) \ ChainTxs(db) \subseteq changes.inserted
        /\ changes.inserted \subseteq ChainTxs(wr)
    BY <1>1, <2>1, <2>2, CommitStore
  <2>4. ChainTxs(db') = ChainTxs(wr)
    BY <2>2, <2>3
  <2>5. update'.removed = Removed /\ update'.inserted = changes.inserted
    BY <2>1
  <2>. QED
    BY <2>3, <2>4, <2>5
<1>. QED
  BY <1>1, Invariance, PTL DEF Spec, UpdateIsExact
=============================================================================
