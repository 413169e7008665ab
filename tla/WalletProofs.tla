---------------------------- MODULE WalletProofs ----------------------------
(***************************************************************************)
(* Proofs about Wallet: after any crash and any order of operations the    *)
(* wallet in memory is consistent, the stored one opens, and a loaded one  *)
(* is what the store gives back; and no operation on addresses or          *)
(* passwords gives up a stored seed.                                       *)
(*                                                                         *)
(* The invariant says which wallet the store holds: some sound wallet in   *)
(* full, and, where the one in memory was saved, that one.  A refused      *)
(* mnemonic leaves one in memory that was not (Blank), an import with an   *)
(* unknown password one that cannot be.                                    *)
(***************************************************************************)
EXTENDS Wallet, SequenceTheorems, TLAPS

Locks == {Plain} \cup (Passwords \X Nat)
Entry == [locked : Locks, address : AddressType]
WalletRecord == [locked : Locks, mnemonic : Mnemonics \cup BadMnemonics \cup {None}, seed : Mnemonics \cup {None},
                 seedIndex : 0..(MaxSeedIndex + 1), count : 0..MaxAddresses]
DiskType == [saved : BOOLEAN, encrypted : BOOLEAN, salt : Nat,
             entries : [0..(MaxAddresses - 1) -> SUBSET Entry], wallet : WalletRecord]

\* The stored wallet is w: its record, and an entry for every address.
Holds(d, w) ==
    /\ d.saved /\ d.encrypted = w.encrypted /\ d.salt = w.salt
    /\ d.wallet.locked = LockOf(w) /\ d.wallet.mnemonic = w.mnemonic /\ d.wallet.seed = w.seed
    /\ d.wallet.seedIndex = w.seedIndex /\ d.wallet.count = w.count
    /\ \A i \in 0..(w.count - 1) : d.entries[i] = {[locked |-> LockOf(w), address |-> w.addresses[i + 1]]}

\* A wallet after a refused mnemonic.
Blank(w) == w.seed = None /\ w.count = 0

Types ==
    /\ phase \in {"off", "starting", "on"} /\ stuck \in BOOLEAN /\ logout \in BOOLEAN
    /\ staked \subseteq SharedKeys /\ salts \in 0..MaxSalts /\ notify \in SharedKeys \cup {NoKey}
    /\ refresh \in [runs : BOOLEAN, due : SUBSET SharedKeys]
    /\ disk \in DiskType

StoreOK == disk.saved => \E w : Sound(w) /\ CanSave(w) /\ Holds(disk, w)

\* A process that runs has a stored wallet.
Begun == phase # "off" => disk.saved

MemoryOK == wallet.loaded /\ CanSave(wallet) /\ ~Blank(wallet) => Holds(disk, wallet)

WalletInvariant == Types /\ Sound(wallet) /\ StoreOK /\ MemoryOK /\ Begun

-----------------------------------------------------------------------------
(* Wallets *)

\* The bounds, one by one.
LEMMA Bounds == MaxAddresses \in Nat \ {0} /\ MaxSeedIndex \in Nat /\ MaxSalts \in Nat
BY WalletAssumption

\* Places counted from elsewhere.
LEMMA Cancel == \A c, s \in Nat, i, j \in Int : s + (i - c) - 1 \in Int /\ (s + (i - c) - 1 = s + (j - c) - 1 => i = j)
OBVIOUS

\* r is a list of c addresses followed by one of n.
Joins(r, a, b, c, n) ==
    /\ r \in Seq(AddressType) /\ Len(r) = c + n
    /\ \A i \in 1..c : r[i] = a[i]
    /\ \A i \in (c + 1)..(c + n) : r[i] = b[i - c]

\* A concatenation is.
LEMMA ConcatElements ==
  ASSUME NEW a \in Seq(AddressType), NEW b \in Seq(AddressType), NEW c \in Nat, NEW n \in Nat, Len(a) = c, Len(b) = n
  PROVE  Joins(a \o b, a, b, c, n)
<1>1. a \o b \in Seq(AddressType) /\ Len(a \o b) = c + n
  BY ConcatProperties
<1>2. \A i \in 1..(c + n) : (a \o b)[i] = IF i <= c THEN a[i] ELSE b[i - c]
  BY ConcatProperties
<1>3. ASSUME NEW i \in 1..c PROVE i \in 1..(c + n) /\ i <= c
  OBVIOUS
<1>4. ASSUME NEW i \in (c + 1)..(c + n) PROVE i \in 1..(c + n) /\ ~(i <= c)
  OBVIOUS
<1>. QED
  BY <1>1, <1>2, <1>3, <1>4 DEF Joins

\* The fields of a wallet.
LEMMA Fields ==
  ASSUME NEW w, Sound(w)
  PROVE  /\ w.loaded \in BOOLEAN /\ w.mnemonic \in Mnemonics \cup BadMnemonics \cup {None}
         /\ w.seed \in Mnemonics \cup {None} /\ w.seedIndex \in 0..(MaxSeedIndex + 1)
         /\ w.count \in 0..MaxAddresses /\ w.addresses \in Seq(AddressType)
         /\ w.encrypted \in BOOLEAN /\ w.salt \in Nat /\ w.cipher \in {NoKey} \cup (Passwords \X Nat)
         /\ w.count = Len(w.addresses) /\ w.map = Keys(w.addresses) /\ DOMAIN w.addresses = 1..w.count
BY DEF Sound, WalletType, Consistent

\* What a wallet's records are locked with.
LEMMA LockType ==
  ASSUME NEW w, Sound(w), CanSave(w)
  PROVE  LockOf(w) \in Locks
BY Fields DEF LockOf, CanSave, Locks

\* A cleared wallet is sound, and so is one for which only a mnemonic was noted.
LEMMA ClearIsSound ==
  /\ Sound(ClearWallet) /\ ~ClearWallet.loaded
  /\ \A m \in Mnemonics \cup BadMnemonics :
        LET w == [ClearWallet EXCEPT !.loaded = TRUE, !.mnemonic = m] IN Sound(w) /\ Blank(w)
<1>1. Len(<<>>) = 0 /\ DOMAIN <<>> = {} /\ <<>> \in Seq(AddressType) /\ Keys(<<>>) = {}
  BY EmptySeq DEF Keys
<1>2. 0 \in 0..(MaxSeedIndex + 1) /\ 0 \in 0..MaxAddresses
  BY WalletAssumption
<1>3. \A w \in WalletType : w.addresses = <<>> /\ w.map = {} /\ w.count = 0 /\ w.cipher = NoKey => Sound(w)
  BY <1>1 DEF Sound, Consistent
<1>4. ClearWallet \in WalletType
  BY <1>1, <1>2 DEF ClearWallet, WalletType
<1>5. ASSUME NEW m \in Mnemonics \cup BadMnemonics
      PROVE  LET w == [ClearWallet EXCEPT !.loaded = TRUE, !.mnemonic = m] IN Sound(w) /\ Blank(w)
  <2>1. PICK w : w = [ClearWallet EXCEPT !.loaded = TRUE, !.mnemonic = m]
    OBVIOUS
  <2>2. w \in WalletType
    BY <2>1, <1>4 DEF WalletType
  <2>3. w.addresses = <<>> /\ w.map = {} /\ w.count = 0 /\ w.cipher = NoKey /\ w.seed = None
    BY <2>1 DEF ClearWallet
  <2>. QED
    BY <2>1, <2>2, <2>3, <1>3 DEF Blank
<1>. QED
  BY <1>3, <1>4, <1>5 DEF ClearWallet

\* v is w with n more addresses.
Grown(w, v, n) ==
    /\ v \in WalletType /\ v.count = w.count + n /\ Len(v.addresses) = w.count + n
    /\ v.loaded = w.loaded /\ v.mnemonic = w.mnemonic /\ v.seed = w.seed /\ v.seedIndex >= w.seedIndex
    /\ v.encrypted = w.encrypted /\ v.salt = w.salt /\ v.cipher = w.cipher
    /\ \A i \in 1..w.count : v.addresses[i] = w.addresses[i]
    /\ v.map = w.map \cup {v.addresses[i].key : i \in (w.count + 1)..(w.count + n)}
    /\ \A i \in (w.count + 1)..(w.count + n) :
          LET a == v.addresses[i]
          IN  /\ a.key \notin w.map /\ (a.shared => a.key \in SharedKeys)
              /\ ~a.imported => a.key = <<v.seed, a.seedIndex>> /\ a.seedIndex < v.seedIndex
    /\ \A i, j \in (w.count + 1)..(w.count + n) : v.addresses[i].key = v.addresses[j].key => i = j

\* More addresses with new keys keep a wallet sound.
LEMMA GrownIsSound ==
  ASSUME NEW w, NEW v, NEW n \in Nat, Sound(w), Grown(w, v, n)
  PROVE  Sound(v)
<1>1. PICK c \in Nat : c = w.count /\ c = Len(w.addresses) /\ DOMAIN w.addresses = 1..c
  BY Fields
<1>2. v.addresses \in Seq(AddressType) /\ Len(v.addresses) = c + n /\ DOMAIN v.addresses = 1..(c + n)
  BY <1>1 DEF Grown, WalletType
<1>3. \A i \in 1..(c + n) : i \in 1..c \/ i \in (c + 1)..(c + n)
  OBVIOUS
<1>4. \A i \in 1..c : v.addresses[i] = w.addresses[i] /\ w.addresses[i].key \in w.map
  BY <1>1, Fields DEF Grown, Keys
<1>5. \A i \in (c + 1)..(c + n) : v.addresses[i].key \notin w.map
  BY <1>1 DEF Grown
<1>6. v.map = Keys(v.addresses)
  <2>1. w.map = {w.addresses[i].key : i \in 1..c}
    BY <1>1, Fields DEF Keys
  <2>2. v.map = w.map \cup {v.addresses[i].key : i \in (c + 1)..(c + n)}
    BY <1>1 DEF Grown
  <2>3. Keys(v.addresses) = {v.addresses[i].key : i \in 1..(c + n)}
    BY <1>2 DEF Keys
  <2>. QED
    BY <2>1, <2>2, <2>3, <1>3, <1>4
<1>7. \A i, j \in 1..(c + n) : v.addresses[i].key = v.addresses[j].key => i = j
  <2>1. \A i, j \in 1..c : w.addresses[i].key = w.addresses[j].key => i = j
    BY <1>1 DEF Sound, Consistent
  <2>2. \A i, j \in (c + 1)..(c + n) : v.addresses[i].key = v.addresses[j].key => i = j
    BY <1>1 DEF Grown
  <2>. QED
    BY <2>1, <2>2, <1>3, <1>4, <1>5
<1>8. ASSUME NEW i \in 1..(c + n)
      PROVE  LET a == v.addresses[i]
             IN  /\ a.shared => a.key \in SharedKeys
                 /\ ~a.imported => a.key = <<v.seed, a.seedIndex>> /\ a.seedIndex < v.seedIndex
  <2>1. CASE i \in (c + 1)..(c + n)
    BY <2>1, <1>1 DEF Grown
  <2>2. CASE i \in 1..c
    <3>1. PICK a \in AddressType : a = w.addresses[i] /\ a = v.addresses[i]
      BY <2>2, <1>1, <1>4, Fields, ElementOfSeq
    <3>2. /\ a.shared => a.key \in SharedKeys
          /\ ~a.imported => a.key = <<w.seed, a.seedIndex>> /\ a.seedIndex < w.seedIndex
      BY <2>2, <1>1, <3>1 DEF Sound, Consistent
    <3>3. v.seed = w.seed /\ v.seedIndex >= w.seedIndex /\ v.seedIndex \in 0..(MaxSeedIndex + 1)
      BY DEF Grown, WalletType
    <3>4. w.seedIndex \in 0..(MaxSeedIndex + 1) /\ a.seedIndex \in 0..MaxSeedIndex
      BY <3>1, Fields DEF AddressType
    <3>. QED
      BY <3>1, <3>2, <3>3, <3>4
  <2>. QED
    BY <2>1, <2>2, <1>3
<1>9. v \in WalletType /\ v.count = Len(v.addresses) /\ (v.cipher # NoKey => v.cipher[2] = v.salt)
  BY <1>1, <1>2 DEF Grown, Sound
<1>. QED
  BY <1>2, <1>6, <1>7, <1>8, <1>9 DEF Sound, Consistent

\* v is w without its i-th address, whose place the last one takes.
Shrunk(w, v, i) ==
    /\ v \in WalletType /\ v.count = w.count - 1 /\ Len(v.addresses) = w.count - 1
    /\ v.loaded = w.loaded /\ v.mnemonic = w.mnemonic /\ v.seed = w.seed /\ v.seedIndex = w.seedIndex
    /\ v.encrypted = w.encrypted /\ v.salt = w.salt /\ v.cipher = w.cipher
    /\ \A j \in 1..(w.count - 1) : v.addresses[j] = IF j = i THEN w.addresses[w.count] ELSE w.addresses[j]
    /\ v.map = w.map \ {w.addresses[i].key}

\* RemoveAddressByIndex does that.
LEMMA WithoutShrinks ==
  ASSUME NEW w, Sound(w), NEW i \in 1..w.count
  PROVE  Shrunk(w, Without(w, i), i)
<1>1. PICK c \in Nat : /\ c = w.count /\ c = Len(w.addresses) /\ DOMAIN w.addresses = 1..c
                       /\ c \in 0..MaxAddresses /\ i \in 1..c /\ c - 1 \in 0..MaxAddresses
  BY Fields, Bounds
<1>2. PICK s : s = w.addresses /\ s \in Seq(AddressType) /\ Len(s) = c /\ s[c] \in AddressType
  BY <1>1, Fields, ElementOfSeq
<1>3. PICK r : r = [s EXCEPT ![i] = s[c]]
  OBVIOUS
<1>a. r \in Seq(AddressType) /\ Len(r) = c /\ \A j \in 1..c : r[j] = IF j = i THEN s[c] ELSE s[j]
  <2>1. PICK e \in AddressType : e = s[c]
    BY <1>2
  <2>2. /\ [s EXCEPT ![i] = e] \in Seq(AddressType) /\ Len([s EXCEPT ![i] = e]) = Len(s)
        /\ \A j \in 1..Len(s) : [s EXCEPT ![i] = e][j] = IF j = i THEN e ELSE s[j]
    BY <1>1, <1>2, ExceptSeq
  <2>. QED
    BY <1>2, <1>3, <2>1, <2>2
<1>4. PICK q : q = SubSeq(r, 1, c - 1) /\ q \in Seq(AddressType) /\ Len(q) = c - 1
                /\ \A j \in 1..(c - 1) : q[j] = r[j]
  <2>1. \A j \in 1..(c - 1) : r[j] \in AddressType
    BY <1>1, <1>a, ElementOfSeq
  <2>2. SubSeq(r, 1, c - 1) \in Seq(AddressType)
    BY <2>1, <1>1, <1>a, SubSeqProperties
  <2>3. Len(SubSeq(r, 1, c - 1)) = c - 1 /\ \A j \in 1..(c - 1) : SubSeq(r, 1, c - 1)[j] = r[j]
    BY <1>1, <1>a, SubSeqProperties
  <2>. QED
    BY <2>2, <2>3
<1>5. PICK v : v = [w EXCEPT !.addresses = q, !.map = @ \ {s[i].key}, !.count = c - 1]
  OBVIOUS
<1>6. Without(w, i) = v
  BY <1>1, <1>2, <1>3, <1>4, <1>5 DEF Without
<1>7. w \in WalletType
  BY DEF Sound
<1>8. v \in WalletType
  BY <1>1, <1>4, <1>5, <1>7 DEF WalletType
<1>9. /\ v.addresses = q /\ v.map = w.map \ {s[i].key} /\ v.count = c - 1
      /\ v.loaded = w.loaded /\ v.mnemonic = w.mnemonic /\ v.seed = w.seed /\ v.seedIndex = w.seedIndex
      /\ v.encrypted = w.encrypted /\ v.salt = w.salt /\ v.cipher = w.cipher
  BY <1>5, <1>7 DEF WalletType
<1>. QED
  BY <1>1, <1>2, <1>a, <1>4, <1>6, <1>8, <1>9 DEF Shrunk

\* Without an address a wallet stays sound.
LEMMA ShrunkIsSound ==
  ASSUME NEW w, NEW v, Sound(w), NEW i \in 1..w.count, Shrunk(w, v, i)
  PROVE  Sound(v)
<1>1. PICK c \in Nat : c = w.count /\ c = Len(w.addresses) /\ DOMAIN w.addresses = 1..c /\ i \in 1..c
  BY Fields
<1>2. v.addresses \in Seq(AddressType) /\ Len(v.addresses) = c - 1 /\ DOMAIN v.addresses = 1..(c - 1)
  BY <1>1 DEF Shrunk, WalletType
<1>3. \A j \in 1..(c - 1) : v.addresses[j] = w.addresses[IF j = i THEN c ELSE j]
  BY <1>1 DEF Shrunk
<1>4. \A j, k \in 1..c : w.addresses[j].key = w.addresses[k].key => j = k
  BY <1>1 DEF Sound, Consistent
<1>5. \A j \in 1..c : LET a == w.addresses[j]
                      IN  /\ a.shared => a.key \in SharedKeys
                          /\ ~a.imported => a.key = <<w.seed, a.seedIndex>> /\ a.seedIndex < w.seedIndex
  BY <1>1 DEF Sound, Consistent
<1>6. v.map = Keys(v.addresses)
  <2>1. w.map = {w.addresses[j].key : j \in 1..c} /\ v.map = w.map \ {w.addresses[i].key}
    BY <1>1, Fields DEF Keys, Shrunk
  <2>2. Keys(v.addresses) = {w.addresses[IF j = i THEN c ELSE j].key : j \in 1..(c - 1)}
    BY <1>2, <1>3 DEF Keys
  <2>3. ASSUME NEW k \in v.map
        PROVE  k \in Keys(v.addresses)
    <3>1. PICK j \in 1..c : k = w.addresses[j].key /\ j # i
      BY <2>1
    <3>2. PICK l \in 1..(c - 1) : (IF l = i THEN c ELSE l) = j
      <4>1. CASE j = c
        BY <4>1, <3>1, <1>1
      <4>2. CASE j # c
        BY <4>2, <3>1, <1>1
      <4>. QED
        BY <4>1, <4>2
    <3>. QED
      BY <3>1, <3>2, <2>2
  <2>4. ASSUME NEW k \in Keys(v.addresses)
        PROVE  k \in v.map
    <3>1. PICK l \in 1..(c - 1) : k = w.addresses[IF l = i THEN c ELSE l].key
      BY <2>2
    <3>2. PICK j \in 1..c : j = (IF l = i THEN c ELSE l) /\ j # i
      <4>1. CASE l = i
        BY <4>1, <1>1
      <4>2. CASE l # i
        BY <4>2, <1>1
      <4>. QED
        BY <4>1, <4>2
    <3>3. w.addresses[j].key # w.addresses[i].key
      BY <3>2, <1>1, <1>4
    <3>. QED
      BY <3>1, <3>2, <3>3, <2>1
  <2>. QED
    BY <2>3, <2>4
<1>7. \A j, k \in 1..(c - 1) : v.addresses[j].key = v.addresses[k].key => j = k
  <2>. SUFFICES ASSUME NEW j \in 1..(c - 1), NEW k \in 1..(c - 1), v.addresses[j].key = v.addresses[k].key
                PROVE  j = k
    OBVIOUS
  <2>1. PICK x \in 1..c, y \in 1..c : /\ x = (IF j = i THEN c ELSE j) /\ y = (IF k = i THEN c ELSE k)
    BY <1>1
  <2>2. x = y
    BY <2>1, <1>3, <1>4
  <2>. QED
    BY <2>1, <2>2, <1>1
<1>8. \A j \in 1..(c - 1) :
         LET a == v.addresses[j]
         IN  /\ a.shared => a.key \in SharedKeys
             /\ ~a.imported => a.key = <<v.seed, a.seedIndex>> /\ a.seedIndex < v.seedIndex
  <2>1. v.seed = w.seed /\ v.seedIndex = w.seedIndex
    BY DEF Shrunk
  <2>2. \A j \in 1..(c - 1) : (IF j = i THEN c ELSE j) \in 1..c
    BY <1>1
  <2>. QED
    BY <2>1, <2>2, <1>3, <1>5
<1>9. v \in WalletType /\ v.count = Len(v.addresses) /\ (v.cipher # NoKey => v.cipher[2] = v.salt)
  BY <1>1, <1>2 DEF Shrunk, Sound
<1>. QED
  BY <1>2, <1>6, <1>7, <1>8, <1>9 DEF Sound, Consistent

\* Adding an address.
LEMMA AddedGrows ==
  ASSUME NEW w, Sound(w), NEW a \in AddressType, NEW step \in {0, 1}, w.seedIndex + step <= MaxSeedIndex + 1,
         w.count < MaxAddresses, a.key \notin w.map, a.shared => a.key \in SharedKeys,
         ~a.imported => a.key = <<w.seed, a.seedIndex>> /\ a.seedIndex < w.seedIndex + step,
         NEW v, v = [Added(w, a) EXCEPT !.seedIndex = @ + step]
  PROVE  Grown(w, v, 1)
<1>1. PICK c \in Nat : /\ c = w.count /\ c = Len(w.addresses) /\ c + 1 \in 0..MaxAddresses
                       /\ w.seedIndex + step \in 0..(MaxSeedIndex + 1) /\ w.seedIndex + step >= w.seedIndex
  BY Fields, Bounds
<1>2. PICK s : s = Append(w.addresses, a) /\ s \in Seq(AddressType) /\ Len(s) = c + 1
                /\ s[c + 1] = a /\ \A i \in 1..c : s[i] = w.addresses[i]
  <2>1. PICK q : q = w.addresses /\ q \in Seq(AddressType) /\ Len(q) = c
    BY <1>1, Fields
  <2>2. Append(q, a) \in Seq(AddressType) /\ Len(Append(q, a)) = c + 1 /\ Append(q, a)[c + 1] = a
        /\ \A i \in 1..c : Append(q, a)[i] = q[i]
    BY <2>1, AppendProperties
  <2>. QED
    BY <2>1, <2>2
<1>3. w \in WalletType /\ a.key \in ImportedKeys \cup SharedKeys \cup (Mnemonics \X (0..MaxSeedIndex))
  BY DEF Sound, AddressType
<1>4. PICK u : u = Added(w, a)
  OBVIOUS
<1>5. u = [w EXCEPT !.addresses = s, !.map = @ \cup {a.key}, !.count = @ + 1]
  BY <1>2, <1>4 DEF Added
<1>6. u \in WalletType
  BY <1>1, <1>2, <1>3, <1>5 DEF WalletType
<1>7. /\ u.addresses = s /\ u.map = w.map \cup {a.key} /\ u.count = c + 1
      /\ u.loaded = w.loaded /\ u.mnemonic = w.mnemonic /\ u.seed = w.seed /\ u.seedIndex = w.seedIndex
      /\ u.encrypted = w.encrypted /\ u.salt = w.salt /\ u.cipher = w.cipher
  BY <1>1, <1>3, <1>5 DEF WalletType
<1>8. v \in WalletType
  BY <1>1, <1>4, <1>6, <1>7 DEF WalletType
<1>9. /\ v.addresses = s /\ v.map = w.map \cup {a.key} /\ v.count = c + 1 /\ v.seedIndex = w.seedIndex + step
      /\ v.loaded = w.loaded /\ v.mnemonic = w.mnemonic /\ v.seed = w.seed
      /\ v.encrypted = w.encrypted /\ v.salt = w.salt /\ v.cipher = w.cipher
  BY <1>4, <1>6, <1>7 DEF WalletType
<1>10. (c + 1)..(c + 1) = {c + 1}
  BY <1>1
<1>11. v.map = w.map \cup {v.addresses[i].key : i \in (c + 1)..(c + 1)}
  BY <1>2, <1>9, <1>10
<1>. QED
  BY <1>1, <1>2, <1>8, <1>9, <1>10, <1>11 DEF Grown

\* ... an imported or a shared one.
LEMMA AddedIsGrown ==
  ASSUME NEW w, Sound(w), NEW a \in AddressType, w.count < MaxAddresses, a.key \notin w.map,
         a.shared => a.key \in SharedKeys, a.imported
  PROVE  Grown(w, Added(w, a), 1)
<1>1. w.seedIndex \in Int /\ w.seedIndex + 0 <= MaxSeedIndex + 1 /\ w.seedIndex + 0 = w.seedIndex
  BY Fields, Bounds
<1>2. PICK u : u = Added(w, a)
  OBVIOUS
<1>3. w \in WalletType /\ u.seedIndex = w.seedIndex
  BY <1>2 DEF Added, Sound, WalletType
<1>4. u = [u EXCEPT !.seedIndex = @ + 0]
  BY <1>1, <1>2, <1>3 DEF Added
<1>. QED
  BY <1>1, <1>2, <1>4, AddedGrows

\* ... the next one of the seed.
LEMMA NewIsGrown ==
  ASSUME NEW w, Sound(w), w.count < MaxAddresses, w.seedIndex <= MaxSeedIndex, w.seed # None, NextKey(w) \notin w.map
  PROVE  Grown(w, WithNewAddress(w), 1)
<1>1. PICK i \in 0..MaxSeedIndex : i = w.seedIndex /\ i + 1 <= MaxSeedIndex + 1 /\ i < i + 1
  BY Fields, Bounds
<1>2. PICK a : a = Address(NextKey(w), w.seedIndex, FALSE, FALSE)
  OBVIOUS
<1>3. a.key = <<w.seed, i>> /\ a.seedIndex = i /\ ~a.imported /\ ~a.shared /\ a.key = NextKey(w)
  BY <1>1, <1>2 DEF Address, NextKey
<1>4. a \in AddressType
  BY <1>1, <1>2, Fields DEF Address, NextKey, AddressType
<1>5. WithNewAddress(w) = [Added(w, a) EXCEPT !.seedIndex = @ + 1]
  BY <1>2 DEF WithNewAddress
<1>. QED
  BY <1>1, <1>3, <1>4, <1>5, AddedGrows

\* A new wallet is sound, and has one address.
LEMMA NewIsSound ==
  ASSUME NEW m \in Mnemonics
  PROVE  Sound(NewWallet(m)) /\ NewWallet(m).count = 1 /\ CanSave(NewWallet(m)) /\ NewWallet(m).seed = m
<1>1. PICK w : w = [ClearWallet EXCEPT !.loaded = TRUE, !.mnemonic = m, !.seed = m]
  OBVIOUS
<1>2. ClearWallet \in WalletType
  BY ClearIsSound DEF Sound
<1>3. w \in WalletType
  BY <1>1, <1>2 DEF WalletType
<1>4. /\ w.addresses = <<>> /\ w.map = {} /\ w.count = 0 /\ w.seed = m /\ w.seedIndex = 0
      /\ ~w.encrypted /\ w.cipher = NoKey
  BY <1>1 DEF ClearWallet
<1>5. Len(<<>>) = 0 /\ DOMAIN <<>> = {} /\ Keys(<<>>) = {}
  BY EmptySeq DEF Keys
<1>6. Sound(w)
  BY <1>3, <1>4, <1>5 DEF Sound, Consistent
<1>7. w.count < MaxAddresses /\ w.seedIndex <= MaxSeedIndex /\ w.seed # None /\ NextKey(w) \notin w.map
  BY <1>4, Bounds, WalletAssumption
<1>8. PICK v : v = WithNewAddress(w) /\ Grown(w, v, 1)
  BY <1>6, <1>7, NewIsGrown
<1>9. Sound(v)
  BY <1>6, <1>8, GrownIsSound
<1>10. v.count = 1 /\ v.encrypted = w.encrypted /\ v.seed = m
  BY <1>8, <1>4 DEF Grown
<1>. QED
  BY <1>1, <1>4, <1>8, <1>9, <1>10 DEF NewWallet, CanSave

-----------------------------------------------------------------------------
(* The store *)

\* The entry of a wallet's i-th address, counted from zero.
EntryOf(w, i) == {[locked |-> LockOf(w), address |-> w.addresses[i + 1]]}

\* saveWallet stores the wallet when the entries it leaves alone are already right.
LEMMA SavedIsHeld ==
  ASSUME NEW w, Sound(w), CanSave(w), NEW d \in DiskType, NEW range \in SUBSET (0..(w.count - 1)), NEW deleted,
         \A i \in 0..(w.count - 1) : i # deleted /\ (i \in range \/ d.entries[i] = EntryOf(w, i))
  PROVE  SaveWallet(w, d, range, deleted) \in DiskType /\ Holds(SaveWallet(w, d, range, deleted), w)
<1>1. PICK c \in Nat : c = w.count /\ c = Len(w.addresses) /\ 0..(c - 1) \subseteq 0..(MaxAddresses - 1)
  BY Fields, Bounds
<1>2. \A i \in 0..(c - 1) : w.addresses[i + 1] \in AddressType
  <2>. SUFFICES ASSUME NEW i \in 0..(c - 1) PROVE w.addresses[i + 1] \in AddressType
    OBVIOUS
  <2>1. i + 1 \in 1..c
    BY <1>1
  <2>. QED
    BY <2>1, <1>1, Fields, ElementOfSeq
<1>3. \A i \in 0..(c - 1) : EntryOf(w, i) \in SUBSET Entry
  BY <1>2, LockType DEF EntryOf, Entry
<1>4. PICK e : e = [i \in DOMAIN d.entries |-> IF i = deleted THEN {} ELSE IF i \in range THEN EntryOf(w, i) ELSE d.entries[i]]
  OBVIOUS
<1>5. DOMAIN d.entries = 0..(MaxAddresses - 1) /\ d.entries \in [0..(MaxAddresses - 1) -> SUBSET Entry]
  BY DEF DiskType
<1>6. e \in [0..(MaxAddresses - 1) -> SUBSET Entry]
  BY <1>1, <1>3, <1>4, <1>5
<1>7. \A i \in 0..(c - 1) : e[i] = EntryOf(w, i)
  BY <1>1, <1>4, <1>5
<1>8. PICK r : r = [locked |-> LockOf(w), mnemonic |-> w.mnemonic, seed |-> w.seed, seedIndex |-> w.seedIndex, count |-> w.count]
  OBVIOUS
<1>9. r \in WalletRecord
  BY <1>8, Fields, LockType DEF WalletRecord
<1>10. PICK n : n = [saved |-> TRUE, encrypted |-> w.encrypted, salt |-> w.salt, wallet |-> r, entries |-> e]
  OBVIOUS
<1>11. SaveWallet(w, d, range, deleted) = n
  BY <1>4, <1>8, <1>10 DEF SaveWallet, EntryOf
<1>12. n \in DiskType
  BY <1>6, <1>9, <1>10, Fields DEF DiskType
<1>13. Holds(n, w)
  BY <1>1, <1>7, <1>8, <1>10 DEF Holds, EntryOf
<1>. QED
  BY <1>11, <1>12, <1>13

\* A stored wallet has the addresses of the wallet it holds.
LEMMA HeldEntries ==
  ASSUME NEW w, NEW d, Holds(d, w), NEW i \in 0..(w.count - 1)
  PROVE  d.entries[i] = EntryOf(w, i)
BY DEF Holds, EntryOf

\* What loadWallet reads: nothing but the meta data, or the wallet that is stored.
LEMMA LoadedIsHeld ==
  ASSUME NEW w, Sound(w), CanSave(w), NEW d \in DiskType, Holds(d, w), NEW p \in Passwords \cup {None}
  PROVE  LET v == LoadWallet(d, p)
             key == IF d.encrypted THEN <<p, d.salt>> ELSE Plain
         IN  /\ Sound(v)
             /\ (d.encrypted /\ p = None) \/ LockOf(w) # key => ~v.loaded
             /\ ~(d.encrypted /\ p = None) /\ LockOf(w) = key =>
                   /\ v.loaded /\ CanSave(v) /\ Holds(d, v)
                   /\ v.addresses = w.addresses
<1>1. PICK key : key = IF d.encrypted THEN <<p, d.salt>> ELSE Plain
  OBVIOUS
<1>2. PICK cipher : cipher = IF d.encrypted /\ p # None THEN key ELSE NoKey
  OBVIOUS
<1>3. PICK meta : meta = [ClearWallet EXCEPT !.encrypted = d.encrypted, !.salt = d.salt, !.cipher = cipher]
  OBVIOUS
<1>4. d.encrypted \in BOOLEAN /\ d.salt \in Nat /\ d.encrypted = w.encrypted /\ d.salt = w.salt
      /\ d.wallet.locked = LockOf(w)
  BY DEF DiskType, Holds
<1>5. cipher \in {NoKey} \cup (Passwords \X Nat) /\ (cipher # NoKey => cipher[2] = d.salt)
  BY <1>1, <1>2, <1>4
<1>6. ClearWallet \in WalletType
  BY ClearIsSound DEF Sound
<1>7. meta \in WalletType
  BY <1>3, <1>4, <1>5, <1>6 DEF WalletType
<1>8. /\ meta.addresses = <<>> /\ meta.map = {} /\ meta.count = 0 /\ ~meta.loaded
      /\ meta.encrypted = d.encrypted /\ meta.salt = d.salt /\ meta.cipher = cipher
  BY <1>3 DEF ClearWallet
<1>9. Sound(meta)
  <2>1. Len(<<>>) = 0 /\ DOMAIN <<>> = {} /\ Keys(<<>>) = {}
    BY EmptySeq DEF Keys
  <2>. QED
    BY <2>1, <1>5, <1>7, <1>8 DEF Sound, Consistent
<1>10. CASE (d.encrypted /\ p = None) \/ LockOf(w) # key
  <2>1. LoadWallet(d, p) = meta
    BY <1>10, <1>1, <1>2, <1>3, <1>4 DEF LoadWallet
  <2>. QED
    BY <2>1, <1>1, <1>8, <1>9, <1>10
<1>11. CASE ~(d.encrypted /\ p = None) /\ LockOf(w) = key
  <2>1. PICK c \in Nat : c = w.count /\ c = Len(w.addresses) /\ c = d.wallet.count
    BY Fields, Bounds DEF Holds
  <2>2. \A i \in 0..(c - 1) : /\ Readable(d, key, i)
                             /\ (CHOOSE e \in d.entries[i] : TRUE).address = w.addresses[i + 1]
    <3>. SUFFICES ASSUME NEW i \in 0..(c - 1)
                  PROVE  Readable(d, key, i) /\ (CHOOSE e \in d.entries[i] : TRUE).address = w.addresses[i + 1]
      OBVIOUS
    <3>1. PICK r : r = [locked |-> LockOf(w), address |-> w.addresses[i + 1]]
      OBVIOUS
    <3>2. d.entries[i] = {r} /\ r.locked = key /\ r.address = w.addresses[i + 1]
      BY <3>1, <2>1, <1>11, HeldEntries DEF EntryOf
    <3>3. (CHOOSE e \in d.entries[i] : TRUE) = r
      BY <3>2
    <3>. QED
      BY <3>2, <3>3 DEF Readable
  <2>3. PICK read : read = {n \in 0..d.wallet.count : \A i \in 0..(n - 1) : Readable(d, key, i)}
    OBVIOUS
  <2>4. c \in read /\ \A n \in read : n \in Int /\ n <= c
    <3>1. \A n \in 0..c : n \in Int /\ n <= c
      BY <2>1
    <3>2. c \in 0..c /\ \A i \in 0..(c - 1) : Readable(d, key, i)
      BY <2>1, <2>2
    <3>3. read = {n \in 0..c : \A i \in 0..(n - 1) : Readable(d, key, i)}
      BY <2>1, <2>3
    <3>. QED
      BY <3>1, <3>2, <3>3
  <2>5. c = CHOOSE n \in read : \A o \in read : o <= n
    <3>1. PICK m : m = CHOOSE n \in read : \A o \in read : o <= n
      OBVIOUS
    <3>2. m \in read /\ \A o \in read : o <= m
      BY <3>1, <2>4
    <3>. QED
      BY <3>1, <3>2, <2>4
  <2>6. PICK list : list = [i \in 1..c |-> (CHOOSE e \in d.entries[i - 1] : TRUE).address]
    OBVIOUS
  <2>7. list = w.addresses
    <3>1. \A i \in 1..c : list[i] = w.addresses[i]
      <4>. SUFFICES ASSUME NEW i \in 1..c PROVE list[i] = w.addresses[i]
        OBVIOUS
      <4>1. i - 1 \in 0..(c - 1) /\ (i - 1) + 1 = i
        BY <2>1
      <4>. QED
        BY <4>1, <2>2, <2>6
    <3>2. w.addresses \in [1..c -> AddressType]
      BY <2>1, Fields, LenProperties
    <3>. QED
      BY <3>1, <3>2, <2>6
  <2>8. PICK v : v = [meta EXCEPT !.loaded = TRUE, !.mnemonic = d.wallet.mnemonic, !.seed = d.wallet.seed,
                                  !.seedIndex = d.wallet.seedIndex, !.count = d.wallet.count,
                                  !.addresses = list, !.map = Keys(list)]
    OBVIOUS
  <2>9. LoadWallet(d, p) = v
    <3>1. ~((d.encrypted /\ p = None) \/ d.wallet.locked # key)
      BY <1>4, <1>11
    <3>. QED
      BY <3>1, <1>1, <1>2, <1>3, <2>3, <2>5, <2>6, <2>8, Zenon DEF LoadWallet
  <2>10. /\ d.wallet.mnemonic = w.mnemonic /\ d.wallet.seed = w.seed /\ d.wallet.seedIndex = w.seedIndex
         /\ d.wallet.count = w.count /\ w \in WalletType /\ w.map = Keys(w.addresses)
    BY Fields DEF Holds, Sound
  <2>11. v \in WalletType
    <3>1. list \in Seq(AddressType)
      BY <2>7, Fields
    <3>2. Keys(list) = w.map /\ w.map \in SUBSET (ImportedKeys \cup SharedKeys \cup (Mnemonics \X (0..MaxSeedIndex)))
      BY <2>7, <2>10 DEF WalletType
    <3>3. /\ d.wallet.mnemonic \in Mnemonics \cup BadMnemonics \cup {None} /\ d.wallet.seed \in Mnemonics \cup {None}
          /\ d.wallet.seedIndex \in 0..(MaxSeedIndex + 1) /\ d.wallet.count \in 0..MaxAddresses
      BY <2>10, Fields
    <3>. QED
      BY <3>1, <3>2, <3>3, <2>8, <1>7 DEF WalletType
  <2>12. /\ v.loaded /\ v.mnemonic = w.mnemonic /\ v.seed = w.seed /\ v.seedIndex = w.seedIndex
         /\ v.count = w.count /\ v.addresses = w.addresses /\ v.map = w.map
         /\ v.encrypted = w.encrypted /\ v.salt = w.salt /\ v.cipher = cipher
    BY <2>7, <2>8, <2>10, <1>4, <1>7, <1>8 DEF WalletType
  <2>13. Sound(v)
    BY <2>11, <2>12, <1>4, <1>5 DEF Sound, Consistent
  <2>14. LockOf(v) = LockOf(w) /\ CanSave(v)
    <3>1. CASE d.encrypted
      BY <3>1, <2>12, <1>1, <1>2, <1>4, <1>11 DEF LockOf, CanSave
    <3>2. CASE ~d.encrypted
      BY <3>2, <2>12, <1>4 DEF LockOf, CanSave
    <3>. QED
      BY <3>1, <3>2
  <2>15. Holds(d, v)
    BY <2>12, <2>14 DEF Holds
  <2>. QED
    BY <2>9, <2>12, <2>13, <2>14, <2>15, <1>1, <1>11
<1>. QED
  BY <1>1, <1>10, <1>11

-----------------------------------------------------------------------------
(* The steps *)

\* What the wallet and the store must be after a step.
After == Sound(wallet') /\ disk' \in DiskType /\ StoreOK' /\ MemoryOK' /\ (disk.saved => disk'.saved)

\* A step that saves a wallet, when the entries it does not write are already right.
LEMMA SaveKeeps ==
  ASSUME Types, StoreOK, NEW w, Sound(w), NEW range \in SUBSET (0..(w.count - 1)), NEW deleted, Save(w, range, deleted),
         CanSave(w) => \A i \in 0..(w.count - 1) : i # deleted /\ (i \in range \/ disk.entries[i] = EntryOf(w, i))
  PROVE  After
<1>1. disk \in DiskType /\ wallet' = w
  BY DEF Types, Save
<1>2. CASE CanSave(w)
  <2>1. disk' = SaveWallet(w, disk, range, deleted)
    BY <1>2 DEF Save
  <2>2. disk' \in DiskType /\ Holds(disk', w)
    BY <1>1, <1>2, <2>1, SavedIsHeld
  <2>. QED
    BY <1>1, <1>2, <2>2 DEF After, StoreOK, MemoryOK, Holds
<1>3. CASE ~CanSave(w)
  <2>1. disk' = disk
    BY <1>3 DEF Save
  <2>. QED
    BY <1>1, <1>3, <2>1 DEF After, StoreOK, MemoryOK
<1>. QED
  BY <1>2, <1>3

\* A new wallet replaces the present one.
LEMMA NewKeeps ==
  ASSUME Types, StoreOK, NEW m \in Mnemonics, SaveLast(NewWallet(m))
  PROVE  After
<1>1. PICK w : w = NewWallet(m) /\ Sound(w) /\ w.count = 1
  BY NewIsSound
<1>2. Save(w, {0}, -1) /\ {0} \in SUBSET (0..(w.count - 1)) /\ \A i \in 0..(w.count - 1) : i # -1 /\ i \in {0}
  BY <1>1 DEF SaveLast
<1>. QED
  BY <1>1, <1>2, SaveKeeps

\* The whole wallet is written.
LEMMA EntireKeeps ==
  ASSUME Types, StoreOK, NEW w, Sound(w), SaveWalletEntire(w)
  PROVE  After
<1>1. PICK range : range = 0..(w.count - 1) /\ range \in SUBSET (0..(w.count - 1))
  OBVIOUS
<1>2. Save(w, range, -1)
  BY <1>1 DEF SaveWalletEntire
<1>3. \A i \in 0..(w.count - 1) : i # -1 /\ i \in range
  BY <1>1, Fields
<1>. QED
  BY <1>1, <1>2, <1>3, SaveKeeps

\* A loaded wallet that is stored, or has nothing to store, grows.
LEMMA GrowKeeps ==
  ASSUME Types, StoreOK, MemoryOK, Sound(wallet), wallet.loaded, NEW v, NEW n \in Nat \ {0}, Grown(wallet, v, n),
         Save(v, wallet.count..(wallet.count + n - 1), -1)
  PROVE  After
<1>1. Sound(v)
  BY GrownIsSound
<1>2. PICK c \in Nat : c = wallet.count /\ v.count = c + n
  BY Fields, Bounds DEF Grown
<1>3. PICK range : range = wallet.count..(wallet.count + n - 1) /\ range \in SUBSET (0..(v.count - 1))
  BY <1>2
<1>4. ASSUME CanSave(v), NEW i \in 0..(v.count - 1)
      PROVE  i # -1 /\ (i \in range \/ disk.entries[i] = EntryOf(v, i))
  <2>1. CASE i \in 0..(c - 1)
    <3>1. CanSave(wallet) /\ LockOf(v) = LockOf(wallet)
      BY <1>4 DEF CanSave, LockOf, Grown
    <3>2. ~Blank(wallet)
      BY <2>1, <1>2 DEF Blank
    <3>3. disk.entries[i] = EntryOf(wallet, i)
      BY <3>1, <3>2, <2>1, <1>2, HeldEntries DEF MemoryOK
    <3>4. i + 1 \in 1..wallet.count
      BY <2>1, <1>2
    <3>5. v.addresses[i + 1] = wallet.addresses[i + 1]
      BY <3>4 DEF Grown
    <3>. QED
      BY <3>1, <3>3, <3>5, <2>1 DEF EntryOf
  <2>2. CASE i \notin 0..(c - 1)
    BY <2>2, <1>2, <1>3
  <2>. QED
    BY <2>1, <2>2
<1>5. Save(v, range, -1)
  BY <1>3
<1>. QED
  BY <1>1, <1>3, <1>4, <1>5, SaveKeeps

\* ... by one address.
LEMMA GrowByOne ==
  ASSUME Types, StoreOK, MemoryOK, Sound(wallet), wallet.loaded, NEW v, Grown(wallet, v, 1), SaveLast(v)
  PROVE  After
<1>1. {v.count - 1} = wallet.count..(wallet.count + 1 - 1)
  BY Fields, Bounds DEF Grown
<1>2. PICK range : range = wallet.count..(wallet.count + 1 - 1) /\ range = {v.count - 1}
  BY <1>1
<1>3. Save(v, range, -1)
  BY <1>2 DEF SaveLast
<1>4. Save(v, wallet.count..(wallet.count + 1 - 1), -1) /\ 1 \in Nat \ {0}
  BY <1>2, <1>3
<1>. QED
  BY <1>4, GrowKeeps

\* An address is removed.
LEMMA ShrinkKeeps ==
  ASSUME Types, StoreOK, MemoryOK, Sound(wallet), wallet.loaded, NEW i \in DOMAIN wallet.addresses,
         SaveRemoval(Without(wallet, i), i)
  PROVE  After
<1>1. PICK c \in Nat : c = wallet.count /\ i \in 1..c /\ i \in 1..wallet.count
  BY Fields, Bounds
<1>2. PICK v : v = Without(wallet, i) /\ Shrunk(wallet, v, i)
  BY <1>1, WithoutShrinks
<1>3. Sound(v)
  BY <1>1, <1>2, ShrunkIsSound
<1>4. v.count = c - 1
  BY <1>1, <1>2 DEF Shrunk
<1>5. PICK range : range = {i - 1} \cap (0..(v.count - 1)) /\ range \in SUBSET (0..(v.count - 1))
  OBVIOUS
<1>6. Save(v, range, c - 1)
  BY <1>2, <1>4, <1>5 DEF SaveRemoval
<1>7. ASSUME CanSave(v), NEW k \in 0..(v.count - 1)
      PROVE  k # c - 1 /\ (k \in range \/ disk.entries[k] = EntryOf(v, k))
  <2>1. k # c - 1 /\ k \in 0..(wallet.count - 1) /\ k + 1 \in 1..(wallet.count - 1)
    BY <1>1, <1>4
  <2>2. CASE k = i - 1
    BY <2>1, <2>2, <1>5
  <2>3. CASE k # i - 1
    <3>1. CanSave(wallet) /\ LockOf(v) = LockOf(wallet)
      BY <1>2, <1>7 DEF CanSave, LockOf, Shrunk
    <3>2. ~Blank(wallet)
      BY <1>1 DEF Blank
    <3>3. disk.entries[k] = EntryOf(wallet, k)
      BY <3>1, <3>2, <2>1, HeldEntries DEF MemoryOK
    <3>4. k + 1 # i
      BY <2>3, <1>1, <1>4
    <3>5. v.addresses[k + 1] = wallet.addresses[k + 1]
      BY <3>4, <2>1, <1>2 DEF Shrunk
    <3>. QED
      BY <3>1, <3>3, <3>5, <2>1 DEF EntryOf
  <2>. QED
    BY <2>2, <2>3
<1>. QED
  BY <1>3, <1>5, <1>6, <1>7, SaveKeeps

\* The stored wallet is read.
LEMMA LoadKeeps ==
  ASSUME Types, StoreOK, disk.saved, NEW p \in Passwords \cup {None}, wallet' = LoadWallet(disk, p), disk' = disk
  PROVE  After
<1>1. PICK w : Sound(w) /\ CanSave(w) /\ Holds(disk, w)
  BY DEF StoreOK
<1>2. disk \in DiskType
  BY DEF Types
<1>3. Sound(wallet') /\ (~wallet'.loaded \/ Holds(disk, wallet'))
  BY <1>1, <1>2, LoadedIsHeld
<1>. QED
  BY <1>2, <1>3 DEF After, StoreOK, MemoryOK

\* Neither the wallet nor the store changes.
LEMMA SameKeeps ==
  ASSUME WalletInvariant, UNCHANGED <<wallet, disk>>
  PROVE  After
BY DEF WalletInvariant, Types, After, StoreOK, MemoryOK

\* The wallet in memory is replaced by one that is not loaded, or that is blank.
LEMMA ReplacedKeeps ==
  ASSUME WalletInvariant, UNCHANGED disk, Sound(wallet'), ~wallet'.loaded \/ Blank(wallet')
  PROVE  After
BY DEF WalletInvariant, Types, After, StoreOK, MemoryOK

\* What is due is shared.
LEMMA DueIsShared ==
  ASSUME NEW w, Sound(w)
  PROVE  Due(w) \subseteq SharedKeys
BY DEF Due, Sound

\* What the steps leave of the types; the store is After's.
Rest ==
    /\ phase' \in {"off", "starting", "on"} /\ stuck' \in BOOLEAN /\ logout' \in BOOLEAN
    /\ staked' \subseteq SharedKeys /\ salts' \in 0..MaxSalts /\ notify' \in SharedKeys \cup {NoKey}
    /\ refresh' \in [runs : BOOLEAN, due : SUBSET SharedKeys]
    /\ phase' # "off" => phase # "off" \/ disk'.saved

\* The wallet, the store and the rest make up the invariant.
LEMMA Together ==
  ASSUME WalletInvariant, After, Rest
  PROVE  WalletInvariant'
BY DEF After, Rest, WalletInvariant, Types, Begun

\* The parts of the invariant, and what the operations that change only wallet and store leave.
LEMMA Parts ==
  ASSUME WalletInvariant
  PROVE  /\ Types /\ Sound(wallet) /\ StoreOK /\ MemoryOK /\ Begun
         /\ NewWallets => Rest
BY DEF WalletInvariant, Types, Rest, NewWallets, others

\* The first state.
LEMMA WalletInit == Init => WalletInvariant
<1>. SUFFICES ASSUME Init PROVE WalletInvariant
  OBVIOUS
<1>1. Sound(wallet) /\ ~wallet.loaded /\ disk = EmptyDisk
  BY ClearIsSound DEF Init
<1>2. PICK r : r = [locked |-> Plain, mnemonic |-> None, seed |-> None, seedIndex |-> 0, count |-> 0]
  OBVIOUS
<1>3. r \in WalletRecord
  BY <1>2, Bounds DEF WalletRecord, Locks
<1>4. EmptyDisk \in DiskType /\ ~EmptyDisk.saved
  BY <1>2, <1>3 DEF EmptyDisk, DiskType
<1>5. /\ phase \in {"off", "starting", "on"} /\ stuck \in BOOLEAN /\ logout \in BOOLEAN
      /\ staked \subseteq SharedKeys /\ salts \in 0..MaxSalts /\ notify \in SharedKeys \cup {NoKey}
  <2>1. 0 \in 0..MaxSalts
    BY Bounds
  <2>. QED
    BY <2>1 DEF Init
<1>6. refresh \in [runs : BOOLEAN, due : SUBSET SharedKeys]
  BY DEF Init
<1>7. Types
  BY <1>1, <1>4, <1>5, <1>6 DEF Types
<1>. QED
  BY <1>1, <1>4, <1>7 DEF Init, WalletInvariant, StoreOK, MemoryOK, Begun

\* The process starts, or dies.
LEMMA StartStep ==
  ASSUME WalletInvariant, CreateWallet \/ InitializeWallet \/ Crash
  PROVE  WalletInvariant'
<1>0. Types /\ Sound(wallet) /\ StoreOK /\ MemoryOK
  BY Parts
<1>1. CASE CreateWallet
  <2>1. disk'.saved
    <3>1. CASE disk.saved
      BY <1>1, <3>1 DEF CreateWallet
    <3>2. CASE ~disk.saved
      <4>1. PICK m \in Mnemonics : SaveLast(NewWallet(m))
        BY <1>1, <3>2 DEF CreateWallet
      <4>2. CanSave(NewWallet(m))
        BY NewIsSound
      <4>. QED
        BY <4>1, <4>2 DEF SaveLast, Save, SaveWallet
    <3>. QED
      BY <3>1, <3>2
  <2>a. Rest
    BY <1>0, <1>1, <2>1 DEF CreateWallet, Types, Rest, others
  <2>2. CASE disk.saved
    BY <2>a, <2>2, <1>0, <1>1, LoadKeeps, Together DEF CreateWallet
  <2>3. CASE ~disk.saved
    BY <2>a, <2>3, <1>0, <1>1, NewKeeps, Together DEF CreateWallet
  <2>. QED
    BY <2>2, <2>3
<1>2. CASE InitializeWallet
  <2>1. Rest
    BY <1>0, <1>2 DEF InitializeWallet, Types, Rest
  <2>. QED
    BY <2>1, <1>2, SameKeeps, Together DEF InitializeWallet
<1>3. CASE Crash
  <2>1. Rest
    BY <1>0, <1>3 DEF Crash, Types, Rest
  <2>2. wallet' = ClearWallet /\ disk' = disk
    BY <1>3 DEF Crash
  <2>3. Sound(wallet') /\ ~wallet'.loaded
    BY <2>2, ClearIsSound
  <2>. QED
    BY <2>1, <2>2, <2>3, ReplacedKeeps, Together
<1>. QED
  BY <1>1, <1>2, <1>3

\* The operations that replace the wallet.
LEMMA ReplaceStep ==
  ASSUME WalletInvariant, CreateEmptyWallet \/ ImportMnemonic \/ ImportEntropy \/ ImportWalletJSON
  PROVE  WalletInvariant'
<1>0. Types /\ Sound(wallet) /\ StoreOK /\ MemoryOK /\ (NewWallets => Rest)
  BY Parts
<1>1. Rest
  BY <1>0 DEF CreateEmptyWallet, ImportMnemonic, ImportEntropy, ImportWalletJSON
<1>2. CASE CreateEmptyWallet
  BY <1>0, <1>1, <1>2, NewKeeps, Together DEF CreateEmptyWallet
<1>3. CASE ImportMnemonic
  <2>1. PICK m \in Mnemonics \cup BadMnemonics :
           IF m \in Mnemonics THEN SaveLast(NewWallet(m))
           ELSE wallet' = [ClearWallet EXCEPT !.loaded = TRUE, !.mnemonic = m] /\ UNCHANGED disk
    BY <1>3 DEF ImportMnemonic
  <2>2. CASE m \in Mnemonics
    BY <2>1, <2>2, <1>0, <1>1, NewKeeps, Together
  <2>3. CASE m \notin Mnemonics
    <3>1. Sound(wallet') /\ Blank(wallet')
      BY <2>1, <2>3, ClearIsSound
    <3>. QED
      BY <2>1, <2>3, <3>1, <1>1, ReplacedKeeps, Together
  <2>. QED
    BY <2>2, <2>3
<1>4. CASE ImportEntropy
  BY <1>0, <1>1, <1>4, NewKeeps, Together DEF ImportEntropy
<1>5. CASE ImportWalletJSON
  <2>1. PICK w \in Files : SaveWalletEntire([w EXCEPT !.cipher = NoKey, !.map = Keys(w.addresses)])
    BY <1>5 DEF ImportWalletJSON
  <2>2. PICK v : v = [w EXCEPT !.cipher = NoKey, !.map = Keys(w.addresses)]
    OBVIOUS
  <2>3. Sound(w) /\ w \in WalletType /\ w.map = Keys(w.addresses)
    BY FilesAssumption, Fields DEF Sound
  <2>4. v \in WalletType
    BY <2>2, <2>3 DEF WalletType
  <2>5. /\ v.map = w.map /\ v.count = w.count /\ v.addresses = w.addresses /\ v.seed = w.seed
        /\ v.seedIndex = w.seedIndex /\ v.cipher = NoKey
    BY <2>2, <2>3 DEF WalletType
  <2>6. Sound(v)
    BY <2>3, <2>4, <2>5 DEF Sound, Consistent
  <2>. QED
    BY <2>1, <2>2, <2>6, <1>0, <1>1, EntireKeeps, Together
<1>. QED
  BY <1>2, <1>3, <1>4, <1>5

\* An address that does not come from the seed is added.
LEMMA ImportKeeps ==
  ASSUME Types, StoreOK, MemoryOK, Sound(wallet), wallet.loaded, wallet.count < MaxAddresses,
         NEW k \in (ImportedKeys \cup SharedKeys) \ wallet.map, NEW shared \in BOOLEAN, shared => k \in SharedKeys,
         SaveLast(Added(wallet, Address(k, 0, TRUE, shared)))
  PROVE  After
<1>1. PICK a : a = Address(k, 0, TRUE, shared)
  OBVIOUS
<1>2. a \in AddressType /\ a.key = k /\ a.imported /\ (a.shared => k \in SharedKeys)
  BY <1>1, Bounds DEF Address, AddressType
<1>3. Grown(wallet, Added(wallet, a), 1)
  BY <1>2, AddedIsGrown
<1>. QED
  BY <1>1, <1>3, GrowByOne

\* The operations that add one address.
LEMMA AddStep ==
  ASSUME WalletInvariant, AddNewAddress \/ ImportSecretKey \/ ImportWalletAddressJSON
  PROVE  WalletInvariant'
<1>0. Types /\ Sound(wallet) /\ StoreOK /\ MemoryOK /\ (NewWallets => Rest)
  BY Parts
<1>1. Rest /\ wallet.loaded /\ wallet.count < MaxAddresses /\ wallet.seedIndex <= MaxSeedIndex
  BY <1>0, Fields DEF AddNewAddress, ImportSecretKey, ImportWalletAddressJSON, Loaded, Room
<1>2. CASE AddNewAddress
  <2>1. Grown(wallet, WithNewAddress(wallet), 1)
    BY <1>0, <1>1, <1>2, NewIsGrown DEF AddNewAddress
  <2>. QED
    BY <2>1, <1>0, <1>1, <1>2, GrowByOne, Together DEF AddNewAddress
<1>3. CASE ImportSecretKey
  <2>1. PICK k \in ImportedKeys \ wallet.map : SaveLast(Added(wallet, Address(k, 0, TRUE, FALSE)))
    BY <1>3 DEF ImportSecretKey
  <2>2. After
    BY <2>1, <1>0, <1>1, ImportKeeps
  <2>. QED
    BY <2>2, <1>1, Together
<1>4. CASE ImportWalletAddressJSON
  <2>1. PICK k \in (ImportedKeys \cup SharedKeys) \ wallet.map :
           SaveLast(Added(wallet, Address(k, 0, TRUE, k \in SharedKeys)))
    BY <1>4 DEF ImportWalletAddressJSON
  <2>2. PICK shared : shared = (k \in SharedKeys)
    OBVIOUS
  <2>a. (shared => k \in SharedKeys) /\ shared \in BOOLEAN
    <3>1. shared => k \in SharedKeys
      BY <2>2, Zenon
    <3>2. shared \in BOOLEAN
      BY <2>2
    <3>. QED
      BY <3>1, <3>2
  <2>3. SaveLast(Added(wallet, Address(k, 0, TRUE, shared)))
    BY <2>1, <2>2, Zenon
  <2>4. After
    BY <2>1, <2>3, <2>a, <1>0, <1>1, ImportKeeps
  <2>. QED
    BY <2>4, <1>1, Together
<1>. QED
  BY <1>2, <1>3, <1>4

\* The keys derived next, one after the other.
LEMMA ScanStep ==
  ASSUME WalletInvariant, CliScanAddresses
  PROVE  WalletInvariant'
<1>0. Types /\ Sound(wallet) /\ StoreOK /\ MemoryOK /\ (NewWallets => Rest)
  BY Parts
<1>1. Rest /\ wallet.loaded /\ wallet.seed # None /\ wallet \in WalletType
  BY <1>0 DEF CliScanAddresses, Loaded, Sound
<1>2. PICK c \in Nat, s \in Nat : /\ c = wallet.count /\ c = Len(wallet.addresses) /\ s = wallet.seedIndex
                                  /\ c \in 0..MaxAddresses
  BY <1>0, Fields, Bounds
<1>3. PICK n \in 1..(MaxAddresses - c) :
         LET new == [i \in 1..n |-> Address(<<wallet.seed, s + i - 1>>, s + i - 1, FALSE, FALSE)]
         IN  /\ s + n <= MaxSeedIndex + 1
             /\ Keys(new) \cap wallet.map = {}
             /\ Save([wallet EXCEPT !.addresses = @ \o new, !.map = @ \cup Keys(new),
                                    !.count = @ + n, !.seedIndex = @ + n], c..(c + n - 1), -1)
  BY <1>2 DEF CliScanAddresses
<1>4. PICK new : new = [i \in 1..n |-> Address(<<wallet.seed, s + i - 1>>, s + i - 1, FALSE, FALSE)]
  OBVIOUS
<1>5. n \in Nat \ {0} /\ c + n \in 0..MaxAddresses /\ s + n \in 0..(MaxSeedIndex + 1)
  <2>1. s + n <= MaxSeedIndex + 1
    BY <1>3
  <2>2. n \in 1..(MaxAddresses - c)
    OBVIOUS
  <2>. QED
    BY <2>1, <2>2, <1>2, Bounds
<1>6. ASSUME NEW i \in 1..n
      PROVE  /\ new[i] \in AddressType /\ new[i].key = <<wallet.seed, s + i - 1>> /\ new[i].seedIndex = s + i - 1
             /\ ~new[i].imported /\ ~new[i].shared /\ s + i - 1 < s + n
  <2>1. PICK j \in 0..MaxSeedIndex : j = s + i - 1 /\ j < s + n
    BY <1>2, <1>5, Bounds
  <2>2. wallet.seed \in Mnemonics
    BY <1>0, <1>1, Fields
  <2>3. new[i] = Address(<<wallet.seed, j>>, j, FALSE, FALSE)
    BY <2>1, <1>4
  <2>. QED
    BY <2>1, <2>2, <2>3 DEF Address, AddressType
<1>7. new \in Seq(AddressType) /\ Len(new) = n /\ DOMAIN new = 1..n
  <2>1. new \in [1..n -> AddressType]
    BY <1>4, <1>6
  <2>. QED
    BY <2>1, <1>5
<1>8. PICK q : q = wallet.addresses \o new
  OBVIOUS
<1>a. /\ q \in Seq(AddressType) /\ Len(q) = c + n
      /\ \A i \in 1..c : q[i] = wallet.addresses[i]
      /\ \A i \in (c + 1)..(c + n) : q[i] = new[i - c]
  <2>1. PICK a \in Seq(AddressType) : a = wallet.addresses /\ Len(a) = c
    BY <1>0, <1>2, Fields
  <2>2. PICK b \in Seq(AddressType), m \in Nat : b = new /\ m = n /\ Len(b) = m
    BY <1>5, <1>7
  <2>3. Joins(a \o b, a, b, c, m)
    BY <2>1, <2>2, ConcatElements
  <2>4. Joins(q, wallet.addresses, new, c, n)
    BY <2>1, <2>2, <2>3, <1>8
  <2>. QED
    BY <2>4 DEF Joins
<1>9. PICK v : v = [wallet EXCEPT !.addresses = q, !.map = @ \cup Keys(new), !.count = @ + n, !.seedIndex = @ + n]
  OBVIOUS
<1>10. Keys(new) = {q[i].key : i \in (c + 1)..(c + n)}
  <2>1. Keys(new) = {new[j].key : j \in 1..n}
    BY <1>7 DEF Keys
  <2>2. ASSUME NEW j \in 1..n
        PROVE  j + c \in (c + 1)..(c + n) /\ q[j + c] = new[j]
    <3>1. j + c \in (c + 1)..(c + n) /\ (j + c) - c = j
      BY <1>2, <1>5
    <3>. QED
      BY <3>1, <1>a
  <2>3. ASSUME NEW i \in (c + 1)..(c + n)
        PROVE  i - c \in 1..n /\ q[i] = new[i - c]
    BY <1>2, <1>5, <1>a
  <2>. QED
    BY <2>1, <2>2, <2>3
<1>11. Keys(new) \subseteq ImportedKeys \cup SharedKeys \cup (Mnemonics \X (0..MaxSeedIndex))
  BY <1>6, <1>7 DEF Keys, AddressType
<1>12. v \in WalletType
  BY <1>1, <1>2, <1>5, <1>a, <1>9, <1>11 DEF WalletType
<1>13. /\ v.addresses = q /\ v.map = wallet.map \cup Keys(new) /\ v.count = c + n /\ v.seedIndex = s + n
       /\ v.loaded = wallet.loaded /\ v.mnemonic = wallet.mnemonic /\ v.seed = wallet.seed
       /\ v.encrypted = wallet.encrypted /\ v.salt = wallet.salt /\ v.cipher = wallet.cipher
  BY <1>1, <1>2, <1>9 DEF WalletType
<1>14. ASSUME NEW i \in (c + 1)..(c + n)
       PROVE  /\ q[i].key \notin wallet.map /\ q[i].key = <<wallet.seed, s + (i - c) - 1>> /\ ~q[i].shared
              /\ ~q[i].imported /\ q[i].seedIndex = s + (i - c) - 1 /\ q[i].seedIndex < s + n
  <2>1. i - c \in 1..n /\ q[i] = new[i - c]
    BY <1>2, <1>5, <1>a
  <2>2. q[i].key \notin wallet.map
    BY <1>3, <1>4, <1>10
  <2>. QED
    BY <2>1, <2>2, <1>6
<1>15. ASSUME NEW i \in (c + 1)..(c + n), NEW j \in (c + 1)..(c + n), q[i].key = q[j].key
       PROVE  i = j
  <2>1. PICK x, y : x = s + (i - c) - 1 /\ y = s + (j - c) - 1
    OBVIOUS
  <2>2. q[i].key = <<wallet.seed, x>> /\ q[j].key = <<wallet.seed, y>>
    BY <2>1, <1>14
  <2>3. x = y
    BY <2>2, <1>15
  <2>4. i \in Int /\ j \in Int
    OBVIOUS
  <2>. QED
    BY <2>1, <2>3, <2>4, Cancel
<1>16. s + n >= s
  BY <1>2, <1>5
<1>17. Grown(wallet, v, n)
  <2>1. \A i \in (wallet.count + 1)..(wallet.count + n) :
           LET a == v.addresses[i]
           IN  /\ a.key \notin wallet.map /\ (a.shared => a.key \in SharedKeys)
               /\ ~a.imported => a.key = <<v.seed, a.seedIndex>> /\ a.seedIndex < v.seedIndex
    BY <1>2, <1>13, <1>14
  <2>2. \A i, j \in (wallet.count + 1)..(wallet.count + n) : v.addresses[i].key = v.addresses[j].key => i = j
    BY <1>2, <1>13, <1>15
  <2>3. v.map = wallet.map \cup {v.addresses[i].key : i \in (wallet.count + 1)..(wallet.count + n)}
    BY <1>2, <1>10, <1>13
  <2>. QED
    BY <2>1, <2>2, <2>3, <1>2, <1>a, <1>12, <1>13, <1>16 DEF Grown
<1>18. Save(v, wallet.count..(wallet.count + n - 1), -1)
  BY <1>2, <1>3, <1>4, <1>8, <1>9
<1>. QED
  BY <1>0, <1>1, <1>5, <1>17, <1>18, GrowKeeps, Together

\* The operations that select, remove and rename an address.
LEMMA RemoveStep ==
  ASSUME WalletInvariant, RemoveAddressByPublicKey \/ CliSelectAddress \/ RemoveAddressByIndex \/ RenameAddressByPublicKey
  PROVE  WalletInvariant'
<1>0. Types /\ Sound(wallet) /\ StoreOK /\ MemoryOK /\ (NewWallets => Rest)
  BY Parts
<1>1. Rest
  BY <1>0 DEF RemoveAddressByPublicKey, CliSelectAddress, RemoveAddressByIndex, RenameAddressByPublicKey, Types, Rest, vars
<1>2. CASE RemoveAddressByPublicKey
  <2>1. PICK i \in DOMAIN wallet.addresses : SaveRemoval(Without(wallet, i), i)
    BY <1>2 DEF RemoveAddressByPublicKey, IndexOf
  <2>. QED
    BY <2>1, <1>0, <1>1, <1>2, ShrinkKeeps, Together DEF RemoveAddressByPublicKey, Loaded
<1>3. CASE CliSelectAddress
  BY <1>1, <1>3, SameKeeps, Together DEF CliSelectAddress
<1>4. CASE RemoveAddressByIndex
  <2>1. PICK c \in cli : IF wallet.loaded /\ c.index \in DOMAIN wallet.addresses
                         THEN SaveRemoval(Without(wallet, c.index), c.index) ELSE UNCHANGED <<wallet, disk>>
    BY <1>4 DEF RemoveAddressByIndex
  <2>2. CASE wallet.loaded /\ c.index \in DOMAIN wallet.addresses
    BY <2>1, <2>2, <1>0, <1>1, ShrinkKeeps, Together
  <2>3. CASE ~(wallet.loaded /\ c.index \in DOMAIN wallet.addresses)
    BY <2>1, <2>3, <1>1, SameKeeps, Together
  <2>. QED
    BY <2>2, <2>3
<1>5. CASE RenameAddressByPublicKey
  BY <1>1, <1>5, SameKeeps, Together DEF RenameAddressByPublicKey, vars
<1>. QED
  BY <1>2, <1>3, <1>4, <1>5

\* A password is set or removed.
LEMMA EncryptStep ==
  ASSUME WalletInvariant, Encrypt \/ RemoveEncryption
  PROVE  WalletInvariant'
<1>0. Types /\ Sound(wallet) /\ StoreOK /\ MemoryOK /\ (NewWallets => Rest)
  BY Parts
<1>1. wallet \in WalletType
  BY <1>0 DEF Sound
<1>2. CASE Encrypt
  <2>1. PICK p \in Passwords :
           SaveWalletEntire([wallet EXCEPT !.encrypted = TRUE, !.salt = salts + 1, !.cipher = <<p, salts + 1>>])
    BY <1>2 DEF Encrypt
  <2>2. salts + 1 \in Nat /\ salts + 1 \in 0..MaxSalts
    <3>1. salts \in 0..MaxSalts /\ salts < MaxSalts
      BY <1>0, <1>2 DEF Encrypt, Types
    <3>. QED
      BY <3>1, Bounds
  <2>3. Rest
    BY <1>0, <1>2, <2>2 DEF Encrypt, Types, Rest, others
  <2>4. PICK v : v = [wallet EXCEPT !.encrypted = TRUE, !.salt = salts + 1, !.cipher = <<p, salts + 1>>]
    OBVIOUS
  <2>5. v \in WalletType
    BY <2>2, <2>4, <1>1 DEF WalletType
  <2>6. /\ v.map = wallet.map /\ v.count = wallet.count /\ v.addresses = wallet.addresses /\ v.seed = wallet.seed
        /\ v.seedIndex = wallet.seedIndex /\ v.cipher[2] = v.salt
    BY <2>4, <1>1 DEF WalletType
  <2>7. Sound(v)
    BY <2>5, <2>6, <1>0 DEF Sound, Consistent
  <2>. QED
    BY <2>1, <2>3, <2>4, <2>7, <1>0, EntireKeeps, Together
<1>3. CASE RemoveEncryption
  <2>1. PICK v : v = [wallet EXCEPT !.encrypted = FALSE, !.salt = 0, !.cipher = NoKey]
    OBVIOUS
  <2>2. v \in WalletType
    BY <2>1, <1>1 DEF WalletType
  <2>3. /\ v.map = wallet.map /\ v.count = wallet.count /\ v.addresses = wallet.addresses /\ v.seed = wallet.seed
        /\ v.seedIndex = wallet.seedIndex /\ v.cipher = NoKey
    BY <2>1, <1>1 DEF WalletType
  <2>4. Sound(v)
    BY <2>2, <2>3, <1>0 DEF Sound, Consistent
  <2>. QED
    BY <2>1, <2>4, <1>0, <1>3, EntireKeeps, Together DEF RemoveEncryption
<1>. QED
  BY <1>2, <1>3

\* The owner logs in or out.
LEMMA LoginStep ==
  ASSUME WalletInvariant, Logout \/ LogoutLoads \/ Decrypt
  PROVE  WalletInvariant'
<1>0. Types /\ Sound(wallet) /\ StoreOK /\ MemoryOK /\ Begun
  BY Parts
<1>1. CASE Logout
  <2>1. Rest
    BY <1>0, <1>1 DEF Logout, Types, Rest, others
  <2>2. wallet' = ClearWallet /\ disk' = disk
    BY <1>1 DEF Logout
  <2>3. Sound(wallet') /\ ~wallet'.loaded
    BY <2>2, ClearIsSound
  <2>. QED
    BY <2>1, <2>2, <2>3, ReplacedKeeps, Together
<1>2. CASE LogoutLoads
  <2>1. Rest
    BY <1>0, <1>2 DEF LogoutLoads, Types, Rest, others
  <2>2. CASE wallet.loaded
    BY <2>1, <2>2, <1>2, SameKeeps, Together DEF LogoutLoads
  <2>3. CASE ~wallet.loaded
    BY <2>1, <2>3, <1>0, <1>2, LoadKeeps, Together DEF LogoutLoads, Begun, Running
  <2>. QED
    BY <2>2, <2>3
<1>3. CASE Decrypt
  <2>1. Rest
    BY <1>0, <1>3 DEF Decrypt, Types, Rest, others
  <2>. QED
    BY <2>1, <1>0, <1>3, LoadKeeps, Together DEF Decrypt
<1>. QED
  BY <1>1, <1>2, <1>3

\* The chain and the delegators.
LEMMA DelegatorStep ==
  ASSUME WalletInvariant, StakeChanges \/ DelegatorNotify \/ AddSharedStakedAddress
  PROVE  WalletInvariant'
<1>0. Types /\ Sound(wallet) /\ StoreOK /\ MemoryOK
  BY Parts
<1>1. CASE StakeChanges
  <2>1. Rest
    BY <1>0, <1>1 DEF StakeChanges, Types, Rest, others
  <2>. QED
    BY <2>1, <1>1, SameKeeps, Together DEF StakeChanges
<1>2. CASE DelegatorNotify
  <2>1. Rest
    BY <1>0, <1>2 DEF DelegatorNotify, Types, Rest
  <2>. QED
    BY <2>1, <1>2, SameKeeps, Together DEF DelegatorNotify
<1>3. CASE AddSharedStakedAddress
  <2>1. Rest
    BY <1>0, <1>3 DEF AddSharedStakedAddress, Types, Rest
  <2>2. CASE /\ wallet.loaded /\ wallet.count <= DELEGATES_MAXIMUM
             /\ notify \notin wallet.map /\ Len(wallet.addresses) < MaxAddresses
    <3>1. notify \in (ImportedKeys \cup SharedKeys) \ wallet.map /\ notify \in SharedKeys
      BY <2>2, <1>0, <1>3 DEF AddSharedStakedAddress, Types
    <3>2. SaveLast(Added(wallet, Address(notify, 0, TRUE, TRUE)))
      BY <2>2, <1>3 DEF AddSharedStakedAddress
    <3>3. wallet.loaded /\ wallet.count < MaxAddresses
      BY <2>2, <1>0, Fields
    <3>4. After
      BY <3>1, <3>2, <3>3, <1>0, ImportKeeps
    <3>. QED
      BY <3>4, <2>1, Together
  <2>3. CASE ~(/\ wallet.loaded /\ wallet.count <= DELEGATES_MAXIMUM
               /\ notify \notin wallet.map /\ Len(wallet.addresses) < MaxAddresses)
    BY <2>1, <2>3, <1>3, SameKeeps, Together DEF AddSharedStakedAddress
  <2>. QED
    BY <2>2, <2>3
<1>. QED
  BY <1>1, <1>2, <1>3

\* The thread that refreshes the addresses.
LEMMA RefreshStep ==
  ASSUME WalletInvariant, ProcessRefreshWallets \/ RefreshWalletAccount
  PROVE  WalletInvariant'
<1>0. Types /\ Sound(wallet) /\ StoreOK /\ MemoryOK
  BY Parts
<1>1. refresh \in [runs : BOOLEAN, due : SUBSET SharedKeys]
  BY <1>0 DEF Types
<1>2. CASE ProcessRefreshWallets
  <2>1. refresh' \in [runs : BOOLEAN, due : SUBSET SharedKeys]
    BY <1>0, <1>2, DueIsShared DEF ProcessRefreshWallets
  <2>2. Rest
    BY <2>1, <1>0, <1>2 DEF ProcessRefreshWallets, Types, Rest
  <2>. QED
    BY <2>2, <1>2, SameKeeps, Together DEF ProcessRefreshWallets
<1>3. CASE RefreshWalletAccount
  <2>1. PICK k \in refresh.due :
          /\ refresh' = IF wallet.loaded THEN [runs |-> TRUE, due |-> refresh.due \ {k}]
                        ELSE [runs |-> FALSE, due |-> {}]
          /\ IF wallet.loaded /\ k \in wallet.map
             THEN \E i \in IndexOf(wallet, k) : SaveRemoval(Without(wallet, i), i)
             ELSE UNCHANGED <<wallet, disk>>
    BY <1>3 DEF RefreshWalletAccount
  <2>2. refresh' \in [runs : BOOLEAN, due : SUBSET SharedKeys]
    BY <2>1, <1>1
  <2>3. Rest
    BY <2>2, <1>0, <1>3 DEF RefreshWalletAccount, Types, Rest
  <2>4. CASE wallet.loaded /\ k \in wallet.map
    <3>1. PICK i \in DOMAIN wallet.addresses : SaveRemoval(Without(wallet, i), i)
      BY <2>1, <2>4 DEF IndexOf
    <3>. QED
      BY <3>1, <2>3, <2>4, <1>0, ShrinkKeeps, Together
  <2>5. CASE ~(wallet.loaded /\ k \in wallet.map)
    BY <2>1, <2>3, <2>5, SameKeeps, Together
  <2>. QED
    BY <2>4, <2>5
<1>. QED
  BY <1>2, <1>3

\* Every step keeps the invariant.
LEMMA WalletNext == WalletInvariant /\ [Next]_vars => WalletInvariant'
<1>. SUFFICES ASSUME WalletInvariant, [Next]_vars PROVE WalletInvariant'
  OBVIOUS
<1>1. CASE UNCHANGED vars
  <2>1. Rest
    BY <1>1, Parts DEF vars, Rest, Types
  <2>. QED
    BY <1>1, <2>1, SameKeeps, Together DEF vars
<1>. QED
  BY <1>1, StartStep, ReplaceStep, AddStep, ScanStep, RemoveStep, EncryptStep, LoginStep, DelegatorStep, RefreshStep
  DEF Next

-----------------------------------------------------------------------------
(* The theorems *)

\* What is stored in full opens, and gives back the wallet that was saved.
LEMMA InvariantIsSafe == WalletInvariant => WalletIsSafe
<1>. SUFFICES ASSUME WalletInvariant PROVE WalletIsSafe
  OBVIOUS
<1>0. Types /\ Sound(wallet) /\ StoreOK /\ MemoryOK /\ disk \in DiskType
  BY Parts DEF Types
<1>1. TypeOK /\ WalletIsConsistent
  BY <1>0 DEF Types, Sound, TypeOK, WalletIsConsistent
<1>2. StoredWalletOpens
  <2>. SUFFICES ASSUME disk.saved
                PROVE  LET key == disk.wallet.locked
                       IN  /\ IF disk.encrypted THEN \E p \in Passwords : key = <<p, disk.salt>> ELSE key = Plain
                           /\ \A i \in 0..(disk.wallet.count - 1) : Readable(disk, key, i)
    BY DEF StoredWalletOpens
  <2>1. PICK w : Sound(w) /\ CanSave(w) /\ Holds(disk, w)
    BY <1>0 DEF StoreOK
  <2>2. disk.wallet.locked = LockOf(w) /\ disk.wallet.count = w.count /\ disk.encrypted = w.encrypted /\ disk.salt = w.salt
    BY <2>1 DEF Holds
  <2>3. IF disk.encrypted THEN \E p \in Passwords : LockOf(w) = <<p, disk.salt>> ELSE LockOf(w) = Plain
    <3>1. CASE disk.encrypted
      <4>1. w.cipher \in Passwords \X Nat /\ w.cipher[2] = disk.salt /\ LockOf(w) = w.cipher
        BY <3>1, <2>1, <2>2, Fields DEF CanSave, LockOf, Sound
      <4>. QED
        BY <3>1, <4>1
    <3>2. CASE ~disk.encrypted
      BY <3>2, <2>2 DEF LockOf
    <3>. QED
      BY <3>1, <3>2
  <2>4. \A i \in 0..(w.count - 1) : Readable(disk, LockOf(w), i)
    <3>. SUFFICES ASSUME NEW i \in 0..(w.count - 1) PROVE Readable(disk, LockOf(w), i)
      OBVIOUS
    <3>1. PICK r : r = [locked |-> LockOf(w), address |-> w.addresses[i + 1]]
      OBVIOUS
    <3>2. disk.entries[i] = {r} /\ r.locked = LockOf(w)
      BY <3>1, <2>1, HeldEntries DEF EntryOf
    <3>. QED
      BY <3>2 DEF Readable
  <2>. QED
    BY <2>2, <2>3, <2>4
<1>3. MemoryIsStored
  <2>. SUFFICES ASSUME wallet.loaded, ~Unsaved
                PROVE  LET p == IF wallet.encrypted THEN wallet.cipher[1] ELSE None
                           again == LoadWallet(disk, p)
                       IN  /\ <<again.mnemonic, again.seed, again.seedIndex>> = <<wallet.mnemonic, wallet.seed, wallet.seedIndex>>
                           /\ again.addresses = wallet.addresses
                           /\ again.encrypted = wallet.encrypted
    BY DEF MemoryIsStored
  <2>1. CanSave(wallet) /\ ~Blank(wallet)
    BY DEF Unsaved, Blank
  <2>2. Holds(disk, wallet)
    BY <2>1, <1>0 DEF MemoryOK
  <2>3. PICK p : p = IF wallet.encrypted THEN wallet.cipher[1] ELSE None
    OBVIOUS
  <2>4. disk.encrypted = wallet.encrypted /\ disk.salt = wallet.salt
    BY <2>2 DEF Holds
  <2>5. /\ p \in Passwords \cup {None} /\ ~(disk.encrypted /\ p = None)
        /\ LockOf(wallet) = IF disk.encrypted THEN <<p, disk.salt>> ELSE Plain
    <3>1. CASE wallet.encrypted
      <4>1. wallet.cipher \in Passwords \X Nat /\ wallet.cipher[2] = wallet.salt /\ LockOf(wallet) = wallet.cipher
        BY <3>1, <2>1, <1>0, Fields DEF CanSave, LockOf, Sound
      <4>. QED
        BY <3>1, <4>1, <2>3, <2>4, WalletAssumption
    <3>2. CASE ~wallet.encrypted
      BY <3>2, <2>3, <2>4 DEF LockOf
    <3>. QED
      BY <3>1, <3>2
  <2>6. PICK v : v = LoadWallet(disk, p) /\ Holds(disk, v) /\ v.addresses = wallet.addresses
    BY <2>1, <2>2, <2>5, <1>0, LoadedIsHeld
  <2>7. v.mnemonic = wallet.mnemonic /\ v.seed = wallet.seed /\ v.seedIndex = wallet.seedIndex /\ v.encrypted = wallet.encrypted
    BY <2>2, <2>6 DEF Holds
  <2>. QED
    BY <2>3, <2>6, <2>7
<1>. QED
  BY <1>1, <1>2, <1>3 DEF WalletIsSafe

\* Neither a crash nor any order of operations leaves a wallet that contradicts itself, a
\* stored one that does not open, or a loaded one that is not stored, for any keys, files,
\* passwords and limits (saveWallet, loadWallet and the operations that use them).
THEOREM WalletCorrect == Spec => []WalletIsSafe
BY WalletInit, WalletNext, InvariantIsSafe, PTL DEF Spec

\* What is saved from a wallet that is stored has its seed.
LEMMA SavedSeed ==
  ASSUME WalletInvariant, wallet.loaded, ~Unsaved, NEW v, NEW range, NEW deleted, Save(v, range, deleted),
         v.seed = wallet.seed
  PROVE  disk'.wallet.seed = disk.wallet.seed
<1>1. Holds(disk, wallet)
  BY Parts DEF MemoryOK, Unsaved, Blank
<1>2. disk.wallet.seed = wallet.seed
  BY <1>1 DEF Holds
<1>3. disk' = disk \/ disk'.wallet.seed = v.seed
  BY DEF Save, SaveWallet
<1>. QED
  BY <1>2, <1>3

\* The operations on addresses and passwords keep the seed.
LEMMA SeedOfOperations ==
  ASSUME NEW w \in WalletType
  PROVE  /\ \A a : Added(w, a).seed = w.seed
         /\ WithNewAddress(w).seed = w.seed
         /\ \A i : Without(w, i).seed = w.seed
BY DEF WalletType, Added, WithNewAddress, Without

\* A stored seed is given up only by an operation that replaces wallets, or for a wallet in
\* memory that has itself lost its seed or its password, whatever crashes, logs in or out,
\* and races (Logout, loadWallet, saveWallet).
THEOREM SeedIsNotLost == Spec => SeedIsKept
<1>1. ASSUME WalletInvariant, [Next]_vars, disk.saved, disk'.wallet.seed # disk.wallet.seed
      PROVE  (wallet.loaded /\ Unsaved) \/ CreateEmptyWallet \/ ImportMnemonic \/ ImportEntropy \/ ImportWalletJSON
  <2>0. SUFFICES ASSUME ~(wallet.loaded /\ Unsaved) PROVE CreateEmptyWallet \/ ImportMnemonic \/ ImportEntropy \/ ImportWalletJSON
    OBVIOUS
  <2>1. wallet \in WalletType
    BY <1>1, Parts DEF Sound
  <2>2. disk' # disk
    BY <1>1
  <2>3. ASSUME NEW v, NEW range, NEW deleted, Save(v, range, deleted), wallet.loaded, v.seed = wallet.seed
        PROVE  FALSE
    BY <1>1, <2>0, <2>3, SavedSeed
  <2>4. CASE CreateWallet
    BY <2>2, <2>4, <1>1 DEF CreateWallet
  <2>5. CASE AddNewAddress
    BY <2>1, <2>3, <2>5, SeedOfOperations DEF AddNewAddress, Loaded, SaveLast
  <2>6. CASE ImportSecretKey
    BY <2>1, <2>3, <2>6, SeedOfOperations DEF ImportSecretKey, Loaded, SaveLast
  <2>7. CASE ImportWalletAddressJSON
    BY <2>1, <2>3, <2>7, SeedOfOperations DEF ImportWalletAddressJSON, Loaded, SaveLast
  <2>8. CASE CliScanAddresses
    <3>1. PICK n, new : Save([wallet EXCEPT !.addresses = @ \o new, !.map = @ \cup Keys(new),
                                            !.count = @ + n, !.seedIndex = @ + n],
                             Len(wallet.addresses)..(Len(wallet.addresses) + n - 1), -1)
      BY <2>8 DEF CliScanAddresses
    <3>2. [wallet EXCEPT !.addresses = @ \o new, !.map = @ \cup Keys(new),
                         !.count = @ + n, !.seedIndex = @ + n].seed = wallet.seed
      BY <2>1 DEF WalletType
    <3>. QED
      BY <3>1, <3>2, <2>3, <2>8 DEF CliScanAddresses, Loaded
  <2>9. CASE RemoveAddressByPublicKey
    BY <2>1, <2>3, <2>9, SeedOfOperations DEF RemoveAddressByPublicKey, Loaded, SaveRemoval
  <2>10. CASE RemoveAddressByIndex
    BY <2>1, <2>2, <2>3, <2>10, SeedOfOperations DEF RemoveAddressByIndex, SaveRemoval
  <2>11. CASE Encrypt
    <3>1. PICK p : Save([wallet EXCEPT !.encrypted = TRUE, !.salt = salts + 1, !.cipher = <<p, salts + 1>>],
                        0..([wallet EXCEPT !.encrypted = TRUE, !.salt = salts + 1, !.cipher = <<p, salts + 1>>].count - 1), -1)
      BY <2>11 DEF Encrypt, SaveWalletEntire
    <3>2. [wallet EXCEPT !.encrypted = TRUE, !.salt = salts + 1, !.cipher = <<p, salts + 1>>].seed = wallet.seed
      BY <2>1 DEF WalletType
    <3>. QED
      BY <3>1, <3>2, <2>3, <2>11 DEF Encrypt
  <2>12. CASE RemoveEncryption
    <3>1. [wallet EXCEPT !.encrypted = FALSE, !.salt = 0, !.cipher = NoKey].seed = wallet.seed
      BY <2>1 DEF WalletType
    <3>. QED
      BY <3>1, <2>3, <2>12 DEF RemoveEncryption, SaveWalletEntire
  <2>13. CASE AddSharedStakedAddress
    BY <2>1, <2>2, <2>3, <2>13, SeedOfOperations DEF AddSharedStakedAddress, SaveLast
  <2>14. CASE RefreshWalletAccount
    BY <2>1, <2>2, <2>3, <2>14, SeedOfOperations DEF RefreshWalletAccount, SaveRemoval
  <2>15. CASE \/ InitializeWallet \/ Crash \/ CliSelectAddress \/ RenameAddressByPublicKey \/ Logout \/ LogoutLoads
              \/ Decrypt \/ StakeChanges \/ DelegatorNotify \/ ProcessRefreshWallets \/ UNCHANGED vars
    BY <2>2, <2>15 DEF InitializeWallet, Crash, CliSelectAddress, RenameAddressByPublicKey, Logout, LogoutLoads, Decrypt,
                       StakeChanges, DelegatorNotify, ProcessRefreshWallets, vars
  <2>. QED
    BY <1>1, <2>4, <2>5, <2>6, <2>7, <2>8, <2>9, <2>10, <2>11, <2>12, <2>13, <2>14, <2>15 DEF Next
<1>2. WalletInvariant /\ [Next]_vars =>
        [disk.saved /\ disk'.wallet.seed # disk.wallet.seed =>
          (wallet.loaded /\ Unsaved) \/ CreateEmptyWallet \/ ImportMnemonic \/ ImportEntropy \/ ImportWalletJSON]_vars
  BY <1>1
<1>. QED
  BY <1>2, WalletInit, WalletNext, PTL DEF Spec, SeedIsKept
=============================================================================
