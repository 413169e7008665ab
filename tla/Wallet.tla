------------------------------- MODULE Wallet -------------------------------
(***************************************************************************)
(* The wallet: the addresses in memory, their copy in the store, and the   *)
(* operations of the command line, the API, the delegators and the thread  *)
(* that refreshes the addresses.                                           *)
(*                                                                         *)
(* An operation holds wallet.Lock from its first line to its last and      *)
(* writes the store in one transaction, so it is one action; what is read  *)
(* before the lock is taken, or used after it was released, is an action   *)
(* of its own.  The process may die between any two actions.               *)
(*                                                                         *)
(* A mnemonic stands for the seed it gives, <<m, i>> for the key derived   *)
(* from the seed at index i, and a cipher <<p, s>> for the key that Argon2 *)
(* derives from a password and a salt.  The calls that tell the forger of  *)
(* an address are the asks of Forging.AddWallet.                           *)
(***************************************************************************)
EXTENDS Integers, Sequences, FiniteSets

CONSTANTS
    Mnemonics,      \* mnemonics with a right checksum
    BadMnemonics,   \* texts that are no mnemonics
    ImportedKeys,   \* keys that may be imported; some may be derived from a seed
    SharedKeys,     \* keys that delegators share
    Files,          \* wallets that were exported as JSON
    Passwords,      \* passwords, none of them empty
    DELEGATES_MAXIMUM,
    MaxAddresses,   \* bound: addresses in the wallet
    MaxSeedIndex,   \* bound: keys derived from a seed
    MaxSalts,       \* bound: encryptions
    MaxPending      \* bound: goroutines between two of their actions

None == "none"      \* no mnemonic, seed or password
NoKey == <<>>       \* no key, no cipher
Plain == <<"plain">> \* what a record is locked with when nothing is encrypted

ASSUME WalletAssumption == /\ Mnemonics \cap BadMnemonics = {} /\ None \notin Mnemonics \cup BadMnemonics
                           /\ SharedKeys \cap ImportedKeys = {} /\ None \notin Passwords
                           /\ {DELEGATES_MAXIMUM, MaxAddresses, MaxSeedIndex, MaxSalts, MaxPending} \subseteq Nat
                           /\ MaxAddresses > 0

VARIABLES
    phase,   \* of the process: off, starting (until InitializeWallet) or on
    wallet,  \* the Wallet in memory
    disk,    \* StoreWallet
    salts,   \* salts drawn
    staked,  \* the shared keys whose accounts hold enough stake, on the chain
    stuck,   \* a goroutine that holds wallet.Lock waits for it
    logout,  \* Logout has released the lock and not yet loaded
    notify,  \* a key DelegatorNotify has looked up
    cli,     \* the address the user selected: its index, and its key
    refresh  \* processRefreshWallets: whether it runs, and the addresses it is going to remove

vars == <<phase, wallet, disk, salts, staked, stuck, logout, notify, cli, refresh>>
others == <<notify, cli, refresh>>

\* clearWallet: also what createWallet starts with.
ClearWallet == [loaded |-> FALSE, mnemonic |-> None, seed |-> None, seedIndex |-> 0, count |-> 0,
                addresses |-> <<>>, map |-> {}, encrypted |-> FALSE, salt |-> 0, cipher |-> NoKey]

Keys(addresses) == {addresses[i].key : i \in DOMAIN addresses}

AddressType == [key : ImportedKeys \cup SharedKeys \cup (Mnemonics \X (0..MaxSeedIndex)),
                seedIndex : 0..MaxSeedIndex, imported : BOOLEAN, shared : BOOLEAN]

WalletType ==
    [loaded : BOOLEAN, mnemonic : Mnemonics \cup BadMnemonics \cup {None}, seed : Mnemonics \cup {None},
     seedIndex : 0..(MaxSeedIndex + 1), count : 0..MaxAddresses, addresses : Seq(AddressType),
     map : SUBSET (ImportedKeys \cup SharedKeys \cup (Mnemonics \X (0..MaxSeedIndex))),
     encrypted : BOOLEAN, salt : Nat, cipher : {NoKey} \cup (Passwords \X Nat)]

\* The list, the map and the count say the same, no key is there twice, and each address that
\* is not imported comes from the seed, below the index that the next one gets.
Consistent(w) ==
    /\ w.map = Keys(w.addresses) /\ w.count = Len(w.addresses)
    /\ \A i, j \in DOMAIN w.addresses : w.addresses[i].key = w.addresses[j].key => i = j
    /\ \A i \in DOMAIN w.addresses :
          LET a == w.addresses[i]
          IN  ~a.imported => a.key = <<w.seed, a.seedIndex>> /\ a.seedIndex < w.seedIndex

\* What is shared is a delegator's, what is encrypted has the wallet's salt.
Sound(w) ==
    /\ w \in WalletType /\ Consistent(w)
    /\ \A i \in DOMAIN w.addresses : w.addresses[i].shared => w.addresses[i].key \in SharedKeys
    /\ w.cipher # NoKey => w.cipher[2] = w.salt

\* A file was exported by a wallet.
ASSUME FilesAssumption == \A w \in Files : Sound(w)

-----------------------------------------------------------------------------
(* The store *)

EmptyDisk == [saved |-> FALSE, encrypted |-> FALSE, salt |-> 0,
              entries |-> [i \in 0..(MaxAddresses - 1) |-> {}],
              wallet |-> [locked |-> Plain, mnemonic |-> None, seed |-> None, seedIndex |-> 0, count |-> 0]]

\* encryptData: what a record is locked with.
LockOf(w) == IF w.encrypted THEN w.cipher ELSE Plain

\* encryptData of a wallet whose cipher was never made dereferences nil, and nothing is written.
CanSave(w) == w.encrypted => w.cipher # NoKey

\* saveWallet: the wallet's own record, the entries of the addresses in a range, and one
\* entry deleted, in one transaction.
SaveWallet(w, d, range, deleted) ==
    [saved |-> TRUE, encrypted |-> w.encrypted, salt |-> w.salt,
     wallet |-> [locked |-> LockOf(w), mnemonic |-> w.mnemonic, seed |-> w.seed,
                 seedIndex |-> w.seedIndex, count |-> w.count],
     entries |-> [i \in DOMAIN d.entries |->
                    IF i = deleted THEN {}
                    ELSE IF i \in range THEN {[locked |-> LockOf(w), address |-> w.addresses[i + 1]]}
                    ELSE d.entries[i]]]

\* The step of an operation that ends in saveWallet.
Save(w, range, deleted) ==
    /\ wallet' = w
    /\ disk' = IF CanSave(w) THEN SaveWallet(w, disk, range, deleted) ELSE disk

SaveWalletEntire(w) == Save(w, 0..(w.count - 1), -1)

Readable(d, key, i) == \E e \in d.entries[i] : e.locked = key

\* loadWallet: the wallet in memory after it.  A wrong password, or an address that cannot
\* be read, leaves what was read so far; "loaded" is in the record, so it is read too.
LoadWallet(d, password) ==
    LET key == IF d.encrypted THEN <<password, d.salt>> ELSE Plain
        meta == [ClearWallet EXCEPT !.encrypted = d.encrypted, !.salt = d.salt,
                                    !.cipher = IF d.encrypted /\ password # None THEN key ELSE NoKey]
    IN  IF (d.encrypted /\ password = None) \/ d.wallet.locked # key THEN meta
        ELSE LET read == {n \in 0..d.wallet.count : \A i \in 0..(n - 1) : Readable(d, key, i)}
                 n == CHOOSE n \in read : \A o \in read : o <= n
                 list == [i \in 1..n |-> (CHOOSE e \in d.entries[i - 1] : TRUE).address]
             IN  [meta EXCEPT !.loaded = TRUE, !.mnemonic = d.wallet.mnemonic, !.seed = d.wallet.seed,
                              !.seedIndex = d.wallet.seedIndex, !.count = d.wallet.count,
                              !.addresses = list, !.map = Keys(list)]

-----------------------------------------------------------------------------
(* The operations on addresses, without their locks *)

\* GenerateKeys: fails without a seed.
NextKey(w) == <<w.seed, w.seedIndex>>

\* AddAddress and AddSharedStakedAddress: the list, the map, and the count.
Added(w, a) == [w EXCEPT !.addresses = Append(@, a), !.map = @ \cup {a.key}, !.count = @ + 1]

Address(k, index, imported, shared) ==
    [key |-> k, seedIndex |-> index, imported |-> imported, shared |-> shared]

\* AddNewAddress on a wallet, if it succeeds.
WithNewAddress(w) == [Added(w, Address(NextKey(w), w.seedIndex, FALSE, FALSE)) EXCEPT !.seedIndex = @ + 1]

\* RemoveAddressByIndex: the last address takes the place of the i-th one.
Without(w, i) ==
    [w EXCEPT !.addresses = SubSeq([w.addresses EXCEPT ![i] = w.addresses[Len(w.addresses)]], 1, Len(w.addresses) - 1),
              !.map = @ \ {w.addresses[i].key}, !.count = @ - 1]

\* The place of a key, if any.
IndexOf(w, k) == {i \in DOMAIN w.addresses : w.addresses[i].key = k}

\* CreateEmptyWallet, ImportMnemonic: a wallet with a seed and its first address.
NewWallet(m) == WithNewAddress([ClearWallet EXCEPT !.loaded = TRUE, !.mnemonic = m, !.seed = m])

SaveLast(w) == Save(w, {w.count - 1}, -1)

\* Mutant: the entry of the moved address is not written again.
SaveRemovalLast(w, i) == Save(w, {}, w.count)

\* The i-th address is replaced and the last entry deleted; the wallet w is the one after
\* the removal, and the range of saveWallet ends with its list.
SaveRemoval(w, i) == Save(w, {i - 1} \cap (0..(w.count - 1)), w.count)

-----------------------------------------------------------------------------
(* Start and stop *)

Init ==
    /\ phase = "off" /\ wallet = ClearWallet /\ disk = EmptyDisk /\ salts = 0
    /\ staked = {} /\ stuck = FALSE /\ logout = FALSE /\ notify = NoKey /\ cli = {}
    /\ refresh = [runs |-> FALSE, due |-> {}]

\* The stored wallet is loaded without a password; if there is none, a new one is made.
CreateWallet ==
    /\ phase = "off"
    /\ phase' = "starting"
    /\ IF disk.saved THEN wallet' = LoadWallet(disk, None) /\ UNCHANGED disk
       ELSE \E m \in Mnemonics : SaveLast(NewWallet(m))
    /\ UNCHANGED <<salts, staked, stuck, logout, others>>

\* InitializeWallet, StartWallet: the arguments are done with, the refreshing starts.
InitializeWallet ==
    /\ phase = "starting"
    /\ phase' = "on" /\ refresh' = [runs |-> TRUE, due |-> {}]
    /\ UNCHANGED <<wallet, disk, salts, staked, stuck, logout, notify, cli>>

Crash ==
    /\ phase # "off"
    /\ phase' = "off" /\ wallet' = ClearWallet
    /\ stuck' = FALSE /\ logout' = FALSE /\ notify' = NoKey /\ cli' = {}
    /\ refresh' = [runs |-> FALSE, due |-> {}]
    /\ UNCHANGED <<disk, salts, staked>>

\* wallet.Lock can be taken.
Running == phase # "off" /\ ~stuck

\* Another goroutine may begin.
Begins == Cardinality({g \in 1..4 : <<logout, notify # NoKey, cli # {}, refresh.due # {}>>[g]}) < MaxPending

\* The commands and the API that need a loaded wallet.
Loaded == phase = "on" /\ ~stuck /\ wallet.loaded

\* The arguments of the program: a mnemonic, an entropy, an encryption, a password.
ProcessWalletArguments == phase = "starting"

NewWallets == UNCHANGED <<phase, salts, staked, stuck, logout, others>>

\* The user's commands that replace the wallet (CreateEmptyWallet) ...
CreateEmptyWallet ==
    /\ Loaded
    /\ \E m \in Mnemonics \ {wallet.mnemonic, disk.wallet.mnemonic} : SaveLast(NewWallet(m))
    /\ NewWallets

\* ... also by an argument at the start.  A text with a wrong checksum is refused when the
\* old wallet is already gone from memory.
ImportMnemonic ==
    /\ Loaded \/ ProcessWalletArguments
    /\ \E m \in (Mnemonics \cup BadMnemonics) \ {wallet.mnemonic} :
          IF m \in Mnemonics THEN SaveLast(NewWallet(m))
          ELSE wallet' = [ClearWallet EXCEPT !.loaded = TRUE, !.mnemonic = m] /\ UNCHANGED disk
    /\ NewWallets

\* An entropy of a wrong length is refused first, and every other one gives a mnemonic.
ImportEntropy ==
    /\ Loaded \/ ProcessWalletArguments
    /\ \E m \in Mnemonics \ {wallet.mnemonic} : SaveLast(NewWallet(m))
    /\ NewWallets

\* A file is a wallet as it was once; the password and the cipher are not in it.
ImportWalletJSON ==
    /\ Loaded
    /\ \E w \in Files : SaveWalletEntire([w EXCEPT !.cipher = NoKey, !.map = Keys(w.addresses)])
    /\ NewWallets

-----------------------------------------------------------------------------
(* Addresses *)

Room == Len(wallet.addresses) < MaxAddresses /\ wallet.seedIndex <= MaxSeedIndex

\* By a command or by the API.
AddNewAddress ==
    /\ Loaded /\ Room
    /\ wallet.seed # None /\ NextKey(wallet) \notin wallet.map
    /\ SaveLast(WithNewAddress(wallet))
    /\ NewWallets

\* Mutant: AddAddress does not look at whether the wallet is loaded.
ImportSecretKeyAnyway ==
    /\ phase = "on" /\ ~stuck /\ Room
    /\ \E k \in ImportedKeys \ wallet.map : SaveLast(Added(wallet, Address(k, 0, TRUE, FALSE)))
    /\ NewWallets

ImportSecretKey ==
    /\ Loaded /\ Room
    /\ \E k \in ImportedKeys \ wallet.map : SaveLast(Added(wallet, Address(k, 0, TRUE, FALSE)))
    /\ NewWallets

\* The address keeps its flags.  The key is compared with a serialized secret, so the wallet
\* never finds it to be its own, and it counts as imported.
ImportWalletAddressJSON ==
    /\ Loaded /\ Room
    /\ \E k \in (ImportedKeys \cup SharedKeys) \ wallet.map :
          SaveLast(Added(wallet, Address(k, 0, TRUE, k \in SharedKeys)))
    /\ NewWallets

\* The next keys are added as long as the chain knows them: here, any number of them.
CliScanAddresses ==
    /\ Loaded /\ wallet.seed # None
    /\ \E n \in 1..(MaxAddresses - Len(wallet.addresses)) :
          LET new == [i \in 1..n |-> Address(<<wallet.seed, wallet.seedIndex + i - 1>>, wallet.seedIndex + i - 1, FALSE, FALSE)]
          IN  /\ wallet.seedIndex + n <= MaxSeedIndex + 1
              /\ Keys(new) \cap wallet.map = {}
              /\ Save([wallet EXCEPT !.addresses = @ \o new, !.map = @ \cup Keys(new),
                                     !.count = @ + n, !.seedIndex = @ + n],
                      Len(wallet.addresses)..(Len(wallet.addresses) + n - 1), -1)
    /\ NewWallets

\* RemoveAddressByPublicKey: by the API and by the thread.
RemoveAddressByPublicKey ==
    /\ Loaded
    /\ \E k \in wallet.map : \E i \in IndexOf(wallet, k) : SaveRemoval(Without(wallet, i), i)
    /\ NewWallets

\* CliSelectAddress: the list is shown and an index of it is read.
CliSelectAddress ==
    /\ Loaded /\ Begins /\ cli = {}
    /\ \E i \in DOMAIN wallet.addresses : cli' = {[index |-> i, key |-> wallet.addresses[i].key]}
    /\ UNCHANGED <<phase, wallet, disk, salts, staked, stuck, logout, notify, refresh>>

\* The index is used on the list as it is by now: past its end there is an error or, right
\* after its last address, a panic.
RemoveAddressByIndex ==
    /\ Running
    /\ \E c \in cli : IF wallet.loaded /\ c.index \in DOMAIN wallet.addresses
                      THEN SaveRemoval(Without(wallet, c.index), c.index) ELSE UNCHANGED <<wallet, disk>>
    /\ cli' = {}
    /\ UNCHANGED <<phase, salts, staked, stuck, logout, notify, refresh>>

\* A clone is renamed, and saved only if it is one of the wallet's own addresses.
RenameAddressByPublicKey ==
    /\ Loaded /\ wallet.map # {}
    /\ UNCHANGED vars

-----------------------------------------------------------------------------
(* Encryption *)

Encrypt ==
    /\ Running /\ wallet.loaded /\ ~wallet.encrypted /\ salts < MaxSalts
    /\ \E p \in Passwords :
          SaveWalletEntire([wallet EXCEPT !.encrypted = TRUE, !.salt = salts + 1, !.cipher = <<p, salts + 1>>])
    /\ salts' = salts + 1
    /\ UNCHANGED <<phase, staked, stuck, logout, others>>

\* The old salt stays, without a use: as if it were gone.
RemoveEncryption ==
    /\ Running /\ wallet.loaded /\ wallet.encrypted
    /\ SaveWalletEntire([wallet EXCEPT !.encrypted = FALSE, !.salt = 0, !.cipher = NoKey])
    /\ NewWallets

\* Logout clears the wallet and releases the lock ...
Logout ==
    /\ Loaded /\ Begins /\ wallet.encrypted /\ ~logout
    /\ wallet' = ClearWallet /\ logout' = TRUE
    /\ UNCHANGED <<phase, disk, salts, staked, stuck, others>>

\* ... and loads what can be loaded without a password, if nobody has loaded since.
LogoutLoads ==
    /\ Running /\ logout
    /\ wallet' = IF wallet.loaded THEN wallet ELSE LoadWallet(disk, None)
    /\ logout' = FALSE
    /\ UNCHANGED <<phase, disk, salts, staked, stuck, others>>

\* refreshWalletAccount would remove a shared address that lost its stake.
Due(w) == {w.addresses[i].key : i \in {i \in DOMAIN w.addresses : w.addresses[i].shared}} \ staked

\* Decrypt: with the wallet open, and the lock still held, InitForgingWallet refreshes each
\* address; the removal of one asks for the lock.  At the start it is not called.
Decrypt ==
    /\ Running /\ ~wallet.loaded /\ disk.saved
    /\ \E p \in Passwords : wallet' = LoadWallet(disk, p)
    /\ stuck' = (phase = "on" /\ wallet'.loaded /\ Due(wallet') # {})
    /\ UNCHANGED <<phase, disk, salts, staked, logout, others>>

-----------------------------------------------------------------------------
(* Delegators, and the thread that refreshes the addresses *)

\* The chain changes an account's stake.
StakeChanges ==
    /\ \E k \in SharedKeys : staked' = IF k \in staked THEN staked \ {k} ELSE staked \cup {k}
    /\ UNCHANGED <<phase, wallet, disk, salts, stuck, logout, others>>

\* The account is looked up, in the chain's store and not under the wallet's lock.
DelegatorNotify ==
    /\ phase = "on" /\ ~stuck /\ Begins /\ notify = NoKey
    /\ \E k \in staked : notify' = k
    /\ UNCHANGED <<phase, wallet, disk, salts, staked, stuck, logout, cli, refresh>>

AddSharedStakedAddress ==
    /\ Running /\ notify # NoKey
    /\ notify' = NoKey
    /\ IF /\ wallet.loaded /\ wallet.count <= DELEGATES_MAXIMUM
          /\ notify \notin wallet.map /\ Len(wallet.addresses) < MaxAddresses
       THEN SaveLast(Added(wallet, Address(notify, 0, TRUE, TRUE))) ELSE UNCHANGED <<wallet, disk>>
    /\ UNCHANGED <<phase, salts, staked, stuck, logout, cli, refresh>>

RefreshIdle == phase = "on" /\ ~stuck /\ refresh.runs /\ refresh.due = {}

\* processRefreshWallets picks random addresses and looks their accounts up.  With no
\* address to pick from it panics, and the goroutine is gone.
ProcessRefreshWallets ==
    /\ RefreshIdle
    /\ \E picked \in SUBSET wallet.map :
          /\ picked \cap Due(wallet) # {} => Begins
          /\ refresh' = [runs |-> wallet.addresses # <<>>, due |-> picked \cap Due(wallet)]
    /\ UNCHANGED <<phase, wallet, disk, salts, staked, stuck, logout, notify, cli>>

\* The addresses found due are removed, if they are still there; without a loaded wallet
\* that is an error, and the goroutine returns.
RefreshWalletAccount ==
    /\ phase = "on" /\ ~stuck /\ refresh.due # {}
    /\ \E k \in refresh.due :
          /\ refresh' = IF wallet.loaded THEN [runs |-> TRUE, due |-> refresh.due \ {k}]
                        ELSE [runs |-> FALSE, due |-> {}]
          /\ IF wallet.loaded /\ k \in wallet.map
             THEN \E i \in IndexOf(wallet, k) : SaveRemoval(Without(wallet, i), i)
             ELSE UNCHANGED <<wallet, disk>>
    /\ UNCHANGED <<phase, salts, staked, stuck, logout, notify, cli>>

-----------------------------------------------------------------------------

Next ==
    \/ CreateWallet \/ InitializeWallet \/ Crash
    \/ CreateEmptyWallet \/ ImportMnemonic \/ ImportEntropy \/ ImportWalletJSON
    \/ AddNewAddress \/ ImportSecretKey \/ ImportWalletAddressJSON \/ CliScanAddresses
    \/ RemoveAddressByPublicKey \/ CliSelectAddress \/ RemoveAddressByIndex \/ RenameAddressByPublicKey
    \/ Encrypt \/ RemoveEncryption \/ Logout \/ LogoutLoads \/ Decrypt
    \/ StakeChanges \/ DelegatorNotify \/ AddSharedStakedAddress
    \/ ProcessRefreshWallets \/ RefreshWalletAccount

Spec == Init /\ [][Next]_vars

-----------------------------------------------------------------------------
(* Properties *)

\* The wallet is a wallet, whatever was typed, and what the thread is going to remove is
\* shared (Wallet).
TypeOK ==
    /\ phase \in {"off", "starting", "on"} /\ stuck \in BOOLEAN /\ logout \in BOOLEAN
    /\ wallet \in WalletType /\ staked \subseteq SharedKeys /\ salts \in 0..MaxSalts
    /\ refresh.due \subseteq SharedKeys

\* The list, the map and the count of the wallet in memory say the same, no key is there
\* twice, and each address that is not imported can be derived again: it comes from the
\* wallet's seed, below the index that the next one gets (AddAddress, RemoveAddressByIndex,
\* loadWallet, ImportWalletJSON).
WalletIsConsistent == Consistent(wallet)

\* At any moment the process may die and the stored wallet opens again: some password, or
\* none, reads its record and every one of its addresses, whatever was added, removed,
\* encrypted, replaced and left behind in the store before (saveWallet, loadWallet).
StoredWalletOpens ==
    disk.saved =>
        LET key == disk.wallet.locked
        IN  /\ IF disk.encrypted THEN \E p \in Passwords : key = <<p, disk.salt>> ELSE key = Plain
            /\ \A i \in 0..(disk.wallet.count - 1) : Readable(disk, key, i)

\* The wallet in memory was replaced, and its successor was not saved: a mnemonic was
\* refused, or a wallet imported with an encryption whose password is not known.
Unsaved == wallet.seed = None \/ ~CanSave(wallet)

\* A loaded wallet is what the store gives back under its password: no operation saves a
\* part and leaves another (saveWallet's ranges, the swap with the last address).
MemoryIsStored ==
    wallet.loaded /\ ~Unsaved =>
        LET p == IF wallet.encrypted THEN wallet.cipher[1] ELSE None
            again == LoadWallet(disk, p)
        IN  /\ <<again.mnemonic, again.seed, again.seedIndex>> = <<wallet.mnemonic, wallet.seed, wallet.seedIndex>>
            /\ again.addresses = wallet.addresses
            /\ again.encrypted = wallet.encrypted

\* A stored wallet, and with it the seed, is given up only by an operation that replaces
\* wallets, or for a wallet in memory that has itself lost its seed: no crash, login, logout
\* or race of the operations on addresses changes it (Logout, loadWallet, saveWallet).
SeedIsKept ==
    [][disk.saved /\ disk'.wallet.seed # disk.wallet.seed =>
          (wallet.loaded /\ Unsaved) \/ CreateEmptyWallet \/ ImportMnemonic \/ ImportEntropy \/ ImportWalletJSON]_vars

\* Neither a crash nor any order of the user's and the node's operations leaves a wallet that
\* contradicts itself, that does not open, or that is not stored (saveWallet, loadWallet).
WalletIsSafe == TypeOK /\ WalletIsConsistent /\ StoredWalletOpens /\ MemoryIsStored
=============================================================================
