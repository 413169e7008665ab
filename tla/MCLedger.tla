------------------------------ MODULE MCLedger ------------------------------
(***************************************************************************)
(* A small ledger that has been running: a staked forger, a user, a guest  *)
(* whose key is not registered yet, two plain accounts that provide        *)
(* liquidity, and an asset A.  Ten transactions wait, some of which        *)
(* exclude others.                                                         *)
(***************************************************************************)
EXTENDS Ledger, Builder, MCCodec, MCProof

CONSTANTS forgerKey, spendKey, staker1, staker2, user, guest, provider1, provider2, new1, new2, A, B, coin,
          pay, create, mint, fund, rateP, rateQ, leaveP, assetPay, lock, settle

MCKeys == {forgerKey, spendKey, staker1, staker2, user, guest, provider1, provider2, new1, new2}
MCNewKeys == {new1, new2}
MCPromised == [k \in MCKeys |-> IF k = guest THEN [staked |-> FALSE, spend |-> None] ELSE None]
MCAssets == {A, B}
MCTxs == {pay, create, mint, fund, rateP, rateQ, leaveP, assetPay, lock, settle}
MCHeights == 0..(MaxBlocks + 3)
MCIdentification == [w \in {A, B, coin} |-> w]

MCStart ==
    Events(EmptyStorage,
        [EmptyStorage EXCEPT
            !.regs[forgerKey] = [staked |-> TRUE, spend |-> None],
            !.regs[spendKey] = [staked |-> TRUE, spend |-> spendKey],
            !.regs[staker1] = [staked |-> TRUE, spend |-> None],
            !.regs[staker2] = [staked |-> TRUE, spend |-> None],
            !.regs[user] = [staked |-> FALSE, spend |-> None],
            !.accs[Native] = [k \in Keys |-> CASE k = forgerKey -> 4 [] k = spendKey -> 3 [] k = user -> 12
                                             [] k \in {staker1, staker2} -> 0 [] OTHER -> None],
            !.accs[A][user] = 5,
            !.plain[provider1] = [NewPlainAccount EXCEPT !.unclaimed = 4],
            !.plain[provider2] = [NewPlainAccount EXCEPT !.unclaimed = 3],
            !.asts[A] = [supply |-> 5, max |-> 9, canMint |-> TRUE, supplyKey |-> user],
            !.asts[Native] = [supply |-> 26, max |-> 40, canMint |-> FALSE, supplyKey |-> None]])

Fresh == <<None, [new |-> FALSE, staked |-> FALSE, spend |-> None]>>

Zether(payload) ==
    [kind |-> "zether",
     payloads |-> <<payload @@ [asset |-> coin, rate |-> 0, zeros |-> 0, parity |-> TRUE,
                                ring |-> <<user, forgerKey>>, fee |-> 1, burn |-> 0,
                                register |-> <<None, None>>]>>]

Liquidity(key, nonce, collector, rate) ==
    [kind |-> "liquidity", key |-> key, nonce |-> nonce, fee |-> 1, collector |-> collector,
     updates |-> <<[asset |-> A, rate |-> rate]>>]

MCDef ==
    [t \in MCTxs |->
        CASE t = pay -> Zether([script |-> "transfer", changes |-> <<-4, 2>>, burn |-> 1])
          [] t = create -> Zether([script |-> "assetCreate", changes |-> <<-1, 0>>, id |-> B,
                 created |-> [supply |-> 0, max |-> 9, canMint |-> TRUE, supplyKey |-> user]])
          [] t = mint -> Zether([script |-> "supplyIncrease", changes |-> <<-1, 0>>, id |-> A,
                 value |-> 4, receiver |-> forgerKey, supplyKey |-> user])
          [] t = fund -> Zether([script |-> "fund", changes |-> <<-3, 0>>, burn |-> 2, plain |-> provider2])
          [] t = rateP -> Liquidity(provider1, 0, forgerKey, 1)
          [] t = leaveP -> Liquidity(provider1, 1, None, 0)
          [] t = rateQ -> Liquidity(provider2, 0, user, 2)
          [] t = assetPay -> Zether([script |-> "transfer", asset |-> A, rate |-> 1,
                 ring |-> <<user, guest>>, changes |-> <<-4, 3>>, register |-> Fresh])
          [] t = lock -> Zether([script |-> "conditional", ring |-> <<user, guest>>, changes |-> <<-2, 2>>,
                 fee |-> 0, deadline |-> 2, default |-> FALSE, threshold |-> 1,
                 multisig |-> {user}, register |-> Fresh])
          [] t = settle -> [kind |-> "resolution", payment |-> lock, resolution |-> TRUE,
                            signers |-> {user}]]

-----------------------------------------------------------------------------
(* Requests to the builder *)

Side(key) == [key |-> key, staked |-> FALSE, avoid |-> FALSE, include |-> <<>>, new |-> 0]
Asked(from, to, size) ==
    [asset |-> coin, amount |-> 2, burn |-> 0, fee |-> 1, data |-> "encrypted", size |-> size,
     extra |-> NoExtra, send |-> Side(from), recv |-> Side(to)]
Unstaked(q0) == [q0 EXCEPT !.send.avoid = TRUE, !.recv.avoid = TRUE]
Conditional(q0) ==
    [Unstaked(q0) EXCEPT !.extra = [script |-> "conditional", deadline |-> 2, default |-> FALSE,
                                    threshold |-> 1, multisig |-> {user}]]
Forge(reward, size) ==
    LET base == [Asked(forgerKey, None, size) EXCEPT !.fee = 0, !.data = "none",
                     !.send.staked = TRUE, !.recv.staked = TRUE]
    IN  <<[base EXCEPT !.amount = 0, !.burn = 3, !.extra = [script |-> "staking"]],
          [base EXCEPT !.amount = reward, !.recv.key = forgerKey, !.send.key = None,
                       !.extra = [script |-> "reward", reward |-> reward]]>>

Requests ==
    {<<Asked(user, forgerKey, 2)>>, <<Asked(user, None, 4)>>, <<[Asked(user, guest, 4) EXCEPT !.recv.new = 1]>>,
     <<[Asked(user, forgerKey, 4) EXCEPT !.burn = 1, !.send.include = <<forgerKey, staker1>>, !.recv.include = <<spendKey>>]>>,
     <<[Asked(user, guest, 2) EXCEPT !.asset = A, !.data = "plain"], Asked(user, forgerKey, 2)>>,
     <<Asked(user, forgerKey, 4), Asked(user, guest, 4)>>, <<Asked(user, forgerKey, 2), Asked(spendKey, forgerKey, 2)>>,
     <<Conditional(Asked(user, guest, 2)), Unstaked(Asked(user, None, 2))>>,
     <<Conditional(Asked(user, guest, 2)), Asked(user, forgerKey, 2)>>,
     <<[Asked(user, forgerKey, 2) EXCEPT !.amount = 0, !.burn = 2, !.extra = [script |-> "fund", plain |-> provider2]]>>,
     Forge(1, 2), Forge(1, 4)}

Pendings == {<<>>, <<pay>>, <<assetPay>>, <<lock>>, <<pay, rateP>>}

\* The states after one reading of the ledger and up to one block later.
Readings == IF past = <<>> THEN {d} ELSE {d, Last(past).d}
FewBlocks == Height = 0 \/ (Height = 1 /\ Len(chain[1]) = 1)

AtStart == chain = <<>>

Included(names) ==
    FoldLeft(LAMBDA u, t : Then(u, LAMBDA z : IncludeTransaction(z, d, t, Def[t], Height + 1)), d, names)

\* The payloads of a built transaction, each against the balances it was made for.
IncludeBuilt(from, t, tx) ==
    FoldLeft(LAMBDA u, pl : Then(u, LAMBDA z :
                 IncludeZether(z, [accs |-> pl.emap], t, [payloads |-> <<pl>>], Height + 1)),
             from, tx.payloads)

Registers(tx) ==
    UNION {{pl.ring[i] : i \in {j \in DOMAIN pl.ring : pl.register[j] # None}} :
           pl \in ToSet(ZetherPayloads(tx))}
MembersOf(tx) == UNION {ToSet(pl.ring) : pl \in ToSet(ZetherPayloads(tx))}

\* The builder does not look at what pending transactions register, nor at which of them are
\* conditional; nor whether the provider of an asset's fee has just enough to pay it, or its
\* collector is a sender of the ring, whose balance the fee changes first.
Independent(tx, txs) ==
    /\ \A i \in DOMAIN txs :
          /\ Registers(txs[i]) \cap Registers(tx) = {}
          /\ (\E pl \in ToSet(ZetherPayloads(txs[i])) : pl.script = "conditional") =>
                 MembersOf(txs[i]) \cap MembersOf(tx) = {}
    /\ \A pl \in ToSet(tx.payloads) : pl.asset # coin =>
          LET provider == d.plain[TopLiquidity(d, pl.asset)]
          IN  /\ provider.unclaimed >= PayloadFee(pl) + RequiredFee
              /\ \A i \in DOMAIN pl.ring : IsSender(pl, i) => pl.ring[i] # provider.collector

BuiltFrom(first, names, reqs) ==
    {tx \in CreateZetherTx(first, d, [i \in DOMAIN names |-> Def[names[i]]], reqs) :
        /\ tx \notin NotBuilt
        /\ \A i \in DOMAIN tx.payloads : tx.payloads[i].proved}

\* Whatever accounts and positions are drawn, and even if a block came between the choice of
\* the rings and the reading of the balances, a transaction the builder makes is valid and
\* can be included after the pending ones it was made for.
BuiltIsAccepted ==
    FewBlocks => \A names \in Pendings : Included(names) # Refused =>
        \A reqs \in Requests, first \in Readings : \A tx \in BuiltFrom(first, names, reqs) :
            Independent(tx, [i \in DOMAIN names |-> Def[names[i]]]) =>
                IncludeBuilt(Included(names), settle, tx) # Refused

\* Who looks at the rings of a transaction learns nothing from comparing them: a payload of
\* the sender of an earlier one shows the same possible senders in the same places, unless
\* its recipient is that of an earlier one too.
SharedHalvesStay ==
    AtStart => \A reqs \in Requests : \A tx \in BuiltFrom(d, <<>>, reqs) :
        \A s, t \in DOMAIN reqs :
            s < t /\ reqs[s].send.key = reqs[t].send.key /\ reqs[s].send.key # None
            /\ (\A u \in 1..(t - 1) : reqs[u].recv.key # reqs[t].recv.key) =>
                LET one == tx.payloads[s]
                    two == tx.payloads[t]
                IN  \A i \in DOMAIN one.ring :
                        IsSender(one, i) => IsSender(two, i) /\ one.ring[i] = two.ring[i]

\* The sender of a built payload that burns nothing reads from it the amount with the fee,
\* the recipient and the encrypted message, the recipient the amount and the message, and
\* every other member of the ring nothing.
WalletReadsBack ==
    AtStart => \A reqs \in Requests : \A tx \in BuiltFrom(d, <<>>, reqs) :
        \A t \in DOMAIN reqs :
            LET pl == tx.payloads[t]
                text == IF pl.data = "encrypted" THEN "text" ELSE "scrambled"
            IN  pl.whispers # None /\ pl.burn = 0 =>
                \A i \in DOMAIN pl.ring :
                    DecryptTx(tx, {pl.ring[i]})[t] =
                        CASE pl.ring[i] = pl.whispers.sender ->
                               [sent |-> reqs[t].amount + pl.fee, received |-> None, message |-> text,
                                index |-> CHOOSE k \in DOMAIN pl.ring : pl.ring[k] = pl.whispers.recipient]
                          [] pl.ring[i] = pl.whispers.recipient ->
                               [sent |-> None, received |-> reqs[t].amount, message |-> "text", index |-> i]
                          [] OTHER -> Nothing

\* A provider may ask for several updates before any of them is in a block: each is accepted
\* after the ones it asked for before.
SimpleIsAccepted ==
    AtStart => \A names \in {<<>>, <<rateP>>, <<rateP, leaveP>>, <<rateQ>>} :
        LET txs == [i \in DOMAIN names |-> Def[names[i]]]
            tx == CreateSimpleTx(d, txs, [kind |-> "liquidity", key |-> provider1, fee |-> 0,
                                          collector |-> user, updates |-> <<[asset |-> A, rate |-> 1]>>])
        IN  IncludeTransaction(Included(names), d, settle, tx, Height + 1) # Refused

-----------------------------------------------------------------------------
(* Formats and algorithms do not depend on the state. *)

\* Whatever the scores and whichever key is deleted, the ranking stays a heap, its
\* dictionary exact, and only that key is gone.
HeapKeepsItsPromises ==
    \A n \in 1..6 : \A scores \in [1..n -> 1..3] : \A k \in 1..n :
        LET h == Built(scores)
            rest == DeleteByKey(h, k)
        IN  /\ Ordered(h) /\ Indexed(h) /\ Content(h) = {<<i, scores[i]>> : i \in 1..n}
            /\ Ordered(rest) /\ Indexed(rest)
            /\ Content(rest) = Content(h) \ {<<k, scores[k]>>}

\* Everything the code writes, to the store, to another node or for people, it reads back
\* unchanged and completely: no part is skipped, taken twice or taken for another, whichever
\* optional parts are there.
CodecReadsBack ==
    /\ \A type \in SampledTypes : \A v \in Samples(type) : ReadsBack(type, v)
    /\ \A address \in SomeAddresses : AddressReadsBack(address, 1)
    /\ \A key \in SomePrivateKeys : KeyReadsBack(key, 0)

\* A transaction without extra and without new registrations survives JSON.
JsonKeepsTransfers ==
    \A tx \in SomeTxs :
        tx.version = 1 /\ (\A i \in DOMAIN tx.base.payloads :
                               /\ PayloadScripts[tx.base.payloads[i].script + 1] = "transfer"
                               /\ ToSet(tx.base.payloads[i].registrations) = {Nil})
            => JsonReadsBack(tx)

\* Whoever owns a balance reads its value from it, after any sums of encrypted amounts,
\* whatever the value read last and however many entries of the tables share their bytes.
BalancesDecrypt ==
    \A private \in {1, 100, 256}, had \in {0, 5, 17}, more \in {0, 3, 9}, r \in {0, 7, 200} :
        BalanceRead(private, had, more, r)

\* The fast convolution is the one written out, and the polynomials of the indexes are the
\* products over their bits.
AlgebraMatches ==
    /\ \A exponent \in [1..4 -> {0, 1, 9}], base \in [1..4 -> {0, 5}] :
          Convolution(exponent, base) = Rotated(exponent, base)
    /\ \A va \in [1..3 -> {0, 1, 200}], vb \in [1..3 -> {0, 1}] :
          \A j \in 1..8, point \in {0, 1, 2, 50, 256} :
              ValueAt(RecursivePolynomials(<<1>>, va, vb)[j], point) = ProductAt(va, vb, j, point)

\* A verifier believes the proof the code makes for a payment exactly when the sender can
\* afford it and sits in the other half than the receiver; the half it shows is the sender's;
\* and it believes no proof made with a wrong key, amount, balance, randomness or place, nor
\* one that was made for another fee, change, balance or ring.
ProofsHold == \A t \in Payments : PaymentProved(t)

-----------------------------------------------------------------------------
\* What the builder makes, the ledger takes and the wallet understands (CreateZetherTx,
\* CreateSimpleTx, IncludeTransaction, DecryptTx).
BuilderFitsLedger == BuiltIsAccepted /\ SharedHalvesStay /\ WalletReadsBack /\ SimpleIsAccepted

\* What is written is read back: bytes, addresses, keys and JSON (Serialize and Deserialize,
\* EncodeAddr and DecodeAddr, MarshalJSON and UnmarshalJSON).
FormatsReadBack == AtStart => CodecReadsBack /\ JsonKeepsTransfers

\* The algorithms compute what their reference definitions say: the heap, the decryption of
\* balances, the convolution, the proofs and their verification (heap.go, balance_decrypt.go,
\* fieldvector.go, proof_generate.go, proof_verify.go).  Worked out for the first blocks.
AlgorithmsAreRight ==
    [][AtStart => HeapKeepsItsPromises /\ BalancesDecrypt /\ AlgebraMatches /\ ProofsHold]_vars
=============================================================================
