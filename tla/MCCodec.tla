------------------------------ MODULE MCCodec ------------------------------
(* Values of every type, with each optional part present and absent.       *)
EXTENDS Json, Addresses

Cell == {<<40>>}             \* a key, hash, signature, point
MaybeCell == {<<40>>, Nil}  \* or none

Numbers == {0, 3, 9}

Liquidity1 == [asset |-> <<41>>, rate |-> 5, zeros |-> 2]
LiquidityLists == {<<>>, <<Liquidity1>>, <<Liquidity1, [asset |-> <<42>>, rate |-> 9, zeros |-> 0]>>}
Flags == [canUpgrade : BOOLEAN, canMint : BOOLEAN, canBurn : {TRUE}, canChangeUpdate : {FALSE},
          canChangeSupply : {TRUE}, canPause : {FALSE}, canFreeze : {TRUE}]
AnAsset(flags, text) ==
    flags @@ [version |-> 0, decimals |-> 5, maxSupply |-> 9, supply |-> 0, updateKey |-> <<43>>,
              supplyKey |-> <<44>>, name |-> <<45>>, ticker |-> text, description |-> <<>>, data |-> text]

ProcessedPayment == [version |-> 0, tx |-> <<46>>, index |-> 1, processed |-> TRUE, asset |-> Nil,
              default |-> Nil, n |-> Nil, receivers |-> Nil, received |-> Nil, senders |-> Nil,
              sent |-> Nil, threshold |-> Nil, multisig |-> Nil]

SomeRegistrations ==
    {[type |-> 0, staked |-> s, hasSpend |-> k # Nil, spend |-> k, signature |-> <<47>>] :
        s \in BOOLEAN, k \in MaybeCell}
Rings == {r \in [1..2 -> SomeRegistrations \cup {Nil}] : r[1] = Nil \/ r[2] \in {r[1], Nil}}

InnerProducts == [a |-> <<1>>, b |-> <<2>>, pairs |-> [j \in 1..7 |-> j]]
Proof(power) ==
    [x \in {"BA", "BS", "A", "B", "u", "zA", "T1", "T2", "that", "mu", "c", "ssk", "sr", "sb", "stau"}
        |-> <<60>>]
    @@ [rows |-> [j \in 1..power |-> 60 + j], f |-> [j \in 1..(2 * power) |-> 70 + j],
        innerProduct |-> InnerProducts]

Extras ==
    [staking |-> <<>>,
     reward |-> [reward |-> 9, temp |-> 1],
     spend |-> [key |-> <<80>>, signature |-> <<81>>],
     assetCreate |-> [asset |-> AnAsset([x \in DOMAIN (CHOOSE g \in Flags : TRUE) |-> TRUE], <<82>>)],
     supplyIncrease |-> [id |-> <<83>>, receiver |-> <<84>>, value |-> 9, supplyKey |-> <<85>>,
                         signature |-> <<86>>],
     fund |-> [plain |-> <<87>>],
     conditional |-> [deadline |-> 9, default |-> TRUE, threshold |-> 1, multisig |-> <<88, 89>>]]

\* A payload of a ring of two.  Balances that are not written are absent.
Payload(script, asset, data, parity, ring) ==
    LET name == PayloadScripts[script + 1]
        whisper == IF name \in {"staking", "reward"} THEN Nil ELSE <<50>>
        claim(j) == IF ring[j] = Nil /\ ((j - 1) % 2 = 0) = parity /\ name # "reward" THEN <<51>> ELSE Nil
    IN  [script |-> script, asset |-> asset, burn |-> 9,
         dataVersion |-> CASE data = Nil -> 0 [] Len(data) = 3 -> 1 [] OTHER -> 2, data |-> data,
         power |-> 1, parity |-> parity, registrations |-> ring,
         statement |-> [fee |-> 3, d |-> <<52>>,
                        members |-> [j \in 1..2 |-> [key |-> <<53>>, change |-> <<54>>,
                                                     left |-> claim(j), right |-> claim(j)]]],
         whisperSender |-> whisper, whisperRecipient |-> whisper,
         feeRate |-> IF asset = NativeId THEN Nil ELSE 9,
         feeZeros |-> IF asset = NativeId THEN Nil ELSE 2,
         proof |-> Proof(1),
         extra |-> IF name = "transfer" THEN Nil ELSE Extras[name]]

Payloads == {Payload(s, a, x, y, r) : s \in 0..7, a \in {NativeId, 90}, x \in {Nil, <<55>>, <<1, 2, 3>>},
                                      y \in BOOLEAN, r \in Rings}

Simples ==
    {[script |-> 0, dataVersion |-> 0, data |-> Nil, nonce |-> 3, fee |-> 9,
      vin |-> [key |-> <<56>>, signature |-> <<57>>],
      extra |-> [newCollector |-> k # Nil, collector |-> k, list |-> l]] :
        k \in MaybeCell, l \in LiquidityLists}
    \cup
    {[script |-> 1, dataVersion |-> 2, data |-> <<1, 2>>, nonce |-> Nil, fee |-> Nil, vin |-> Nil,
      extra |-> [tx |-> <<58>>, index |-> 1, resolution |-> r,
                 signers |-> <<[key |-> <<59>>, signature |-> <<60>>]>>]] : r \in BOOLEAN}

SomeTxs ==
    {[version |-> 0, spaceExtra |-> 9, base |-> x] : x \in Simples}
    \cup
    {[version |-> 1, spaceExtra |-> 0,
      base |-> [height |-> 9, kernelHash |-> <<61>>, payloads |-> <<x, x>>]] :
        x \in {y \in Payloads : y.data = Nil}}

ABlock == [header |-> [version |-> 0, height |-> 9], merkleHash |-> <<62>>, prevHash |-> <<63>>,
           prevKernelHash |-> <<64>>, stakingAmount |-> 9, timestamp |-> 3, stakingNonce |-> <<65>>]

Samples(type) ==
    CASE type = "account" -> {[version |-> 0, balance |-> <<66>>]}
      [] type = "registration" -> {[version |-> 0, staked |-> s, hasSpend |-> k # Nil, spend |-> k] :
                                       s \in BOOLEAN, k \in MaybeCell}
      [] type = "plainAccount" ->
            {[nonce |-> n, unclaimed |-> 9, liquidities |-> l] : n \in Numbers,
             l \in {[version |-> 0, list |-> Nil, collector |-> Nil]}
                   \cup {[version |-> 1, list |-> x, collector |-> <<67>>] : x \in LiquidityLists}}
      [] type = "asset" -> {AnAsset(x, t) : x \in Flags, t \in {<<68>>, <<1, 2, 3>>}}
      [] type = "pendingStakes" ->
            {[height |-> n, pending |-> [j \in 1..m |-> [key |-> <<69>>, amount |-> <<70>>]]] :
                n \in Numbers, m \in 0..3}
      [] type = "conditionalPayment" ->
            {ProcessedPayment}
            \cup {[version |-> 0, tx |-> <<46>>, index |-> 1, processed |-> FALSE, asset |-> x,
                   default |-> TRUE, n |-> 2, receivers |-> <<1, 2>>, received |-> <<3, 4>>,
                   senders |-> <<5, 6>>, sent |-> <<7, 8>>, threshold |-> 1, multisig |-> <<9>>] :
                     x \in {NativeId, 90}}
      [] type = "heapElement" -> {[key |-> <<1, 2>>, score |-> <<71>>]}
      [] type = "heapDictElement" -> {[position |-> n] : n \in Numbers}
      [] type = "blockComplete" -> {[block |-> ABlock, txs |-> <<x, y>>] : x \in {t \in SomeTxs : t.version = 0},
                                        y \in {t \in SomeTxs : t.version = 0}}
      [] type = "transaction" -> SomeTxs
      [] type = "payload" -> Payloads

SomeAddresses ==
    {GenerateAddress(n, <<91>>, s, k, r, i, m, x) :
        n \in {0, 1}, s \in BOOLEAN, k \in MaybeCell, r \in BOOLEAN, i \in MaybeCell, m \in Numbers, x \in MaybeCell}
SomePrivateKeys == {NewPrivateKey(n, <<92>>) : n \in Numbers} \cup {DeserializeKey(<<92>>, 0)}

SampledTypes == {"account", "registration", "plainAccount", "asset", "pendingStakes",
                 "conditionalPayment", "heapElement", "heapDictElement", "blockComplete",
                 "transaction", "payload"}
=============================================================================
