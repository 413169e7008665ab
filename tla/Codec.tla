------------------------------- MODULE Codec -------------------------------
(***************************************************************************)
(* How values are written to the store and to the network, and read back.  *)
(*                                                                         *)
(* A buffer is a sequence of cells.  A key, hash, signature, point or      *)
(* ciphertext, whose size the reader knows, is one cell, and an absent one *)
(* (nil) is written as no cell at all.  Numbers are written in digits of   *)
(* Base, as many as they need (Base is 128 in the code).                   *)
(*                                                                         *)
(* A format is what Serialize writes and what Deserialize reads: sequences *)
(* of <<field, kind, condition>>.  A value is a record of its fields and   *)
(* of the counts and flags the writer computes from them.  up is the value *)
(* a nested value belongs to.                                              *)
(***************************************************************************)
EXTENDS Integers, SequencesExt, FiniteSetsExt

CONSTANTS
    Base,       \* cells below Base end a number
    MaxDigits,  \* binary.MaxVarintLen64
    NativeId,   \* the native asset
    Nil         \* an absent value

ASSUME BaseAssumption == Base \in Nat /\ Base > 1 /\ MaxDigits \in Nat \ {0}

-----------------------------------------------------------------------------
(* advanced_buffers *)

RECURSIVE WriteUvarint(_)
WriteUvarint(n) ==
    IF n < Base THEN <<n>> ELSE <<Base + (n % Base)>> \o WriteUvarint(n \div Base)

Failed == [ok |-> FALSE, v |-> Nil, rest |-> <<>>]
Got(v, rest) == [ok |-> TRUE, v |-> v, rest |-> rest]

\* ReadBytes and its kin
ReadCell(s) == IF s = <<>> THEN Failed ELSE Got(Head(s), Tail(s))

RECURSIVE ReadDigits(_, _, _, _)
ReadDigits(s, x, weight, c) ==
    IF s = <<>> THEN Failed
    ELSE IF Head(s) >= Base THEN ReadDigits(Tail(s), x + (Head(s) - Base) * weight, weight * Base, c + 1)
    ELSE IF c >= MaxDigits \/ (c = MaxDigits - 1 /\ Head(s) > 1) THEN Failed
    ELSE Got(x + Head(s) * weight, Tail(s))
ReadUvarint(s) == ReadDigits(s, 0, 1, 0)

WriteVariableBytes(x) == WriteUvarint(Len(x)) \o x
ReadVariableBytes(s) ==
    LET n == ReadUvarint(s)
    IN  IF ~n.ok \/ Len(n.rest) < n.v THEN Failed
        ELSE Got(SubSeq(n.rest, 1, n.v), SubSeq(n.rest, n.v + 1, Len(n.rest)))

WriteBool(x) == IF x THEN <<1>> ELSE <<0>>
ReadBool(s) == LET b == ReadCell(s)
               IN  IF ~b.ok \/ b.v \notin {0, 1} THEN Failed ELSE Got(b.v = 1, b.rest)

WriteAsset(x) == IF x = NativeId THEN <<0>> ELSE <<1, x>>
ReadAsset(s) ==
    LET kind == ReadCell(s)
        id == ReadCell(kind.rest)
    IN  IF ~kind.ok THEN Failed
        ELSE IF kind.v = 0 THEN Got(NativeId, kind.rest)
        ELSE IF kind.v # 1 \/ ~id.ok \/ id.v = NativeId THEN Failed
        ELSE id

-----------------------------------------------------------------------------
(* The formats: data storage *)

Same(f) == [write |-> f, read |-> f]
All(fields, kind) == [i \in DOMAIN fields |-> <<fields[i], kind, "always">>]

AccountFormat == Same(<<<<"version", "uint", "always">>, <<"balance", "raw", "always">>>>)

\* Mutant: the spend key is read whether there is one or not.
RegistrationFormatAlways ==
    Same(<<<<"version", "uint", "always">>, <<"staked", "bool", "always">>,
           <<"hasSpend", "bool", "always">>, <<"spend", "raw", "always">>>>)

RegistrationFormat ==
    LET flags == <<<<"version", "uint", "always">>, <<"staked", "bool", "always">>,
                   <<"hasSpend", "bool", "always">>>>
    IN  [write |-> Append(flags, <<"spend", "raw", "always">>),
         read  |-> Append(flags, <<"spend", "raw", "hasSpend">>)]

PlainAccountFormat ==
    Same(All(<<"nonce", "unclaimed">>, "uint") \o <<<<"liquidities", "sub", "always">>>>)

LiquiditiesFormat ==
    Same(<<<<"version", "uint", "always">>, <<"list", "list8", "simple">>,
           <<"collector", "raw", "simple">>>>)

LiquidityFormat ==
    Same(<<<<"asset", "raw", "always">>, <<"rate", "uint", "always">>, <<"zeros", "byte", "always">>>>)

AssetFormat ==
    Same(<<<<"version", "uint", "always">>>>
         \o All(<<"canUpgrade", "canMint", "canBurn", "canChangeUpdate", "canChangeSupply",
                  "canPause", "canFreeze">>, "bool")
         \o All(<<"decimals">>, "byte") \o All(<<"maxSupply", "supply">>, "uint")
         \o All(<<"updateKey", "supplyKey">>, "raw")
         \o All(<<"name", "ticker", "description", "data">>, "var"))

PendingStakeFormat == Same(All(<<"key", "amount">>, "raw"))
PendingStakesFormat == Same(<<<<"height", "uint", "always">>, <<"pending", "list", "always">>>>)

\* Nothing but its name is kept of a payment once it is processed.
ConditionalPaymentFormat ==
    Same(<<<<"version", "uint", "always">>, <<"tx", "raw", "always">>, <<"index", "byte", "always">>,
           <<"processed", "bool", "always">>,
           <<"asset", "asset", "open">>, <<"default", "bool", "open">>, <<"n", "uint", "open">>,
           <<"receivers", "cells", "open">>, <<"received", "cells", "open">>,
           <<"senders", "cells", "open">>, <<"sent", "cells", "open">>,
           <<"threshold", "byte", "open">>, <<"multisig", "keys", "open">>>>)

HeapElementFormat == Same(<<<<"key", "keys", "always">>, <<"score", "raw", "always">>>>)
HeapDictElementFormat == Same(<<<<"position", "uint", "always">>>>)

-----------------------------------------------------------------------------
(* The formats: blocks and transactions *)

BlockHeaderFormat == Same(All(<<"version", "height">>, "uint"))

BlockFormat ==
    Same(<<<<"header", "sub", "always">>>>
         \o All(<<"merkleHash", "prevHash", "prevKernelHash">>, "raw")
         \o All(<<"stakingAmount", "timestamp">>, "uint")
         \o All(<<"stakingNonce">>, "raw"))

BlockCompleteFormat == Same(<<<<"block", "sub", "always">>, <<"txs", "list", "always">>>>)

TransactionFormat ==
    Same(All(<<"version", "spaceExtra">>, "uint") \o <<<<"base", "sub", "always">>>>)

TransactionSimpleFormat ==
    Same(<<<<"script", "uint", "always">>, <<"dataVersion", "byte", "always">>,
           <<"data", "var", "anyData">>,
           <<"nonce", "uint", "hasVin">>, <<"fee", "uint", "hasVin">>,
           <<"vin", "sub", "hasVin">>, <<"extra", "sub", "always">>>>)

VinFormat == Same(All(<<"key", "signature">>, "raw"))

UpdateAssetFeeLiquidityFormat ==
    [write |-> <<<<"newCollector", "bool", "always">>, <<"collector", "raw", "always">>,
                 <<"list", "list8", "always">>>>,
     read  |-> <<<<"newCollector", "bool", "always">>, <<"collector", "raw", "newCollector">>,
                 <<"list", "list8", "always">>>>]

SignerFormat == VinFormat
ResolutionFormat ==
    Same(<<<<"tx", "raw", "always">>, <<"index", "byte", "always">>,
           <<"resolution", "bool", "always">>, <<"signers", "list8", "always">>>>)

TransactionZetherFormat ==
    Same(<<<<"height", "uint", "always">>, <<"kernelHash", "raw", "always">>,
           <<"payloads", "list8", "always">>>>)

\* power: the ring has 2^power members
PayloadFormat ==
    Same(<<<<"script", "uint", "always">>, <<"asset", "asset", "always">>, <<"burn", "uint", "always">>,
           <<"dataVersion", "byte", "always">>, <<"data", "var", "plainData">>,
           <<"data", "raw", "encryptedData">>,
           <<"power", "byte", "always">>, <<"parity", "bool", "always">>,
           <<"registrations", "sparse", "always">>, <<"statement", "sub", "always">>,
           <<"whisperSender", "raw", "whispers">>, <<"whisperRecipient", "raw", "whispers">>,
           <<"feeRate", "uint", "foreign">>, <<"feeZeros", "byte", "foreign">>,
           <<"proof", "sub", "always">>, <<"extra", "sub", "hasExtra">>>>)

\* A registration is only written for a key that is not registered.
DataRegistrationFormat ==
    LET flags == <<<<"type", "byte", "always">>, <<"staked", "bool", "notRegistered">>,
                   <<"hasSpend", "bool", "notRegistered">>>>
    IN  [write |-> flags \o <<<<"spend", "raw", "notRegistered">>,
                              <<"signature", "raw", "notRegistered">>>>,
         read  |-> flags \o <<<<"spend", "raw", "hasSpend">>,
                              <<"signature", "raw", "always">>>>]

\* The balance a payload was made for is only written for a registered sender; the reader
\* takes the others' for empty.
StatementFormat == Same(<<<<"fee", "uint", "always">>, <<"d", "raw", "always">>,
                          <<"members", "ring", "always">>>>)
MemberFormat == Same(<<<<"key", "raw", "always">>, <<"change", "raw", "always">>,
                       <<"left", "raw", "claims">>, <<"right", "raw", "claims">>>>)

ProofFormat ==
    Same(All(<<"BA", "BS", "A", "B">>, "raw")
         \o <<<<"rows", "power", "always">>, <<"u", "raw", "always">>, <<"f", "twice", "always">>>>
         \o All(<<"zA", "T1", "T2", "that", "mu", "c", "ssk", "sr", "sb", "stau">>, "raw")
         \o <<<<"innerProduct", "sub", "always">>>>)

\* a, b and seven pairs of points
InnerProductFormat == Same(All(<<"a", "b">>, "raw") \o <<<<"pairs", "seven", "always">>>>)

StakingFormat == Same(<<>>)
StakingRewardFormat == Same(All(<<"reward", "temp">>, "uint"))
SpendFormat == Same(All(<<"key", "signature">>, "raw"))
AssetCreateFormat == Same(<<<<"asset", "sub", "always">>>>)
AssetSupplyIncreaseFormat ==
    Same(All(<<"id", "receiver">>, "raw") \o All(<<"value">>, "uint")
         \o All(<<"supplyKey", "signature">>, "raw"))
PlainAccountFundFormat == Same(All(<<"plain">>, "raw"))
PayloadConditionalFormat ==
    Same(<<<<"deadline", "uint", "always">>, <<"default", "bool", "always">>,
           <<"threshold", "byte", "always">>, <<"multisig", "keys", "always">>>>)

Format(type) ==
    CASE type = "account" -> AccountFormat
      [] type = "registration" -> RegistrationFormat
      [] type = "plainAccount" -> PlainAccountFormat
      [] type = "liquidities" -> LiquiditiesFormat
      [] type = "liquidity" -> LiquidityFormat
      [] type = "asset" -> AssetFormat
      [] type = "pendingStake" -> PendingStakeFormat
      [] type = "pendingStakes" -> PendingStakesFormat
      [] type = "conditionalPayment" -> ConditionalPaymentFormat
      [] type = "heapElement" -> HeapElementFormat
      [] type = "heapDictElement" -> HeapDictElementFormat
      [] type = "header" -> BlockHeaderFormat
      [] type = "block" -> BlockFormat
      [] type = "blockComplete" -> BlockCompleteFormat
      [] type = "transaction" -> TransactionFormat
      [] type = "simple" -> TransactionSimpleFormat
      [] type = "vin" -> VinFormat
      [] type = "signer" -> SignerFormat
      [] type = "updateLiquidity" -> UpdateAssetFeeLiquidityFormat
      [] type = "resolution" -> ResolutionFormat
      [] type = "zether" -> TransactionZetherFormat
      [] type = "payload" -> PayloadFormat
      [] type = "dataRegistration" -> DataRegistrationFormat
      [] type = "statement" -> StatementFormat
      [] type = "member" -> MemberFormat
      [] type = "proof" -> ProofFormat
      [] type = "innerProduct" -> InnerProductFormat
      [] type = "staking" -> StakingFormat
      [] type = "reward" -> StakingRewardFormat
      [] type = "spend" -> SpendFormat
      [] type = "assetCreate" -> AssetCreateFormat
      [] type = "supplyIncrease" -> AssetSupplyIncreaseFormat
      [] type = "fund" -> PlainAccountFundFormat
      [] type = "conditional" -> PayloadConditionalFormat

\* transaction_type, transaction_simple.ScriptType and PayloadScriptType, in their order
Versions == <<"simple", "zether">>
SimpleScripts == <<"updateLiquidity", "resolution">>
PayloadScripts == <<"transfer", "staking", "reward", "assetCreate", "supplyIncrease", "fund",
                    "spend", "conditional">>

\* The type of a nested value, or of the elements of a list, given what is already read.
TypeOf(field, v) ==
    CASE field = "list" -> "liquidity"
      [] field = "pending" -> "pendingStake"
      [] field = "txs" -> "transaction"
      [] field = "signers" -> "signer"
      [] field = "payloads" -> "payload"
      [] field = "base" -> Versions[v.version + 1]
      [] field = "extra" /\ "burn" \in DOMAIN v -> PayloadScripts[v.script + 1]
      [] field = "extra" /\ "burn" \notin DOMAIN v -> SimpleScripts[v.script + 1]
      [] OTHER -> field

\* The conditions under which a field is there.  i is the position in a ring.
Holds(cond, v, up, i) ==
    CASE cond = "always" -> TRUE
      [] cond = "hasSpend" -> v.hasSpend
      [] cond = "newCollector" -> v.newCollector
      [] cond = "simple" -> v.version = 1
      [] cond = "open" -> ~v.processed
      [] cond = "anyData" -> v.dataVersion \in {1, 2}
      [] cond = "plainData" -> v.dataVersion = 1
      [] cond = "encryptedData" -> v.dataVersion = 2
      [] cond = "hasVin" -> SimpleScripts[v.script + 1] = "updateLiquidity"
      [] cond = "whispers" -> PayloadScripts[v.script + 1] \notin {"staking", "reward"}
      [] cond = "foreign" -> v.asset # NativeId
      [] cond = "hasExtra" -> PayloadScripts[v.script + 1] # "transfer"
      [] cond = "notRegistered" -> v.type = 0
      [] cond = "claims" -> /\ up.registrations[i] = Nil
                            /\ ((i - 1) % 2 = 0) = up.parity
                            /\ PayloadScripts[up.script + 1] # "reward"

-----------------------------------------------------------------------------
(* Writing and reading by format *)

Concat(ss) == FoldLeft(LAMBDA a, s : a \o s, <<>>, ss)

RECURSIVE Write(_, _, _, _)
Write(type, v, up, i) ==
    LET List(field, inner) ==
            Concat([j \in DOMAIN v[field] |-> Write(TypeOf(field, v), v[field][j], inner, j)])
        Present == {j \in DOMAIN v.registrations : v.registrations[j] # Nil}
        Sparse == Concat([n \in 1..Cardinality(Present) |->
                     LET j == SetToSortSeq(Present, <)[n]
                     IN  WriteUvarint(j - 1) \o Write("dataRegistration", v.registrations[j], v, j)])
        Item(f) ==
            LET field == f[1]
            IN  IF ~Holds(f[3], v, up, i) THEN <<>>
                ELSE CASE f[2] = "uint" -> WriteUvarint(v[field])
                       [] f[2] = "byte" -> <<v[field]>>
                       [] f[2] = "bool" -> WriteBool(v[field])
                       [] f[2] = "raw" -> IF v[field] = Nil THEN <<>> ELSE v[field]
                       [] f[2] = "var" -> WriteVariableBytes(v[field])
                       [] f[2] = "asset" -> WriteAsset(v[field])
                       [] f[2] = "keys" -> <<Len(v[field])>> \o v[field]
                       [] f[2] \in {"cells", "power", "twice", "seven"} -> v[field]
                       [] f[2] = "sub" -> Write(TypeOf(field, v), v[field], v, i)
                       [] f[2] = "list" -> WriteUvarint(Len(v[field])) \o List(field, v)
                       [] f[2] = "list8" -> <<Len(v[field])>> \o List(field, v)
                       [] f[2] = "ring" ->
                            Concat([j \in DOMAIN v[field] |-> Write("member", v[field][j], up, j)])
                       [] f[2] = "sparse" -> WriteUvarint(Cardinality(Present)) \o Sparse
    IN  Concat([n \in DOMAIN Format(type).write |-> Item(Format(type).write[n])])

RECURSIVE Read(_, _, _, _)
Read(type, s, up, i) ==
    LET Times(n, Op(_, _), start) ==
            FoldLeft(LAMBDA r, j : IF ~r.ok THEN Failed
                                   ELSE LET x == Op(r.rest, j)
                                        IN  IF x.ok THEN Got(Append(r.v, x.v), x.rest) ELSE Failed,
                     Got(<<>>, start), [j \in 1..n |-> j])
        Counted(n, Op(_, _)) == IF n.ok THEN Times(n.v, Op, n.rest) ELSE Failed
        Raw(r) == LET c == ReadCell(r) IN IF c.ok THEN Got(<<c.v>>, c.rest) ELSE Failed
        Sparse(r, v) ==
            LET n == ReadUvarint(r)
                One(a, j) ==
                    LET at == ReadUvarint(a.rest)
                        reg == Read("dataRegistration", at.rest, v, 0)
                    IN  IF ~a.ok \/ ~at.ok THEN Failed
                        ELSE IF at.v >= 2^v.power THEN Failed
                        ELSE IF a.v[at.v + 1] # Nil \/ ~reg.ok THEN Failed
                        ELSE Got([a.v EXCEPT ![at.v + 1] = reg.v], reg.rest)
            IN  IF ~n.ok THEN Failed
                ELSE FoldLeft(One, Got([j \in 1..2^v.power |-> Nil], n.rest), [j \in 1..n.v |-> j])
        Kind(kind, field, v, r) ==
            CASE kind = "uint" -> ReadUvarint(r)
              [] kind = "byte" -> ReadCell(r)
              [] kind = "bool" -> ReadBool(r)
              [] kind = "raw" -> Raw(r)
              [] kind = "var" -> ReadVariableBytes(r)
              [] kind = "keys" -> Counted(ReadCell(r), LAMBDA x, j : ReadCell(x))
              [] kind = "seven" -> Times(7, LAMBDA x, j : ReadCell(x), r)
              [] kind = "asset" -> ReadAsset(r)
              [] kind = "cells" -> Times(v.n, LAMBDA x, j : ReadCell(x), r)
              [] kind = "power" -> Times(up.power, LAMBDA x, j : ReadCell(x), r)
              [] kind = "twice" -> Times(2 * up.power, LAMBDA x, j : ReadCell(x), r)
              [] kind = "sub" -> Read(TypeOf(field, v), r, v, i)
              [] kind = "list" ->
                    Counted(ReadUvarint(r), LAMBDA x, j : Read(TypeOf(field, v), x, v, j))
              [] kind = "list8" ->
                    Counted(ReadCell(r), LAMBDA x, j : Read(TypeOf(field, v), x, v, j))
              [] kind = "ring" -> Times(2^up.power, LAMBDA x, j : Read("member", x, up, j), r)
              [] kind = "sparse" -> Sparse(r, v)
        Item(r, f) ==
            IF ~r.ok \/ ~Holds(f[3], r.v, up, i) THEN r
            ELSE LET x == Kind(f[2], f[1], r.v, r.rest)
                 IN  IF x.ok THEN Got([r.v EXCEPT ![f[1]] = x.v], x.rest) ELSE Failed
        blank == [field \in {Format(type).read[n][1] : n \in DOMAIN Format(type).read} |-> Nil]
    IN  FoldLeft(Item, Got(blank, s), Format(type).read)

\* What was written is read back, and the reader stops where the writer stopped.
ReadsBack(type, v) ==
    LET r == Read(type, Append(Write(type, v, Nil, 0), 0), Nil, 0)
    IN  r.ok /\ r.v = v /\ r.rest = <<0>>
=============================================================================
