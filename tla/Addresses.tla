------------------------------ MODULE Addresses ------------------------------
(***************************************************************************)
(* Addresses and private keys as they are written for people and in the    *)
(* wallet's file.  An address has parts that may be absent, announced by   *)
(* the bits of one number.  A checksum stands for what it is computed      *)
(* from; base58 is left out.                                               *)
(***************************************************************************)
EXTENDS Codec

\* addresses.Address: parts are Nil or a cell, amount is 0 when there is none
NewAddr(network, key, staked, spend, registration, paymentID, amount, asset) ==
    [network |-> network, version |-> 0, key |-> key, staked |-> staked, spend |-> spend,
     registration |-> registration, paymentID |-> paymentID, amount |-> amount, asset |-> asset]

\* PrivateKey.GenerateAddress: the registration signs the key's conditions
GenerateAddress(network, key, staked, spend, registered, paymentID, amount, asset) ==
    NewAddr(network, key, staked, spend,
            IF registered THEN <<<<"signed", key, staked, spend>>>> ELSE Nil, paymentID, amount, asset)

IntegrationBytes(a) ==
    LET bit(there, n) == IF there THEN 2^n ELSE 0
    IN  bit(a.staked, 0) + bit(a.spend # Nil, 1) + bit(a.registration # Nil, 2)
        + bit(a.paymentID # Nil, 3) + bit(a.amount > 0, 4) + bit(a.asset # Nil, 5)

EncodeAddr(a) ==
    LET part(x) == IF x = Nil THEN <<>> ELSE x
        buffer == WriteUvarint(a.version) \o a.key \o WriteUvarint(IntegrationBytes(a))
                  \o part(a.spend) \o part(a.registration) \o part(a.paymentID)
                  \o (IF a.amount > 0 THEN WriteUvarint(a.amount) ELSE <<>>) \o part(a.asset)
    IN  [prefix |-> a.network, buffer |-> buffer, checksum |-> buffer]

\* The address, or Nil
DecodeAddr(s, selected) ==
    LET version == ReadUvarint(s.buffer)
        key == ReadCell(version.rest)
        flags == ReadUvarint(key.rest)
        bit(n) == (flags.v \div 2^n) % 2 = 1
        start == Got(NewAddr(s.prefix, <<key.v>>, bit(0), Nil, Nil, Nil, 0, Nil), flags.rest)
        Part(r, p) ==
            LET x == IF p[1] = "amount" THEN ReadUvarint(r.rest) ELSE ReadCell(r.rest)
            IN  IF ~r.ok \/ ~bit(p[2]) THEN r
                ELSE IF ~x.ok THEN Failed
                ELSE Got([r.v EXCEPT ![p[1]] = IF p[1] = "amount" THEN x.v ELSE <<x.v>>], x.rest)
        parts == <<<<"spend", 1>>, <<"registration", 2>>, <<"paymentID", 3>>, <<"amount", 4>>, <<"asset", 5>>>>
    IN  IF s.prefix # selected \/ s.checksum # s.buffer THEN Nil
        ELSE IF ~version.ok \/ version.v # 0 \/ ~key.ok \/ ~flags.ok THEN Nil
        ELSE LET r == FoldLeft(Part, start, parts) IN IF r.ok THEN r.v ELSE Nil

-----------------------------------------------------------------------------
(* KeyWIF: a bare key, or one with its version, network and checksum *)

ComputeCheckSum(version, network, key) == <<<<"sum", WriteUvarint(version) \o WriteUvarint(network) \o key>>>>

NewPrivateKey(network, key) ==
    [version |-> 1, network |-> network, key |-> key, checksum |-> ComputeCheckSum(1, network, key)]

SerializeKey(k) ==
    IF k.version = 0 THEN k.key
    ELSE WriteUvarint(k.version) \o WriteUvarint(k.network) \o k.key \o k.checksum

\* A bare key is taken for one of the main network.
DeserializeKey(s, main) ==
    LET version == ReadUvarint(s)
        network == ReadUvarint(version.rest)
        key == ReadCell(network.rest)
        checksum == ReadCell(key.rest)
    IN  IF Len(s) = 1 THEN [version |-> 0, network |-> main, key |-> s, checksum |-> ComputeCheckSum(0, main, s)]
        ELSE IF Len(s) < 4 THEN Nil
        ELSE IF ~version.ok \/ ~network.ok \/ ~key.ok \/ ~checksum.ok THEN Nil
        ELSE IF checksum.v # <<"sum", SubSeq(s, 1, Len(s) - 1)>> THEN Nil
        ELSE [version |-> version.v, network |-> network.v, key |-> <<key.v>>, checksum |-> <<checksum.v>>]

-----------------------------------------------------------------------------
\* An address is read back whole by a node of its network and by no other; so is a key, and a
\* bare key that was read becomes the same bare key again.
AddressReadsBack(a, selected) == DecodeAddr(EncodeAddr(a), selected) = IF a.network = selected THEN a ELSE Nil
KeyReadsBack(k, main) == DeserializeKey(SerializeKey(k), main) = k
=============================================================================
