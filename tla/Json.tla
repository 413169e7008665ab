-------------------------------- MODULE Json --------------------------------
(***************************************************************************)
(* Transactions as JSON (and, through JSON, as msgpack).  A document is a  *)
(* record whose fields are the names in the struct tags.  json.Unmarshal   *)
(* into a struct takes the fields it finds in the document it is given and *)
(* leaves the others at their zero value, Nil.  A transaction has the      *)
(* shape the module Codec gives it.                                        *)
(***************************************************************************)
EXTENDS Codec, FiniteSetsExt

\* The names of the fields of a struct, from a document.
Taken(doc, names) == [x \in names |-> IF x \in DOMAIN doc THEN doc[x] ELSE Nil]

RegistrationFields == {"type", "staked", "hasSpend", "spend", "signature"}

\* The names under which the parts of an extra are found, as the structs declare them.
ExtraFields(type) ==
    CASE type = "updateLiquidity" -> {"list", "newCollector", "collector"}
      [] type = "resolution" -> {"tx", "index", "resolution", "signers"}
      [] type = "staking" -> {}
      [] type = "reward" -> {"reward", "temp"}
      [] type = "spend" -> {"key", "signature"}
      [] type = "assetCreate" -> {"asset"}
      [] type = "supplyIncrease" -> {"id", "receiver", "value", "supplyKey", "signature"}
      [] type = "fund" -> {"plain"}
      [] type = "conditional" -> {"deadline", "default", "threshold", "multisig"}

\* The document of an extra.  The struct of a supply increase lists the supply key before
\* the signature and is filled in the other order.
MarshalExtra(type, extra) ==
    IF type = "supplyIncrease"
    THEN [Taken(extra, ExtraFields(type)) EXCEPT !["supplyKey"] = extra.signature,
                                                 !["signature"] = extra.supplyKey]
    ELSE Taken(extra, ExtraFields(type))

MarshalSimple(base) ==
    [txScript |-> base.script, dataVersion |-> base.dataVersion, data |-> base.data,
     nonce |-> base.nonce, fee |-> base.fee, vin |-> base.vin,
     extra |-> MarshalExtra(SimpleScripts[base.script + 1], base.extra)]

MarshalPayload(p) ==
    LET name == PayloadScripts[p.script + 1]
    IN  [p EXCEPT !.registrations = [i \in DOMAIN @ |-> IF @[i] = Nil THEN Nil
                                                        ELSE Taken(@[i], RegistrationFields)],
                  !.extra = IF name = "transfer" THEN Nil ELSE MarshalExtra(name, p.extra)]

MarshalJSON(tx) ==
    [version |-> tx.version, spaceExtra |-> tx.spaceExtra]
    @@ IF Versions[tx.version + 1] = "simple" THEN MarshalSimple(tx.base)
       ELSE [chainHeight |-> tx.base.height, chainKernelHash |-> tx.base.kernelHash,
             payloads |-> [i \in DOMAIN tx.base.payloads |-> MarshalPayload(tx.base.payloads[i])]]

\* An extra is looked for in the document of the transaction.
UnmarshalExtra(type, doc) == Taken(doc, ExtraFields(type))

\* The input is taken from the document whether it has one or not: nil is a panic, here Nil.
UnmarshalSimple(doc) ==
    LET type == SimpleScripts[doc.txScript + 1]
    IN  IF doc.vin = Nil THEN Nil
        ELSE [script |-> doc.txScript, dataVersion |-> doc.dataVersion, data |-> doc.data,
              nonce |-> doc.nonce, fee |-> doc.fee, vin |-> doc.vin,
              extra |-> UnmarshalExtra(type, doc)]

\* The variables of the two loops have one name, so registration j of any payload is put
\* into payload j: the last one stays, and one beyond the payloads read so far is a panic,
\* here Nil.
UnmarshalPayloads(doc) ==
    LET At(k, j) == IF j \in DOMAIN doc.payloads[k].registrations
                    THEN doc.payloads[k].registrations[j] ELSE Nil
        Arrived(i) == {k \in DOMAIN doc.payloads : k >= i /\ At(k, i) # Nil}
        Payload(p, i) ==
            [p EXCEPT !.registrations = [j \in DOMAIN @ |-> IF i # j \/ Arrived(i) = {} THEN Nil
                                                            ELSE At(Max(Arrived(i)), i)],
                      !.extra = IF PayloadScripts[p.script + 1] = "transfer" THEN Nil
                                ELSE UnmarshalExtra(PayloadScripts[p.script + 1], doc)]
    IN  IF \E k \in DOMAIN doc.payloads : \E j \in DOMAIN doc.payloads[k].registrations :
              j > k /\ At(k, j) # Nil THEN Nil
        ELSE [height |-> doc.chainHeight, kernelHash |-> doc.chainKernelHash,
              payloads |-> [i \in DOMAIN doc.payloads |-> Payload(doc.payloads[i], i)]]

UnmarshalJSON(doc) ==
    [version |-> doc.version, spaceExtra |-> doc.spaceExtra,
     base |-> IF Versions[doc.version + 1] = "simple" THEN UnmarshalSimple(doc)
              ELSE UnmarshalPayloads(doc)]

\* A transaction that was packed as JSON is the same when it is unpacked.
JsonReadsBack(tx) == UnmarshalJSON(MarshalJSON(tx)) = tx
=============================================================================
