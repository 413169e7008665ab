---------------------------- MODULE TxsValidator ----------------------------
(***************************************************************************)
(* The verification of transactions, shared by everyone who needs one:     *)
(* txs_validator.  A transaction is verified once: the first to ask stores *)
(* a work under its hash and sends it to the workers over a channel of one *)
(* place, everyone waits for the work to be closed.  A finished work is    *)
(* forgotten after ten minutes, which may be any moment.                   *)
(*                                                                         *)
(* The proofs, signatures and blooms of a transaction are a matter of the  *)
(* transaction alone: Valid are the ones they hold for.  Whoever waits for *)
(* a work keeps a pointer to it, so its verdict is handed over when it is  *)
(* closed and not looked up afterwards.                                    *)
(***************************************************************************)
EXTENDS Integers, Sequences, FiniteSets

CONSTANTS
    Txs,         \* transactions, by hash
    Valid,       \* the ones BloomAll and verifyTx accept
    MaxWorkers   \* len(validator.workers)

ASSUME ValidatorAssumption == Valid \subseteq Txs /\ MaxWorkers \in Nat \ {0}

VARIABLES
    all,      \* validator.all: "none", "init" or the result of a processed work
    channel,  \* newValidationWorkCn
    busy      \* the works the workers are at

validatorVars == <<all, channel, busy>>

Verdicts == {"ok", "bad"}

ValidatorTypeOK ==
    /\ all \in [Txs -> {"none", "init"} \cup Verdicts]
    /\ channel \in {<<>>} \cup {<<t>> : t \in Txs}
    /\ busy \subseteq Txs

ValidatorInit == all = [t \in Txs |-> "none"] /\ channel = <<>> /\ busy = {}

\* LoadOrStore: the work of t, created if there is none
LoadOrStore(t) == all' = [all EXCEPT ![t] = IF @ = "none" THEN "init" ELSE @]

\* newValidationWorkCn <- foundWork, which blocks while the channel is full
Send(t) == channel = <<>> /\ channel' = <<t>>

\* worker.run: takes a work
WorkerTakes ==
    /\ channel # <<>> /\ Cardinality(busy) < MaxWorkers
    /\ busy' = busy \cup {Head(channel)} /\ channel' = <<>>
    /\ UNCHANGED all

\* verifyTx
VerifyTx(t) == IF t \in Valid THEN "ok" ELSE "bad"

\* worker.run: stores the result, then closes the work
WorkerEnds(t) ==
    /\ t \in busy
    /\ busy' = busy \ {t} /\ all' = [all EXCEPT ![t] = VerifyTx(t)]
    /\ UNCHANGED channel

\* runRemoveExpiredTransactions
RunRemoveExpired(t) ==
    /\ all[t] \in Verdicts
    /\ all' = [all EXCEPT ![t] = "none"]
    /\ UNCHANGED <<channel, busy>>
=============================================================================
