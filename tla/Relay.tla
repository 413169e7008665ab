------------------------------- MODULE Relay -------------------------------
(***************************************************************************)
(* How a transaction gets into a node: api_common's mempool/new-tx and     *)
(* mempool/new-tx-id, the local builder, and blocks, all over the shared   *)
(* validator and the mempool, while blocks keep changing what applies.     *)
(*                                                                         *)
(* A handler looks in the mempool, then in the map of what was processed   *)
(* since the last block: it either becomes the one who processes the       *)
(* transaction, or waits for the one who does and repeats the answer.  A   *)
(* new block replaces the map, but handlers keep the map they loaded.      *)
(*                                                                         *)
(* The mempool (module Mempool) is abstracted to the set of its            *)
(* transactions and the height it works for; what it answers depends on    *)
(* that height.  Peers are external: the ones in Liars may fail, time out, *)
(* or answer with another transaction.                                     *)
(***************************************************************************)
EXTENDS TxsValidator

CONSTANTS
    Http, Honest, Liars, Builders, \* callers: clients, peers, the node's own builder
    Offers,      \* what each caller asks for, or makes
    AppliesAt,   \* the heights a transaction can be included at
    Candidates,  \* the blocks offered to AddBlocks, each a list of transactions
    MaxOffers    \* bound: what a caller other than an honest peer asks

Peers == Honest \cup Liars
Callers == Http \cup Peers \cup Builders
Heights == 0..Len(Candidates)
NoWork == -1

\* What processTxsToMempool refuses (the fee is too low, a staking script) applies at no height.
Sterile == {t \in Txs : AppliesAt[t] = {}}

ASSUME RelayAssumption ==
    /\ Offers \in [Callers -> SUBSET Txs]
    /\ AppliesAt \in [Txs -> SUBSET Heights]
    /\ Candidates \in Seq(Seq(Txs)) /\ MaxOffers \in Nat /\ Txs # {}

VARIABLES
    callers,   \* the handlers' local state
    processed, \* the maps of mempoolProcessedThisBlock, the last one is the current one
    pool,      \* mempool.Txs
    work,      \* the height the mempool's worker works for, or NoWork
    height,    \* blocks in the chain
    included,  \* their transactions
    adder,     \* AddBlocks
    updates,   \* what the last blocks still have to do: resets of the map, transactions
               \* to take out of the mempool, a new work
    entered,   \* history: what was ever in the mempool
    refused,   \* history: what the mempool refused
    made       \* history: what the builder made

nodeVars == <<pool, work, height, included, adder, updates, entered, refused, made>>
vars == <<callers, processed, pool, work, height, included, adder, updates, entered, refused, made,
          all, channel, busy>>

\* tx: the hash asked for; got: the transaction received for it; gen: the map that was loaded,
\* 0 for the builder
Caller == [at : {"idle", "enter", "wait", "ask", "validate", "send", "verdict", "mark", "marking",
                 "add", "done"},
           tx : Txs, got : Txs, gen : Nat, on : Callers, pass : {1, 2}, ok : BOOLEAN,
           drop : BOOLEAN, offers : 0..MaxOffers]

\* An entry: none, being processed by a caller, or closed
Entry == {<<"none">>, <<"accepted">>, <<"refused">>} \cup {<<"busy", c>> : c \in Callers}

TypeOK ==
    /\ ValidatorTypeOK
    /\ callers \in [Callers -> Caller]
    /\ processed \in Seq([Txs -> Entry])
    /\ pool \subseteq Txs /\ included \subseteq Txs /\ height \in Heights
    /\ work \in Heights \cup {NoWork}
    /\ adder \in [at : {"idle", "submit", "send", "wait"}, next : 1..(Len(Candidates) + 1),
                  verdicts : Seq({"init"} \cup Verdicts)]
    /\ updates \in [resets : Nat, remove : SUBSET Txs, work : BOOLEAN]

\* A caller that asks nothing
Rest(c, n) ==
    LET t == CHOOSE x \in Txs : TRUE
    IN  [at |-> "idle", tx |-> t, got |-> t, gen |-> 0, on |-> c, pass |-> 1, ok |-> FALSE,
         drop |-> FALSE, offers |-> n]

Init ==
    /\ ValidatorInit
    /\ callers = [c \in Callers |-> Rest(c, 0)]
    /\ processed = <<[t \in Txs |-> <<"none">>]>>
    /\ pool = {} /\ work = 0 /\ height = 0 /\ included = {} /\ entered = {} /\ refused = {} /\ made = {}
    /\ adder = [at |-> "idle", next |-> 1, verdicts |-> <<>>]
    /\ updates = [resets |-> 0, remove |-> {}, work |-> FALSE]

-----------------------------------------------------------------------------
(* The handlers *)

To(c, at) == callers' = [callers EXCEPT ![c].at = at]

\* Mutant: a transaction that could not be had from one peer stays refused.
JudgedKept(c, rec, v) ==
    IF v = "bad" THEN [rec EXCEPT !.at = "done", !.ok = FALSE]
    ELSE IF rec.pass = 1 /\ rec.got # rec.tx THEN [rec EXCEPT !.at = "done", !.ok = FALSE]
    ELSE IF rec.pass = 1 THEN [rec EXCEPT !.at = "validate", !.pass = 2]
    ELSE IF rec.got \in pool THEN [rec EXCEPT !.at = "done", !.ok = TRUE]
    ELSE IF rec.got \in Sterile THEN [rec EXCEPT !.at = "done", !.ok = FALSE]
    ELSE [rec EXCEPT !.at = "add"]

\* What a caller does with the verdict on the transaction it received: the first time the
\* answer of a peer is compared with what was asked for, the second time it is in
\* processTxsToMempool.
Judged(c, rec, v) ==
    IF v = "bad" THEN [rec EXCEPT !.at = "done", !.ok = FALSE, !.drop = c \in Peers /\ rec.pass = 1]
    ELSE IF rec.pass = 1 /\ rec.got # rec.tx THEN [rec EXCEPT !.at = "done", !.ok = FALSE, !.drop = TRUE]
    ELSE IF rec.pass = 1 THEN [rec EXCEPT !.at = "validate", !.pass = 2]
    ELSE IF rec.got \in pool THEN [rec EXCEPT !.at = "done", !.ok = TRUE]
    ELSE IF rec.got \in Sterile THEN [rec EXCEPT !.at = "done", !.ok = FALSE]
    ELSE [rec EXCEPT !.at = "add"]

\* mempoolNewTx, mempoolNewTxIdProcess: look in the mempool, load the map
Request(c, t) ==
    /\ c \in Http \cup Peers /\ t \in Offers[c]
    /\ callers[c].at = "idle" /\ (c \in Honest \/ callers[c].offers < MaxOffers)
    /\ LET asked == Rest(c, IF c \in Honest THEN 0 ELSE callers[c].offers + 1)
       IN  callers' = [callers EXCEPT ![c] =
                IF t \in pool THEN asked
                ELSE [asked EXCEPT !.at = "enter", !.tx = t, !.got = t, !.gen = Len(processed)]]
    /\ UNCHANGED <<processed, validatorVars, nodeVars>>

\* LoadOrStore in the map
Enter(c) ==
    LET r == callers[c]
        entry == processed[r.gen][r.tx]
    IN  /\ r.at = "enter"
        /\ \/ /\ entry = <<"none">>
              /\ processed' = [processed EXCEPT ![r.gen][r.tx] = <<"busy", c>>]
              /\ To(c, IF c \in Peers THEN "ask" ELSE "validate")
           \/ /\ entry[1] = "busy"
              /\ callers' = [callers EXCEPT ![c].at = "wait", ![c].on = entry[2]]
              /\ UNCHANGED processed
           \/ /\ entry[1] \in {"accepted", "refused"}
              /\ callers' = [callers EXCEPT ![c] = Rest(c, @.offers)] /\ UNCHANGED processed
        /\ UNCHANGED <<validatorVars, nodeVars>>

\* tx-raw: the answer of the peer, or none
PeerAnswers(c, t) ==
    /\ callers[c].at = "ask" /\ (c \in Liars \/ t = callers[c].tx)
    /\ callers' = [callers EXCEPT ![c].at = "validate", ![c].got = t]
    /\ UNCHANGED <<processed, validatorVars, nodeVars>>

PeerFails(c) ==
    /\ callers[c].at = "ask" /\ c \in Liars
    /\ callers' = [callers EXCEPT ![c].at = "done", ![c].drop = TRUE]
    /\ UNCHANGED <<processed, validatorVars, nodeVars>>

\* ValidateTx
ValidateTx(c) ==
    LET r == callers[c]
    IN  /\ r.at = "validate"
        /\ LoadOrStore(r.got)
        /\ callers' = [callers EXCEPT ![c] =
                CASE all[r.got] = "none" -> [r EXCEPT !.at = "send"]
                  [] all[r.got] = "init" -> [r EXCEPT !.at = "verdict"]
                  [] OTHER -> Judged(c, r, all[r.got])]
        /\ UNCHANGED <<channel, busy, processed, nodeVars>>

SendWork(c) ==
    /\ callers[c].at = "send"
    /\ Send(callers[c].got)
    /\ To(c, "verdict")
    /\ UNCHANGED <<all, busy, processed, nodeVars>>

\* The builder: MarkAsValidatedTx, then AddTxToMempool
Build(c, t) ==
    /\ c \in Builders /\ t \in Offers[c]
    /\ callers[c].at = "idle" /\ callers[c].offers < MaxOffers
    /\ callers' = [callers EXCEPT ![c].at = "mark", ![c].tx = t, ![c].got = t, ![c].pass = 2,
                                  ![c].offers = @ + 1]
    /\ made' = made \cup {t}
    /\ UNCHANGED <<processed, validatorVars, pool, work, height, included, adder, updates, entered, refused>>

MarkAsValidatedTx(c) ==
    LET r == callers[c]
    IN  /\ r.at = "mark"
        /\ LoadOrStore(r.got)
        /\ To(c, CASE all[r.got] = "none" -> "marking"
                   [] all[r.got] = "bad" -> "done"
                   [] OTHER -> "validate")
        /\ UNCHANGED <<channel, busy, processed, nodeVars>>

\* A work is closed: everyone who waits for it goes on, handlers and the block being validated
Close(t, v, now) ==
    /\ callers' = [c \in Callers |-> IF now[c].at = "verdict" /\ now[c].got = t
                                     THEN Judged(c, now[c], v) ELSE now[c]]
    /\ adder' = [adder EXCEPT !.verdicts =
                    [i \in DOMAIN @ |-> IF Candidates[adder.next][i] = t /\ @[i] = "init" THEN v ELSE @[i]]]

Marked(c) ==
    LET t == callers[c].got
    IN  /\ callers[c].at = "marking"
        /\ all' = [all EXCEPT ![t] = "ok"]
        /\ Close(t, "ok", [callers EXCEPT ![c].at = "validate"])
        /\ UNCHANGED <<channel, busy, processed, pool, work, height, included, updates, entered, refused, made>>

\* addTransactionCn: the mempool's worker answers when it has a work
MempoolAnswers(c) ==
    LET t == callers[c].got
        fits == t \notin included /\ work \in AppliesAt[t]
    IN  /\ callers[c].at = "add" /\ work # NoWork
        /\ callers' = [callers EXCEPT ![c].at = "done", ![c].ok = t \in pool \/ fits]
        /\ pool' = IF fits THEN pool \cup {t} ELSE pool
        /\ entered' = entered \cup pool'
        /\ refused' = IF t \in pool \/ fits THEN refused ELSE refused \cup {t}
        /\ UNCHANGED <<processed, validatorVars, work, height, included, adder, updates, made>>

\* Mutant: the handlers that wait are not told.
FinishAlone(c) ==
    LET r == callers[c]
    IN  /\ r.at = "done"
        /\ processed' = IF r.gen = 0 THEN processed
                        ELSE [processed EXCEPT ![r.gen][r.tx] =
                                IF r.drop THEN <<"none">>
                                ELSE IF r.ok THEN <<"accepted">> ELSE <<"refused">>]
        /\ callers' = [callers EXCEPT ![c] = Rest(c, @.offers)]
        /\ UNCHANGED <<validatorVars, nodeVars>>

\* Mutant: an entry that is the peer's fault stays, with a good answer.
FinishOptimistic(c) ==
    LET r == callers[c]
    IN  /\ r.at = "done"
        /\ processed' = IF r.gen = 0 THEN processed
                        ELSE [processed EXCEPT ![r.gen][r.tx] =
                                IF r.drop \/ r.ok THEN <<"accepted">> ELSE <<"refused">>]
        /\ callers' = [d \in Callers |->
                         IF d = c \/ (callers[d].at = "wait" /\ callers[d].on = c)
                         THEN Rest(d, callers[d].offers) ELSE callers[d]]
        /\ UNCHANGED <<validatorVars, nodeVars>>

\* The deferred function: the answer is stored, an entry that is the peer's fault is deleted,
\* and whoever waits is told
Finish(c) ==
    LET r == callers[c]
    IN  /\ r.at = "done"
        /\ processed' = IF r.gen = 0 THEN processed
                        ELSE [processed EXCEPT ![r.gen][r.tx] =
                                IF r.drop THEN <<"none">>
                                ELSE IF r.ok THEN <<"accepted">> ELSE <<"refused">>]
        /\ callers' = [d \in Callers |->
                         IF d = c \/ (callers[d].at = "wait" /\ callers[d].on = c)
                         THEN Rest(d, callers[d].offers) ELSE callers[d]]
        /\ UNCHANGED <<validatorVars, nodeVars>>

-----------------------------------------------------------------------------
(* Blocks *)

Block == Candidates[adder.next]
Submitted(vs) == IF Len(vs) = Len(Block) THEN "wait" ELSE "submit"

StartBlock ==
    /\ adder.at = "idle" /\ adder.next <= Len(Candidates)
    /\ adder' = [adder EXCEPT !.at = Submitted(<<>>)]
    /\ UNCHANGED <<callers, processed, validatorVars, pool, work, height, included, updates, entered, refused, made>>

\* ValidateTxs: every transaction is submitted before the first is waited for
SubmitBlockTx ==
    LET t == Block[Len(adder.verdicts) + 1]
        vs == Append(adder.verdicts, IF all[t] \in Verdicts THEN all[t] ELSE "init")
    IN  /\ adder.at = "submit"
        /\ LoadOrStore(t)
        /\ adder' = [adder EXCEPT !.verdicts = vs,
                                  !.at = IF all[t] = "none" THEN "send" ELSE Submitted(vs)]
        /\ UNCHANGED <<callers, processed, channel, busy, pool, work, height, included, updates, entered, refused, made>>

SendBlockTx ==
    /\ adder.at = "send"
    /\ Send(Block[Len(adder.verdicts)])
    /\ adder' = [adder EXCEPT !.at = Submitted(adder.verdicts)]
    /\ UNCHANGED <<callers, processed, all, busy, pool, work, height, included, updates, entered, refused, made>>

BlockIsValid == \A i \in DOMAIN Block : adder.verdicts[i] = "ok"
BlockIsBad == \E i \in DOMAIN Block : adder.verdicts[i] = "bad" /\ \A j \in 1..(i - 1) : adder.verdicts[j] = "ok"

NextBlock == [at |-> "idle", next |-> adder.next + 1, verdicts |-> <<>>]

RefuseBlock ==
    /\ adder.at = "wait" /\ BlockIsBad
    /\ adder' = NextBlock
    /\ UNCHANGED <<callers, processed, validatorVars, pool, work, height, included, updates, entered, refused, made>>

\* AddBlocks: the mempool is suspended and left without work, the updates are queued
CommitBlock ==
    /\ adder.at = "wait" /\ BlockIsValid
    /\ adder' = NextBlock
    /\ height' = height + 1 /\ included' = included \cup {Block[i] : i \in DOMAIN Block}
    /\ work' = NoWork
    /\ updates' = [resets |-> updates.resets + 1, work |-> TRUE,
                   remove |-> updates.remove \cup {Block[i] : i \in DOMAIN Block}]
    /\ UNCHANGED <<callers, processed, validatorVars, pool, entered, refused, made>>

\* The listener of UpdateNewChainDataUpdate: a new map
ResetProcessed ==
    /\ updates.resets > 0
    /\ updates' = [updates EXCEPT !.resets = @ - 1]
    /\ processed' = Append(processed, [t \in Txs |-> <<"none">>])
    /\ UNCHANGED <<callers, validatorVars, pool, work, height, included, adder, entered, refused, made>>

\* processBlockchainUpdateMempool: RemoveInsertedTxsFromBlockchain
RemoveInserted ==
    /\ updates.remove # {}
    /\ pool' = pool \ updates.remove
    /\ updates' = [updates EXCEPT !.remove = {}]
    /\ UNCHANGED <<callers, processed, validatorVars, work, height, included, adder, entered, refused, made>>

\* createNextBlockForForging, UpdateWork: the mempool starts over and drops what no longer
\* applies; what is included it leaves to RemoveInserted
UpdateWork ==
    /\ updates.work
    /\ work' = height
    /\ pool' = {t \in pool : t \in included \/ height \in AppliesAt[t]}
    /\ updates' = [updates EXCEPT !.work = FALSE]
    /\ UNCHANGED <<callers, processed, validatorVars, height, included, adder, entered, refused, made>>

-----------------------------------------------------------------------------
WorkDone(t) == WorkerEnds(t) /\ Close(t, VerifyTx(t), callers)
               /\ UNCHANGED <<processed, pool, work, height, included, updates, entered, refused, made>>

Handler(c) ==
    \/ Enter(c) \/ ValidateTx(c) \/ SendWork(c) \/ MarkAsValidatedTx(c) \/ Marked(c)
    \/ MempoolAnswers(c) \/ Finish(c)
    \/ \E t \in Txs : PeerAnswers(c, t)
    \/ PeerFails(c)

AddBlocks == StartBlock \/ SubmitBlockTx \/ SendBlockTx \/ RefuseBlock \/ CommitBlock

Next ==
    \/ \E c \in Callers, t \in Txs : Request(c, t) \/ Build(c, t)
    \/ \E c \in Callers : Handler(c)
    \/ WorkerTakes /\ UNCHANGED <<callers, processed, nodeVars>>
    \/ \E t \in Txs : WorkDone(t)
    \/ \E t \in Txs : RunRemoveExpired(t) /\ UNCHANGED <<callers, processed, nodeVars>>
    \/ AddBlocks \/ ResetProcessed \/ RemoveInserted \/ UpdateWork

\* Goroutines run, requests to peers time out, and an honest peer offers all it has in every
\* round of continuouslyDownloadMempool.
Fairness ==
    /\ \A c \in Callers : WF_vars(Handler(c))
    /\ WF_vars(WorkerTakes /\ UNCHANGED <<callers, processed, nodeVars>>)
    /\ \A t \in Txs : WF_vars(WorkDone(t))
    /\ WF_vars(AddBlocks) /\ WF_vars(ResetProcessed) /\ WF_vars(RemoveInserted) /\ WF_vars(UpdateWork)
    /\ \A c \in Honest : \A t \in Offers[c] : SF_vars(Request(c, t))

Spec == Init /\ [][Next]_vars /\ Fairness

-----------------------------------------------------------------------------
(* Properties *)

\* Whatever order verdicts, marks and expiries come in, only transactions that were verified,
\* or made by the node itself, get into the mempool or into a block of the chain.
OnlyVerified == pool \cup included \subseteq Valid \cup made

\* "Accepted" is only ever answered, or remembered, for a transaction that was in the mempool.
AcceptedWasPooled ==
    /\ \A c \in Callers : callers[c].at = "done" /\ callers[c].ok => callers[c].tx \in entered
    /\ \A g \in DOMAIN processed, t \in Txs : processed[g][t] = <<"accepted">> => t \in entered

\* A peer that fails, or answers with something else, does not keep others from offering the
\* transaction: what stays refused until the next block is invalid or was refused by the mempool.
RefusalsAreEarned ==
    \A g \in DOMAIN processed, t \in Txs :
        processed[g][t] = <<"refused">> => t \notin Valid \/ t \in Sterile \/ t \in refused

\* The places a work can be while it is not processed
Holders(t) ==
    {<<"caller", c>> : c \in {d \in Callers : callers[d].at \in {"send", "marking"} /\ callers[d].got = t}}
    \cup (IF adder.at = "send" /\ Block[Len(adder.verdicts)] = t THEN {<<"adder">>} ELSE {})
    \cup (IF channel = <<t>> THEN {<<"channel">>} ELSE {})
    \cup (IF t \in busy THEN {<<"worker">>} ELSE {})

AtWork == {"ask", "validate", "send", "verdict", "add", "done"}

\* No wakeup is lost: an unfinished work is in exactly one hand that will close it, whoever
\* waits for a verdict, handler or block, waits for such a work, and who waits for an answer
\* waits for a handler that is at work on the same transaction.
SomeoneIsAtWork ==
    /\ \A t \in Txs : Cardinality(Holders(t)) = IF all[t] = "init" THEN 1 ELSE 0
    /\ \A c \in Callers : callers[c].at = "verdict" => all[callers[c].got] = "init"
    /\ \A i \in DOMAIN adder.verdicts : adder.verdicts[i] = "init" => all[Block[i]] = "init"
    /\ \A c \in Callers : callers[c].at = "wait" =>
            LET o == callers[callers[c].on]
            IN  o.at \in AtWork /\ o.tx = callers[c].tx /\ o.gen = callers[c].gen
    /\ \A g \in DOMAIN processed, t \in Txs : processed[g][t][1] = "busy" =>
            LET o == callers[processed[g][t][2]]
            IN  o.at \in AtWork /\ o.tx = t /\ o.gen = g

\* Every request is answered: neither the workers, nor the full channel, nor a mempool without
\* work, nor another handler's failure keeps it waiting for ever.
AllAreAnswered == \A c \in Callers : callers[c].at # "idle" ~> callers[c].at = "idle"

\* A valid transaction an honest peer keeps offering gets into the mempool or the chain, unless
\* the mempool refused it since the last block, whatever other peers answer for it.
TxsSpread ==
    \A t \in (UNION {Offers[c] \cap Valid : c \in Honest}) \ Sterile :
        []<>(t \in pool \cup included \/ processed[Len(processed)][t] = <<"refused">>)

\* Answers are true and nobody is forgotten, in every order of verdicts, expiries, blocks and
\* failures of peers (mempoolNewTxIdProcess, ValidateTx, ValidateTxs).
RelayIsSound == TypeOK /\ OnlyVerified /\ AcceptedWasPooled /\ RefusalsAreEarned /\ SomeoneIsAtWork
=============================================================================
