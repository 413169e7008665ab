---------------------------- MODULE RelayProofs ----------------------------
(***************************************************************************)
(* Proofs about Relay, for every set of transactions, callers and blocks.  *)
(* What callers are answered depends on what each of them knows at its     *)
(* place in the handler (CallerOK), on what a verdict says (Verdicts are   *)
(* right), on what the block being validated has got so far (BlockOK), and *)
(* on the places a work can be (Hands).                                    *)
(***************************************************************************)
EXTENDS Relay, FiniteSetTheorems, TLAPS

\* What a refusal stands for
Earned(t, out) == t \notin Valid \/ t \in Sterile \/ t \in out

\* What caller c knows with local state r, when there are `maps' maps, the builder made `own',
\* `in' were in the mempool and `out' were refused by it.
CallerOK(c, r, maps, own, in, out) ==
    /\ r.gen <= maps
    /\ r.at \in {"enter", "wait", "ask"} => r.gen > 0
    /\ r.gen = 0 => r.at = "idle" \/ r.pass = 2
    /\ r.at # "done" => ~r.ok /\ ~r.drop
    /\ r.pass = 2 \/ c \notin Peers => r.got = r.tx
    /\ r.at \in {"idle", "enter", "wait", "ask"} => r.pass = 1
    /\ r.at = "idle" => r.gen = 0
    /\ r.at \in {"mark", "marking"} => r.pass = 2 /\ r.gen = 0 /\ r.got \in own
    /\ r.at = "add" => r.pass = 2 /\ r.got \in Valid \cup own
    /\ r.at = "done" /\ r.ok => r.tx \in in
    /\ r.at = "done" /\ ~r.ok /\ ~r.drop /\ r.gen > 0 => Earned(r.tx, out)

CallersOK == \A c \in Callers : CallerOK(c, callers[c], Len(processed), made, entered, refused)

\* What the verdicts say
VerdictsOK ==
    \A t \in Txs : /\ all[t] = "ok" => t \in Valid \cup made
                   /\ all[t] = "bad" => t \notin Valid

\* The block being validated
BlockOK ==
    /\ height < adder.next
    /\ adder.at = "idle" => adder.verdicts = <<>>
    /\ adder.at # "idle" => adder.next <= Len(Candidates) /\ Len(adder.verdicts) <= Len(Block)
    /\ adder.at = "submit" => Len(adder.verdicts) < Len(Block)
    /\ adder.at = "send" => Len(adder.verdicts) > 0
    /\ adder.at = "wait" => Len(adder.verdicts) = Len(Block)
    /\ \A i \in DOMAIN adder.verdicts :
          /\ adder.verdicts[i] = "ok" => Block[i] \in Valid \cup made
          /\ adder.verdicts[i] = "init" => all[Block[i]] = "init"

\* The places of a work, one by one
CallerHolds(c, t) == callers[c].at \in {"send", "marking"} /\ callers[c].got = t
AdderHolds(t) == adder.at = "send" /\ Block[Len(adder.verdicts)] = t
ChannelHolds(t) == channel = <<t>>

\* An unfinished work is in exactly one of them, another one in none.
Hands ==
    \A t \in Txs :
        /\ all[t] = "init" <=> (\E c \in Callers : CallerHolds(c, t)) \/ AdderHolds(t) \/ ChannelHolds(t) \/ t \in busy
        /\ \A c, d \in Callers : CallerHolds(c, t) /\ CallerHolds(d, t) => c = d
        /\ \A c \in Callers : CallerHolds(c, t) => ~AdderHolds(t) /\ ~ChannelHolds(t) /\ t \notin busy
        /\ AdderHolds(t) => ~ChannelHolds(t) /\ t \notin busy
        /\ ChannelHolds(t) => t \notin busy

\* Who waits for a verdict, who waits for an answer, and who they wait for
ForVerdicts == \A c \in Callers : callers[c].at = "verdict" => all[callers[c].got] = "init"
ForAnswers ==
    \A c \in Callers : callers[c].at = "wait" =>
        /\ callers[callers[c].on].at \in AtWork
        /\ callers[callers[c].on].tx = callers[c].tx
        /\ callers[callers[c].on].gen = callers[c].gen
BusyEntries ==
    \A g \in DOMAIN processed, t \in Txs, c \in Callers : processed[g][t] = <<"busy", c>> =>
        callers[c].at \in AtWork /\ callers[c].tx = t /\ callers[c].gen = g
Waits == ForVerdicts /\ ForAnswers /\ BusyEntries

\* What was pooled, refused and made
HistoryOK == pool \subseteq entered /\ entered \cup refused \cup made \subseteq Txs

MapsOK ==
    /\ processed # <<>>
    /\ \A g \in DOMAIN processed, t \in Txs :
            /\ processed[g][t] = <<"accepted">> => t \in entered
            /\ processed[g][t] = <<"refused">> => Earned(t, refused)

\* The inductive invariant
RelayInvariant ==
    TypeOK /\ OnlyVerified /\ HistoryOK /\ CallersOK /\ VerdictsOK /\ BlockOK /\ Hands /\ Waits /\ MapsOK
-----------------------------------------------------------------------------
\* What a caller knows stays true while maps are added and more is made, pooled and refused.
LEMMA CallerOKMonotone ==
  ASSUME NEW c, NEW r, NEW n \in Nat, NEW m \in Nat, n <= m, r.gen \in Nat,
         NEW own, NEW own2, own \subseteq own2, NEW in, NEW in2, in \subseteq in2,
         NEW out, NEW out2, out \subseteq out2, CallerOK(c, r, n, own, in, out)
  PROVE  CallerOK(c, r, m, own2, in2, out2)
BY DEF CallerOK, Earned

\* A caller at rest is one.
LEMMA RestOK ==
  ASSUME NEW c \in Callers, NEW n \in 0..MaxOffers, NEW maps \in Nat, NEW own, NEW in, NEW out
  PROVE  /\ Rest(c, n) \in Caller /\ Rest(c, n).at = "idle" /\ Rest(c, n).offers = n
         /\ CallerOK(c, Rest(c, n), maps, own, in, out)
<1>1. (CHOOSE x \in Txs : TRUE) \in Txs
  BY RelayAssumption
<1>2. Rest(c, n) \in Caller /\ Rest(c, n).at = "idle" /\ Rest(c, n).offers = n
  BY <1>1 DEF Rest, Caller
<1>. QED
  BY <1>2 DEF Rest, CallerOK

\* A verdict that is right makes of a caller that waits for it one that knows what it should.
LEMMA JudgedOK ==
  ASSUME NEW c \in Callers, NEW r \in Caller, NEW v \in Verdicts, NEW maps \in Nat,
         NEW own, NEW out, HistoryOK,
         CallerOK(c, r, maps, own, entered, out), r.at \in {"validate", "verdict"},
         v = "ok" => r.got \in Valid \cup own, v = "bad" => r.got \notin Valid
  PROVE  /\ Judged(c, r, v) \in Caller /\ Judged(c, r, v).at \in {"validate", "add", "done"}
         /\ Judged(c, r, v).tx = r.tx /\ Judged(c, r, v).gen = r.gen
         /\ CallerOK(c, Judged(c, r, v), maps, own, entered, out)
<1>1. /\ Judged(c, r, v) \in Caller /\ Judged(c, r, v).at \in {"validate", "add", "done"}
      /\ Judged(c, r, v).tx = r.tx /\ Judged(c, r, v).gen = r.gen
  BY DEF Judged, Caller, Verdicts
<1>2. CASE v = "bad"
  BY <1>2 DEF Judged, Caller, CallerOK, Earned
<1>3. CASE v = "ok" /\ r.pass = 1
  BY <1>3 DEF Judged, Caller, CallerOK, Earned
<1>4. CASE v = "ok" /\ r.pass = 2
  <2>1. r.got = r.tx /\ r.got \in Valid \cup own /\ r.got \in Txs
    BY <1>4 DEF CallerOK, Caller
  <2>2. CASE r.got \in pool
    BY <1>4, <2>1, <2>2 DEF Judged, Caller, CallerOK, HistoryOK
  <2>3. CASE r.got \notin pool /\ r.got \in Sterile
    BY <1>4, <2>1, <2>3 DEF Judged, Caller, CallerOK, Earned
  <2>4. CASE r.got \notin pool /\ r.got \notin Sterile
    BY <1>4, <2>1, <2>4 DEF Judged, Caller, CallerOK
  <2>. QED
    BY <2>2, <2>3, <2>4
<1>. QED
  BY <1>1, <1>2, <1>3, <1>4 DEF Caller, Verdicts

\* One caller goes on, with a local state that fits its new place.
LEMMA CallerMoves ==
  ASSUME RelayInvariant, NEW c \in Callers, NEW r \in Caller,
         callers' = [callers EXCEPT ![c] = r],
         processed' \in Seq([Txs -> Entry]), Len(processed') >= Len(processed),
         made \subseteq made', entered \subseteq entered', refused \subseteq refused',
         CallerOK(c, r, Len(processed'), made', entered', refused')
  PROVE  callers' \in [Callers -> Caller] /\ CallersOK'
<1>1. callers' \in [Callers -> Caller]
  BY DEF RelayInvariant, TypeOK
<1>2. ASSUME NEW d \in Callers, d # c
      PROVE  CallerOK(d, callers'[d], Len(processed'), made', entered', refused')
  <2>1. callers'[d] = callers[d] /\ callers[d].gen \in Nat
    BY <1>2 DEF RelayInvariant, TypeOK, Caller
  <2>2. Len(processed) \in Nat /\ Len(processed') \in Nat
    BY DEF RelayInvariant, TypeOK
  <2>3. CallerOK(d, callers[d], Len(processed), made, entered, refused)
    BY DEF RelayInvariant, CallersOK
  <2>. QED
    BY <2>1, <2>2, <2>3, CallerOKMonotone
<1>3. callers'[c] = r
  BY DEF RelayInvariant, TypeOK
<1>. QED
  BY <1>1, <1>2, <1>3 DEF CallersOK

\* A caller that goes on without touching a work or a map, and without leaving who waits for it.
LEMMA QuietMove ==
  ASSUME RelayInvariant, NEW c \in Callers, NEW r \in Caller,
         callers' = [callers EXCEPT ![c] = r], UNCHANGED <<processed, validatorVars, nodeVars>>,
         CallerOK(c, r, Len(processed), made, entered, refused),
         r.at \notin {"send", "marking"}, callers[c].at \notin {"send", "marking"},
         r.at = "verdict" => all[r.got] = "init",
         callers[c].at \in AtWork => r.at \in AtWork /\ r.tx = callers[c].tx /\ r.gen = callers[c].gen,
         r.at = "wait" => /\ callers[r.on].at \in AtWork
                          /\ callers[r.on].tx = r.tx /\ callers[r.on].gen = r.gen
  PROVE  RelayInvariant'
<1>0. TypeOK /\ OnlyVerified /\ HistoryOK /\ VerdictsOK /\ BlockOK /\ Hands /\ Waits /\ MapsOK
  BY DEF RelayInvariant
<1>1. callers' \in [Callers -> Caller] /\ CallersOK'
  <2>1. processed' \in Seq([Txs -> Entry]) /\ Len(processed') >= Len(processed)
    BY <1>0 DEF TypeOK
  <2>. QED
    BY <2>1, CallerMoves DEF nodeVars
<1>2. callers'[c] = r /\ \A d \in Callers : d # c => callers'[d] = callers[d]
  BY <1>0 DEF TypeOK
<1>3. Hands'
  BY <1>0, <1>2 DEF Hands, CallerHolds, AdderHolds, Block, ChannelHolds, validatorVars, nodeVars
<1>4. Waits'
  <2>1. ForVerdicts'
    BY <1>0, <1>2 DEF Waits, ForVerdicts, validatorVars, TypeOK, Caller
  <2>2. ForAnswers'
    <3>. SUFFICES ASSUME NEW d \in Callers, callers'[d].at = "wait"
                  PROVE  /\ callers'[callers'[d].on].at \in AtWork
                         /\ callers'[callers'[d].on].tx = callers'[d].tx
                         /\ callers'[callers'[d].on].gen = callers'[d].gen
      BY DEF ForAnswers
    <3>1. /\ callers'[d].on \in Callers
          /\ callers[callers'[d].on].at \in AtWork
          /\ callers[callers'[d].on].tx = callers'[d].tx
          /\ callers[callers'[d].on].gen = callers'[d].gen
      BY <1>0, <1>1, <1>2 DEF Waits, ForAnswers, AtWork, Caller
    <3>. QED
      BY <1>2, <3>1
  <2>3. BusyEntries'
    BY <1>0, <1>2 DEF Waits, BusyEntries, AtWork
  <2>. QED
    BY <2>1, <2>2, <2>3 DEF Waits
<1>5. TypeOK'
  BY <1>0, <1>1 DEF TypeOK, ValidatorTypeOK, validatorVars, nodeVars
<1>. QED
  BY <1>0, <1>1, <1>3, <1>4, <1>5
     DEF RelayInvariant, OnlyVerified, HistoryOK, VerdictsOK, BlockOK, Block, MapsOK, validatorVars, nodeVars

\* A request: look in the mempool, load the map (mempoolNewTx, mempoolNewTxIdProcess).
LEMMA RequestInvariant ==
  ASSUME RelayInvariant, NEW c \in Callers, NEW t \in Txs, Request(c, t)
  PROVE  RelayInvariant'
<1>. DEFINE n == IF c \in Honest THEN 0 ELSE callers[c].offers + 1
            r == IF t \in pool THEN Rest(c, n)
                 ELSE [Rest(c, n) EXCEPT !.at = "enter", !.tx = t, !.got = t, !.gen = Len(processed)]
<1>0. TypeOK /\ MapsOK
  BY DEF RelayInvariant
<1>1. callers' = [callers EXCEPT ![c] = r] /\ UNCHANGED <<processed, validatorVars, nodeVars>>
  BY DEF Request
<1>2. n \in 0..MaxOffers
  BY <1>0, RelayAssumption DEF Request, TypeOK, Caller
<1>3. Len(processed) \in Nat /\ Len(processed) > 0
  BY <1>0 DEF MapsOK, TypeOK
<1>. HIDE DEF n
<1>4. r \in Caller /\ r.at \in {"idle", "enter"} /\ CallerOK(c, r, Len(processed), made, entered, refused)
  <2>1. Rest(c, n) \in Caller /\ CallerOK(c, Rest(c, n), Len(processed), made, entered, refused) /\ Rest(c, n).at = "idle"
    BY <1>2, <1>3, RestOK
  <2>2. CASE t \in pool
    BY <2>1, <2>2
  <2>3. CASE t \notin pool
    <3>1. r \in Caller /\ r.at = "enter" /\ r.tx = t /\ r.got = t /\ r.gen = Len(processed)
      BY <1>3, <2>1, <2>3 DEF Caller
    <3>2. r.pass = 1 /\ ~r.ok /\ ~r.drop
      BY <2>1, <2>3 DEF Caller, CallerOK
    <3>. QED
      BY <1>3, <3>1, <3>2 DEF Caller, CallerOK
  <2>. QED
    BY <2>2, <2>3
<1>5. callers[c].at = "idle"
  BY DEF Request
<1>. HIDE DEF r
<1>. QED
  BY <1>1, <1>4, <1>5, QuietMove DEF AtWork

\* The kinds of entries
LEMMA EntryCases ==
  ASSUME NEW e \in Entry
  PROVE  \/ e = <<"none">> /\ e[1] = "none"
         \/ e = <<"accepted">> /\ e[1] = "accepted"
         \/ e = <<"refused">> /\ e[1] = "refused"
         \/ \E d \in Callers : e = <<"busy", d>> /\ e[1] = "busy" /\ e[2] = d
BY DEF Entry

\* LoadOrStore in the map: become the one who processes, wait for it, or take its answer.
LEMMA EnterInvariant ==
  ASSUME RelayInvariant, NEW c \in Callers, Enter(c)
  PROVE  RelayInvariant'
<1>. DEFINE r == callers[c]
            entry == processed[r.gen][r.tx]
<1>0. TypeOK /\ OnlyVerified /\ HistoryOK /\ CallersOK /\ VerdictsOK /\ BlockOK /\ Hands /\ Waits /\ MapsOK
  BY DEF RelayInvariant
<1>1. /\ r \in Caller /\ r.at = "enter" /\ r.gen \in DOMAIN processed /\ r.tx \in Txs
      /\ CallerOK(c, r, Len(processed), made, entered, refused) /\ entry \in Entry
  <2>1. /\ r \in Caller /\ r.at = "enter" /\ processed \in Seq([Txs -> Entry])
        /\ CallerOK(c, r, Len(processed), made, entered, refused)
    BY <1>0 DEF TypeOK, CallersOK, Enter
  <2>2. r.gen \in DOMAIN processed /\ r.tx \in Txs
    BY <2>1 DEF CallerOK, Caller
  <2>. QED
    BY <2>1, <2>2
<1>2. CASE entry = <<"none">>
  <2>. DEFINE q == [r EXCEPT !.at = IF c \in Peers THEN "ask" ELSE "validate"]
  <2>1. /\ processed' = [processed EXCEPT ![r.gen][r.tx] = <<"busy", c>>]
        /\ callers' = [callers EXCEPT ![c] = q] /\ UNCHANGED <<validatorVars, nodeVars>>
    BY <1>0, <1>2 DEF Enter, To, TypeOK, Caller
  <2>2. q \in Caller /\ q.at \in {"ask", "validate"} /\ q.tx = r.tx /\ q.gen = r.gen
    BY <1>1 DEF Caller
  <2>3. /\ processed' \in Seq([Txs -> Entry]) /\ Len(processed') = Len(processed)
        /\ DOMAIN processed' = DOMAIN processed
        /\ \A g \in DOMAIN processed, t \in Txs :
              processed'[g][t] = IF g = r.gen /\ t = r.tx THEN <<"busy", c>> ELSE processed[g][t]
    BY <1>0, <1>1, <2>1 DEF TypeOK, Entry
  <2>4. CallerOK(c, q, Len(processed'), made', entered', refused')
    BY <1>1, <2>1, <2>2, <2>3 DEF CallerOK, Caller, nodeVars
  <2>. HIDE DEF q
  <2>5. callers' \in [Callers -> Caller] /\ CallersOK'
    <3>1. Len(processed') >= Len(processed)
      BY <1>0, <2>3 DEF TypeOK
    <3>. QED
      BY <2>1, <2>2, <2>3, <2>4, <3>1, CallerMoves DEF nodeVars
  <2>6. callers'[c] = q /\ \A d \in Callers : d # c => callers'[d] = callers[d]
    BY <1>0, <2>1 DEF TypeOK
  <2>7. Hands'
    BY <1>0, <1>1, <2>1, <2>2, <2>6 DEF Hands, CallerHolds, AdderHolds, Block, ChannelHolds, validatorVars, nodeVars
  <2>8. Waits'
    <3>1. ASSUME NEW g \in DOMAIN processed, NEW t \in Txs, NEW d \in Callers,
                 processed'[g][t] = <<"busy", d>>
          PROVE  callers'[d].at \in AtWork /\ callers'[d].tx = t /\ callers'[d].gen = g
      <4>1. CASE g = r.gen /\ t = r.tx
        <5>1. <<"busy", d>> = <<"busy", c>>
          BY <2>3, <3>1, <4>1
        <5>2. d = c
          BY <5>1
        <5>. QED
          BY <2>2, <2>6, <4>1, <5>2 DEF AtWork
      <4>2. CASE ~(g = r.gen /\ t = r.tx)
        BY <1>0, <1>1, <2>3, <2>6, <3>1, <4>2 DEF Waits, ForVerdicts, ForAnswers, BusyEntries, AtWork
      <4>. QED
        BY <4>1, <4>2
    <3>2. ForVerdicts' /\ ForAnswers'
      BY <1>0, <1>1, <2>1, <2>2, <2>6 DEF Waits, ForVerdicts, ForAnswers, AtWork, validatorVars, TypeOK, Caller
    <3>. QED
      BY <2>3, <3>1, <3>2 DEF Waits, BusyEntries
  <2>9. MapsOK'
    BY <1>0, <1>1, <2>1, <2>3 DEF MapsOK, nodeVars
  <2>10. TypeOK'
    BY <1>0, <2>1, <2>3, <2>5 DEF TypeOK, ValidatorTypeOK, validatorVars, nodeVars
  <2>. QED
    BY <1>0, <2>1, <2>5, <2>7, <2>8, <2>9, <2>10
       DEF RelayInvariant, OnlyVerified, HistoryOK, VerdictsOK, BlockOK, Block, validatorVars, nodeVars
<1>3. CASE entry[1] = "busy"
  <2>. DEFINE q == [r EXCEPT !.at = "wait", !.on = entry[2]]
  <2>1. PICK d \in Callers : entry = <<"busy", d>> /\ entry[2] = d
    BY <1>1, <1>3, EntryCases
  <2>2. callers[d].at \in AtWork /\ callers[d].tx = r.tx /\ callers[d].gen = r.gen
    BY <1>0, <1>1, <2>1 DEF Waits, BusyEntries
  <2>3. q \in Caller /\ q.at = "wait" /\ q.on = d /\ q.tx = r.tx /\ q.gen = r.gen
    BY <1>1, <2>1 DEF Caller
  <2>4. CallerOK(c, q, Len(processed), made, entered, refused)
    BY <1>1, <2>3 DEF CallerOK, Caller
  <2>5. callers' = [callers EXCEPT ![c] = q] /\ UNCHANGED <<processed, validatorVars, nodeVars>>
    <3>1. callers' = [callers EXCEPT ![c].at = "wait", ![c].on = entry[2]] /\ UNCHANGED <<processed, validatorVars, nodeVars>>
      BY <1>1, <1>3, EntryCases DEF Enter
    <3>. QED
      BY <1>0, <3>1 DEF TypeOK, Caller
  <2>. HIDE DEF q, entry
  <2>. QED
    BY <1>1, <2>2, <2>3, <2>4, <2>5, QuietMove DEF AtWork
<1>4. CASE entry[1] \in {"accepted", "refused"}
  <2>1. callers' = [callers EXCEPT ![c] = Rest(c, r.offers)] /\ UNCHANGED <<processed, validatorVars, nodeVars>>
    BY <1>0, <1>1, <1>4, EntryCases DEF Enter, TypeOK
  <2>2. /\ Rest(c, r.offers) \in Caller /\ Rest(c, r.offers).at = "idle"
        /\ CallerOK(c, Rest(c, r.offers), Len(processed), made, entered, refused)
    BY <1>0, <1>1, RestOK DEF TypeOK, Caller
  <2>. QED
    BY <1>1, <2>1, <2>2, QuietMove DEF AtWork
<1>. QED
  BY <1>2, <1>3, <1>4 DEF Enter

\* The answer of a peer, right or wrong, or none (tx-raw).
LEMMA PeerInvariant ==
  ASSUME RelayInvariant, NEW c \in Callers, PeerFails(c) \/ \E t \in Txs : PeerAnswers(c, t)
  PROVE  RelayInvariant'
<1>. DEFINE r == callers[c]
<1>0. TypeOK /\ CallersOK
  BY DEF RelayInvariant
<1>1. r \in Caller /\ r.at = "ask" /\ CallerOK(c, r, Len(processed), made, entered, refused)
  BY <1>0 DEF TypeOK, CallersOK, PeerFails, PeerAnswers
<1>2. CASE PeerFails(c)
  <2>. DEFINE q == [r EXCEPT !.at = "done", !.drop = TRUE]
  <2>1. callers' = [callers EXCEPT ![c] = q] /\ UNCHANGED <<processed, validatorVars, nodeVars>>
    BY <1>0, <1>2 DEF PeerFails, TypeOK, Caller
  <2>2. q \in Caller /\ q.at = "done" /\ q.tx = r.tx /\ q.gen = r.gen
    BY <1>1 DEF Caller
  <2>3. CallerOK(c, q, Len(processed), made, entered, refused)
    BY <1>1, <2>2 DEF CallerOK, Caller
  <2>. HIDE DEF q
  <2>. QED
    BY <1>1, <2>1, <2>2, <2>3, QuietMove DEF AtWork
<1>3. ASSUME NEW t \in Txs, PeerAnswers(c, t)
      PROVE  RelayInvariant'
  <2>. DEFINE q == [r EXCEPT !.at = "validate", !.got = t]
  <2>1. callers' = [callers EXCEPT ![c] = q] /\ UNCHANGED <<processed, validatorVars, nodeVars>>
    BY <1>0, <1>3 DEF PeerAnswers, TypeOK, Caller
  <2>2. q \in Caller /\ q.at = "validate" /\ q.tx = r.tx /\ q.gen = r.gen
    BY <1>1 DEF Caller
  <2>3. CallerOK(c, q, Len(processed), made, entered, refused)
    <3>1. c \in Peers \/ t = r.tx
      BY <1>3 DEF PeerAnswers, Peers
    <3>. QED
      BY <1>1, <2>2, <3>1 DEF CallerOK, Caller
  <2>. HIDE DEF q
  <2>. QED
    BY <1>1, <2>1, <2>2, <2>3, QuietMove DEF AtWork
<1>. QED
  BY <1>2, <1>3

\* The first who asks for a verdict, or marks a transaction, has the new work in its hand.
LEMMA NewWorkInvariant ==
  ASSUME RelayInvariant, NEW c \in Callers, NEW r \in Caller,
         callers[c].at \in {"validate", "mark"}, all[r.got] = "none",
         callers' = [callers EXCEPT ![c] = r], all' = [all EXCEPT ![r.got] = "init"],
         UNCHANGED <<channel, busy, processed, nodeVars>>,
         CallerOK(c, r, Len(processed), made, entered, refused), r.at \in {"send", "marking"},
         callers[c].at = "validate" => r.at = "send" /\ r.tx = callers[c].tx /\ r.gen = callers[c].gen
  PROVE  RelayInvariant'
<1>0. TypeOK /\ OnlyVerified /\ HistoryOK /\ VerdictsOK /\ BlockOK /\ Hands /\ Waits /\ MapsOK
  BY DEF RelayInvariant
<1>1. callers' \in [Callers -> Caller] /\ CallersOK'
  <2>1. processed' \in Seq([Txs -> Entry]) /\ Len(processed') >= Len(processed)
    BY <1>0 DEF TypeOK
  <2>. QED
    BY <2>1, CallerMoves DEF nodeVars
<1>2. callers'[c] = r /\ \A d \in Callers : d # c => callers'[d] = callers[d]
  BY <1>0 DEF TypeOK
<1>3. r.got \in Txs /\ all'[r.got] = "init" /\ \A t \in Txs : t # r.got => all'[t] = all[t]
  BY <1>0 DEF TypeOK, ValidatorTypeOK, Caller
<1>4. Hands'
  BY <1>0, <1>2, <1>3 DEF Hands, CallerHolds, AdderHolds, Block, ChannelHolds, nodeVars
<1>5. Waits'
  <2>1. ForVerdicts'
    BY <1>0, <1>2, <1>3 DEF Waits, ForVerdicts, TypeOK, Caller
  <2>2. ASSUME NEW d \in Callers, callers[d].at \in AtWork
        PROVE  callers'[d].at \in AtWork /\ callers'[d].tx = callers[d].tx /\ callers'[d].gen = callers[d].gen
    BY <1>2, <2>2 DEF AtWork
  <2>3. ForAnswers'
    <3>. SUFFICES ASSUME NEW d \in Callers, callers'[d].at = "wait"
                  PROVE  /\ callers'[callers'[d].on].at \in AtWork
                         /\ callers'[callers'[d].on].tx = callers'[d].tx
                         /\ callers'[callers'[d].on].gen = callers'[d].gen
      BY DEF ForAnswers
    <3>1. d # c
      BY <1>2
    <3>2. callers'[d] = callers[d] /\ callers[d].at = "wait"
      BY <1>2, <3>1
    <3>3. callers[d].on \in Callers
      BY <1>0, <3>2 DEF TypeOK, Caller, ForAnswers, Waits, AtWork
    <3>. QED
      BY <1>0, <2>2, <3>2, <3>3 DEF Waits, ForAnswers
  <2>4. BusyEntries'
    BY <1>0, <2>2 DEF Waits, BusyEntries
  <2>. QED
    BY <2>1, <2>3, <2>4 DEF Waits
<1>6. TypeOK'
  BY <1>0, <1>1, <1>3 DEF TypeOK, ValidatorTypeOK, nodeVars
<1>7. VerdictsOK'
  BY <1>0, <1>3 DEF VerdictsOK, nodeVars
<1>8. BlockOK'
  BY <1>0, <1>3 DEF BlockOK, Block, nodeVars
<1>. QED
  BY <1>0, <1>1, <1>4, <1>5, <1>6, <1>7, <1>8 DEF RelayInvariant, OnlyVerified, HistoryOK, MapsOK, nodeVars

\* ValidateTx: a new work, one to wait for, or a verdict that is there.
LEMMA ValidateTxInvariant ==
  ASSUME RelayInvariant, NEW c \in Callers, ValidateTx(c)
  PROVE  RelayInvariant'
<1>. DEFINE r == callers[c]
<1>0. TypeOK /\ HistoryOK /\ CallersOK /\ VerdictsOK
  BY DEF RelayInvariant
<1>1. /\ r \in Caller /\ r.at = "validate" /\ CallerOK(c, r, Len(processed), made, entered, refused)
      /\ r.got \in Txs /\ all[r.got] \in {"none", "init"} \cup Verdicts
  BY <1>0 DEF TypeOK, ValidatorTypeOK, CallersOK, ValidateTx, Caller
<1>2. CASE all[r.got] = "none"
  <2>. DEFINE q == [r EXCEPT !.at = "send"]
  <2>1. /\ callers' = [callers EXCEPT ![c] = q] /\ all' = [all EXCEPT ![r.got] = "init"]
        /\ UNCHANGED <<channel, busy, processed, nodeVars>>
    BY <1>0, <1>1, <1>2 DEF ValidateTx, LoadOrStore, TypeOK, ValidatorTypeOK
  <2>2. q \in Caller /\ q.at = "send" /\ q.got = r.got /\ q.tx = r.tx /\ q.gen = r.gen
    BY <1>1 DEF Caller
  <2>3. CallerOK(c, q, Len(processed), made, entered, refused)
    BY <1>1, <2>2 DEF CallerOK, Caller
  <2>. HIDE DEF q
  <2>. QED
    BY <1>1, <1>2, <2>1, <2>2, <2>3, NewWorkInvariant
<1>3. CASE all[r.got] # "none"
  <2>. DEFINE q == IF all[r.got] = "init" THEN [r EXCEPT !.at = "verdict"] ELSE Judged(c, r, all[r.got])
  <2>1. callers' = [callers EXCEPT ![c] = q]
    BY <1>3 DEF ValidateTx
  <2>2. UNCHANGED <<processed, validatorVars, nodeVars>>
    <3>1. all' = all
      BY <1>0, <1>1, <1>3 DEF ValidateTx, LoadOrStore, TypeOK, ValidatorTypeOK
    <3>. QED
      BY <3>1 DEF ValidateTx, validatorVars
  <2>3. /\ q \in Caller /\ q.at \in {"verdict", "validate", "add", "done"} /\ q.tx = r.tx /\ q.gen = r.gen
        /\ q.at = "verdict" => all[q.got] = "init"
        /\ CallerOK(c, q, Len(processed), made, entered, refused)
    <3>1. CASE all[r.got] = "init"
      <4>1. q \in Caller /\ q.at = "verdict" /\ q.tx = r.tx /\ q.got = r.got /\ q.gen = r.gen
        BY <1>1, <3>1 DEF Caller
      <4>. QED
        BY <1>1, <3>1, <4>1 DEF CallerOK, Caller
    <3>2. CASE all[r.got] # "init"
      <4>1. all[r.got] \in Verdicts /\ Len(processed) \in Nat
        BY <1>0, <1>1, <1>3, <3>2 DEF TypeOK
      <4>. QED
        BY <1>0, <1>1, <3>2, <4>1, JudgedOK DEF VerdictsOK
    <3>. QED
      BY <3>1, <3>2
  <2>. HIDE DEF q
  <2>. QED
    BY <1>1, <2>1, <2>2, <2>3, QuietMove DEF AtWork
<1>. QED
  BY <1>2, <1>3

\* The builder looks for the work of what it made (MarkAsValidatedTx).
LEMMA MarkAsValidatedTxInvariant ==
  ASSUME RelayInvariant, NEW c \in Callers, MarkAsValidatedTx(c)
  PROVE  RelayInvariant'
<1>. DEFINE r == callers[c]
<1>0. TypeOK /\ CallersOK
  BY DEF RelayInvariant
<1>1. /\ r \in Caller /\ r.at = "mark" /\ CallerOK(c, r, Len(processed), made, entered, refused)
      /\ r.got \in Txs /\ all[r.got] \in {"none", "init"} \cup Verdicts
  BY <1>0 DEF TypeOK, ValidatorTypeOK, CallersOK, MarkAsValidatedTx, Caller
<1>2. CASE all[r.got] = "none"
  <2>. DEFINE q == [r EXCEPT !.at = "marking"]
  <2>1. /\ callers' = [callers EXCEPT ![c] = q] /\ all' = [all EXCEPT ![r.got] = "init"]
        /\ UNCHANGED <<channel, busy, processed, nodeVars>>
    BY <1>0, <1>1, <1>2 DEF MarkAsValidatedTx, To, LoadOrStore, TypeOK, ValidatorTypeOK
  <2>2. q \in Caller /\ q.at = "marking" /\ q.got = r.got /\ q.tx = r.tx /\ q.gen = r.gen
    BY <1>1 DEF Caller
  <2>3. CallerOK(c, q, Len(processed), made, entered, refused)
    BY <1>1, <2>2 DEF CallerOK, Caller
  <2>. HIDE DEF q
  <2>. QED
    BY <1>1, <1>2, <2>1, <2>2, <2>3, NewWorkInvariant
<1>3. CASE all[r.got] # "none"
  <2>. DEFINE q == [r EXCEPT !.at = IF all[r.got] = "bad" THEN "done" ELSE "validate"]
  <2>1. callers' = [callers EXCEPT ![c] = q]
    BY <1>0, <1>3 DEF MarkAsValidatedTx, To, TypeOK
  <2>2. UNCHANGED <<processed, validatorVars, nodeVars>>
    <3>1. all' = all
      BY <1>0, <1>1, <1>3 DEF MarkAsValidatedTx, LoadOrStore, TypeOK, ValidatorTypeOK
    <3>. QED
      BY <3>1 DEF MarkAsValidatedTx, validatorVars
  <2>3. q \in Caller /\ q.at \in {"done", "validate"} /\ q.tx = r.tx /\ q.gen = r.gen
    BY <1>1 DEF Caller
  <2>4. CallerOK(c, q, Len(processed), made, entered, refused)
    BY <1>1, <2>3 DEF CallerOK, Caller
  <2>. HIDE DEF q
  <2>. QED
    BY <1>1, <2>1, <2>2, <2>3, <2>4, QuietMove DEF AtWork
<1>. QED
  BY <1>2, <1>3

\* Nobody is left waiting while who is at work stays at work.
LEMMA WorkersStay ==
  ASSUME TypeOK, Waits, UNCHANGED processed,
         \A d \in Callers : callers[d].at \in AtWork =>
            callers'[d].at \in AtWork /\ callers'[d].tx = callers[d].tx /\ callers'[d].gen = callers[d].gen,
         \A d \in Callers : callers'[d].at = "wait" => callers'[d] = callers[d]
  PROVE  ForAnswers' /\ BusyEntries'
<1>1. \A d \in Callers : callers[d].on \in Callers
  BY DEF TypeOK, Caller
<1>2. ForAnswers'
  BY <1>1 DEF Waits, ForAnswers
<1>3. BusyEntries'
  BY DEF Waits, BusyEntries
<1>. QED
  BY <1>2, <1>3

\* A new work goes from the hand of its caller into the channel.
LEMMA SendWorkInvariant ==
  ASSUME RelayInvariant, NEW c \in Callers, SendWork(c)
  PROVE  RelayInvariant'
<1>. DEFINE r == callers[c]
            q == [r EXCEPT !.at = "verdict"]
<1>0. TypeOK /\ OnlyVerified /\ HistoryOK /\ CallersOK /\ VerdictsOK /\ BlockOK /\ Hands /\ Waits /\ MapsOK
  BY DEF RelayInvariant
<1>1. /\ r \in Caller /\ r.at = "send" /\ CallerOK(c, r, Len(processed), made, entered, refused)
      /\ r.got \in Txs /\ channel = <<>> /\ channel' = <<r.got>>
      /\ UNCHANGED <<all, busy, processed, nodeVars>>
  BY <1>0 DEF TypeOK, CallersOK, SendWork, Send, Caller
<1>2. callers' = [callers EXCEPT ![c] = q]
  BY <1>0 DEF SendWork, To, TypeOK
<1>3. q \in Caller /\ q.at = "verdict" /\ q.got = r.got /\ q.tx = r.tx /\ q.gen = r.gen
  BY <1>1 DEF Caller
<1>4. CallerOK(c, q, Len(processed), made, entered, refused)
  BY <1>1, <1>3 DEF CallerOK, Caller
<1>. HIDE DEF q
<1>5. callers' \in [Callers -> Caller] /\ CallersOK'
  <2>1. processed' \in Seq([Txs -> Entry]) /\ Len(processed') >= Len(processed)
    BY <1>0, <1>1 DEF TypeOK
  <2>. QED
    BY <1>1, <1>2, <1>3, <1>4, <2>1, CallerMoves DEF nodeVars
<1>6. callers'[c] = q /\ \A d \in Callers : d # c => callers'[d] = callers[d]
  BY <1>0, <1>2 DEF TypeOK
<1>7. all[r.got] = "init"
  BY <1>0, <1>1 DEF Hands, CallerHolds
<1>8. Hands'
  <2>1. \A t \in Txs : (ChannelHolds(t)' <=> t = r.got) /\ ~ChannelHolds(t)
    BY <1>1 DEF ChannelHolds
  <2>2. \A t \in Txs, d \in Callers : CallerHolds(d, t)' <=> CallerHolds(d, t) /\ d # c
    BY <1>1, <1>3, <1>6 DEF CallerHolds
  <2>3. \A t \in Txs : CallerHolds(c, t) <=> t = r.got
    BY <1>1 DEF CallerHolds
  <2>4. \A t \in Txs : AdderHolds(t)' <=> AdderHolds(t)
    BY <1>1 DEF AdderHolds, Block, nodeVars
  <2>. QED
    BY <1>0, <1>1, <2>1, <2>2, <2>3, <2>4 DEF Hands
<1>9. Waits'
  <2>1. ForVerdicts'
    BY <1>0, <1>1, <1>3, <1>6, <1>7 DEF Waits, ForVerdicts
  <2>2. ForAnswers' /\ BusyEntries'
    BY <1>0, <1>1, <1>3, <1>6, WorkersStay DEF AtWork
  <2>. QED
    BY <2>1, <2>2 DEF Waits
<1>10. TypeOK'
  BY <1>0, <1>1, <1>5 DEF TypeOK, ValidatorTypeOK, nodeVars
<1>. QED
  BY <1>0, <1>1, <1>5, <1>8, <1>9, <1>10
     DEF RelayInvariant, OnlyVerified, HistoryOK, VerdictsOK, BlockOK, Block, MapsOK, nodeVars

\* The builder makes a transaction.
LEMMA BuildInvariant ==
  ASSUME RelayInvariant, NEW c \in Callers, NEW t \in Txs, Build(c, t)
  PROVE  RelayInvariant'
<1>. DEFINE r == callers[c]
            q == [r EXCEPT !.at = "mark", !.tx = t, !.got = t, !.pass = 2, !.offers = r.offers + 1]
<1>0. TypeOK /\ OnlyVerified /\ HistoryOK /\ CallersOK /\ VerdictsOK /\ BlockOK /\ Hands /\ Waits /\ MapsOK
  BY DEF RelayInvariant
<1>1. /\ r \in Caller /\ r.at = "idle" /\ CallerOK(c, r, Len(processed), made, entered, refused)
      /\ r.offers < MaxOffers /\ made' = made \cup {t} /\ made' \subseteq Txs
      /\ UNCHANGED <<processed, validatorVars, pool, work, height, included, adder, updates, entered, refused>>
  BY <1>0 DEF TypeOK, CallersOK, HistoryOK, Build
<1>9. callers' = [callers EXCEPT ![c] = q]
  BY <1>0, <1>1 DEF TypeOK, Build, Caller
<1>2. /\ q \in Caller /\ q.at = "mark" /\ q.pass = 2 /\ q.tx = t /\ q.got = t /\ q.gen = r.gen
      /\ q.ok = r.ok /\ q.drop = r.drop
  <2>1. r.offers + 1 \in 0..MaxOffers
    BY <1>1, RelayAssumption DEF Caller
  <2>. QED
    BY <1>1, <2>1 DEF Caller
<1>3. CallerOK(c, q, Len(processed'), made', entered', refused')
  BY <1>1, <1>2 DEF CallerOK, Caller
<1>. HIDE DEF q
<1>4. callers' \in [Callers -> Caller] /\ CallersOK'
  <2>1. processed' \in Seq([Txs -> Entry]) /\ Len(processed') >= Len(processed)
    BY <1>0, <1>1 DEF TypeOK
  <2>. QED
    BY <1>1, <1>9, <1>2, <1>3, <2>1, CallerMoves
<1>5. callers'[c] = q /\ \A d \in Callers : d # c => callers'[d] = callers[d]
  BY <1>0, <1>9 DEF TypeOK
<1>6. Hands'
  BY <1>0, <1>1, <1>2, <1>5 DEF Hands, CallerHolds, AdderHolds, Block, ChannelHolds, validatorVars
<1>7. Waits'
  <2>1. ForVerdicts'
    BY <1>0, <1>1, <1>2, <1>5 DEF Waits, ForVerdicts, validatorVars
  <2>2. ForAnswers' /\ BusyEntries'
    BY <1>0, <1>1, <1>2, <1>5, WorkersStay DEF AtWork
  <2>. QED
    BY <2>1, <2>2 DEF Waits
<1>8. TypeOK'
  BY <1>0, <1>1, <1>4 DEF TypeOK, ValidatorTypeOK, validatorVars
<1>. QED
  BY <1>0, <1>1, <1>4, <1>6, <1>7, <1>8
     DEF RelayInvariant, OnlyVerified, HistoryOK, VerdictsOK, BlockOK, Block, MapsOK, validatorVars

\* The mempool's worker takes a transaction or refuses it (addTransactionCn).
LEMMA MempoolAnswersInvariant ==
  ASSUME RelayInvariant, NEW c \in Callers, MempoolAnswers(c)
  PROVE  RelayInvariant'
<1>. DEFINE r == callers[c]
            fits == r.got \notin included /\ work \in AppliesAt[r.got]
            q == [r EXCEPT !.at = "done", !.ok = r.got \in pool \/ fits]
<1>0. TypeOK /\ OnlyVerified /\ HistoryOK /\ CallersOK /\ VerdictsOK /\ BlockOK /\ Hands /\ Waits /\ MapsOK
  BY DEF RelayInvariant
<1>1. /\ r \in Caller /\ r.at = "add" /\ CallerOK(c, r, Len(processed), made, entered, refused)
      /\ pool' = (IF fits THEN pool \cup {r.got} ELSE pool)
      /\ entered' = entered \cup pool'
      /\ refused' = (IF r.got \in pool \/ fits THEN refused ELSE refused \cup {r.got})
      /\ UNCHANGED <<processed, validatorVars, work, height, included, adder, updates, made>>
      /\ callers' = [callers EXCEPT ![c] = q]
  BY <1>0 DEF TypeOK, CallersOK, MempoolAnswers
<1>2. q \in Caller /\ q.at = "done" /\ q.pass = r.pass /\ q.tx = r.tx /\ q.got = r.got /\ q.gen = r.gen /\ q.drop = r.drop
  BY <1>1 DEF Caller
<1>3. r.pass = 2 /\ r.tx = r.got /\ r.got \in Txs /\ r.got \in Valid \cup made /\ ~r.drop
  BY <1>1 DEF CallerOK, Caller
<1>4. q.ok <=> r.got \in pool \/ fits
  BY <1>1 DEF Caller
<1>. HIDE DEF q
<1>5. CallerOK(c, q, Len(processed'), made', entered', refused')
  <2>1. q.ok => q.tx \in entered'
    BY <1>1, <1>2, <1>3, <1>4
  <2>2. ~q.ok => q.tx \in refused'
    BY <1>1, <1>2, <1>3, <1>4
  <2>. QED
    BY <1>1, <1>2, <1>3, <2>1, <2>2 DEF CallerOK, Earned, Caller
<1>6. callers' \in [Callers -> Caller] /\ CallersOK'
  <2>1. processed' \in Seq([Txs -> Entry]) /\ Len(processed') >= Len(processed)
    BY <1>0, <1>1 DEF TypeOK
  <2>2. made \subseteq made' /\ entered \subseteq entered' /\ refused \subseteq refused'
    BY <1>1
  <2>. QED
    BY <1>1, <1>2, <1>5, <2>1, <2>2, CallerMoves
<1>7. callers'[c] = q /\ \A d \in Callers : d # c => callers'[d] = callers[d]
  BY <1>0, <1>1 DEF TypeOK
<1>8. Hands'
  BY <1>0, <1>1, <1>2, <1>7 DEF Hands, CallerHolds, AdderHolds, Block, ChannelHolds, validatorVars
<1>9. Waits'
  <2>1. ForVerdicts'
    BY <1>0, <1>1, <1>2, <1>7 DEF Waits, ForVerdicts, validatorVars
  <2>2. ForAnswers' /\ BusyEntries'
    BY <1>0, <1>1, <1>2, <1>7, WorkersStay DEF AtWork
  <2>. QED
    BY <2>1, <2>2 DEF Waits
<1>10. TypeOK'
  BY <1>0, <1>1, <1>3, <1>6 DEF TypeOK, ValidatorTypeOK, validatorVars
<1>11. OnlyVerified' /\ HistoryOK'
  BY <1>0, <1>1, <1>3 DEF OnlyVerified, HistoryOK, TypeOK
<1>12. MapsOK'
  BY <1>0, <1>1 DEF MapsOK, Earned
<1>. QED
  BY <1>0, <1>1, <1>6, <1>8, <1>9, <1>10, <1>11, <1>12
     DEF RelayInvariant, VerdictsOK, BlockOK, Block, validatorVars

\* A work is closed by who had it in its hand, `now' being the callers after that.
LEMMA CloseInvariant ==
  ASSUME RelayInvariant, NEW t \in Txs, NEW v \in Verdicts, NEW now \in [Callers -> Caller],
         Close(t, v, now), all[t] = "init", all' = [all EXCEPT ![t] = v],
         v = "ok" => t \in Valid \cup made, v = "bad" => t \notin Valid,
         UNCHANGED <<channel, processed, pool, work, height, included, updates, entered, refused, made>>,
         busy' = busy \ {t}, ~AdderHolds(t), ~ChannelHolds(t),
         \A c \in Callers : CallerOK(c, now[c], Len(processed), made, entered, refused),
         \A c \in Callers : \/ now[c] = callers[c]
                            \/ /\ callers[c].at = "marking" /\ callers[c].got = t
                               /\ now[c].at = "validate" /\ now[c].got = t,
         \A c \in Callers : ~(now[c].at \in {"send", "marking"} /\ now[c].got = t)
  PROVE  RelayInvariant'
<1>0. TypeOK /\ OnlyVerified /\ HistoryOK /\ CallersOK /\ VerdictsOK /\ BlockOK /\ Hands /\ Waits /\ MapsOK
  BY DEF RelayInvariant
<1>1. ASSUME NEW c \in Callers
      PROVE  /\ callers'[c] \in Caller /\ CallerOK(c, callers'[c], Len(processed), made, entered, refused)
             /\ \/ callers'[c] = now[c] /\ ~(now[c].at = "verdict" /\ now[c].got = t)
                \/ /\ callers[c] = now[c] /\ now[c].at = "verdict" /\ now[c].got = t
                   /\ callers'[c].at \in {"validate", "add", "done"}
                   /\ callers'[c].tx = callers[c].tx /\ callers'[c].gen = callers[c].gen
  <2>1. CASE now[c].at = "verdict" /\ now[c].got = t
    <3>1. callers'[c] = Judged(c, now[c], v) /\ now[c] = callers[c]
      BY <2>1 DEF Close
    <3>2. Len(processed) \in Nat
      BY <1>0 DEF TypeOK
    <3>. QED
      BY <1>0, <2>1, <3>1, <3>2, JudgedOK
  <2>2. CASE ~(now[c].at = "verdict" /\ now[c].got = t)
    BY <2>2 DEF Close
  <2>. QED
    BY <2>1, <2>2
<1>2. callers' \in [Callers -> Caller]
  <2>1. callers' = [c \in Callers |-> callers'[c]]
    BY DEF Close
  <2>. QED
    BY <1>1, <2>1
<1>3. CallersOK'
  BY <1>1 DEF CallersOK
<1>4. /\ adder' \in [at : {"idle", "submit", "send", "wait"}, next : 1..(Len(Candidates) + 1),
                      verdicts : Seq({"init"} \cup Verdicts)]
      /\ adder'.at = adder.at /\ adder'.next = adder.next
      /\ Len(adder'.verdicts) = Len(adder.verdicts)
      /\ DOMAIN adder'.verdicts = DOMAIN adder.verdicts
      /\ \A i \in DOMAIN adder.verdicts : adder'.verdicts[i] =
           IF Block[i] = t /\ adder.verdicts[i] = "init" THEN v ELSE adder.verdicts[i]
  <2>. DEFINE new == [i \in DOMAIN adder.verdicts |->
                        IF Block[i] = t /\ adder.verdicts[i] = "init" THEN v ELSE adder.verdicts[i]]
  <2>1. adder.verdicts \in Seq({"init"} \cup Verdicts)
    BY <1>0 DEF TypeOK
  <2>2. adder' = [adder EXCEPT !.verdicts = new]
    BY DEF Close, Block
  <2>3. new \in Seq({"init"} \cup Verdicts) /\ Len(new) = Len(adder.verdicts) /\ DOMAIN new = DOMAIN adder.verdicts
    BY <2>1
  <2>4. \A i \in DOMAIN adder.verdicts : new[i] =
           IF Block[i] = t /\ adder.verdicts[i] = "init" THEN v ELSE adder.verdicts[i]
    OBVIOUS
  <2>. HIDE DEF new
  <2>. QED
    BY <1>0, <2>2, <2>3, <2>4 DEF TypeOK
<1>5. Block' = Block
  BY <1>4 DEF Block
<1>6. all'[t] = v /\ v # "init" /\ \A x \in Txs : x # t => all'[x] = all[x]
  BY <1>0 DEF TypeOK, ValidatorTypeOK, Verdicts
<1>7. BlockOK'
  <2>1. ASSUME NEW i \in DOMAIN adder.verdicts
        PROVE  /\ adder'.verdicts[i] = "ok" => Block[i] \in Valid \cup made
               /\ adder'.verdicts[i] = "init" => all'[Block[i]] = "init"
    <3>1. CASE Block[i] = t /\ adder.verdicts[i] = "init"
      BY <1>4, <1>6, <3>1
    <3>2. CASE ~(Block[i] = t /\ adder.verdicts[i] = "init")
      BY <1>0, <1>4, <3>2 DEF BlockOK, TypeOK, ValidatorTypeOK
    <3>. QED
      BY <3>1, <3>2
  <2>. QED
    BY <1>0, <1>4, <1>5, <2>1 DEF BlockOK, TypeOK
<1>8. Hands'
  <2>1. \A x \in Txs, c \in Callers : CallerHolds(c, x)' <=> CallerHolds(c, x) /\ x # t
    BY <1>1 DEF CallerHolds
  <2>2. \A x \in Txs : (AdderHolds(x)' <=> AdderHolds(x)) /\ (ChannelHolds(x)' <=> ChannelHolds(x))
    BY <1>4, <1>5 DEF AdderHolds, ChannelHolds
  <2>. QED
    BY <1>0, <1>6, <2>1, <2>2 DEF Hands
<1>9. Waits'
  <2>1. ForVerdicts'
    <3>. SUFFICES ASSUME NEW c \in Callers, callers'[c].at = "verdict"
                  PROVE  all'[callers'[c].got] = "init"
      BY DEF ForVerdicts
    <3>1. callers'[c] = callers[c] /\ callers[c].got # t
      BY <1>1
    <3>2. callers[c].got \in Txs /\ all[callers[c].got] = "init"
      BY <1>0, <3>1 DEF TypeOK, Caller, Waits, ForVerdicts
    <3>. QED
      BY <1>6, <3>1, <3>2
  <2>2. \A c \in Callers : callers[c].at \in AtWork =>
            callers'[c].at \in AtWork /\ callers'[c].tx = callers[c].tx /\ callers'[c].gen = callers[c].gen
    BY <1>1 DEF AtWork
  <2>3. \A c \in Callers : callers'[c].at = "wait" => callers'[c] = callers[c]
    BY <1>1
  <2>4. ForAnswers' /\ BusyEntries'
    BY <1>0, <2>2, <2>3, WorkersStay
  <2>. QED
    BY <2>1, <2>4 DEF Waits
<1>10. VerdictsOK'
  BY <1>0, <1>6 DEF VerdictsOK
<1>11. TypeOK'
  BY <1>0, <1>2, <1>4 DEF TypeOK, ValidatorTypeOK
<1>. QED
  BY <1>0, <1>3, <1>7, <1>8, <1>9, <1>10, <1>11 DEF RelayInvariant, OnlyVerified, HistoryOK, MapsOK

\* The builder closes the work of what it made, without verification.
LEMMA MarkedInvariant ==
  ASSUME RelayInvariant, NEW c \in Callers, Marked(c)
  PROVE  RelayInvariant'
<1>. DEFINE r == callers[c]
            q == [r EXCEPT !.at = "validate"]
            now == [callers EXCEPT ![c] = q]
<1>0. TypeOK /\ CallersOK /\ Hands
  BY DEF RelayInvariant
<1>1. /\ r \in Caller /\ r.at = "marking" /\ CallerOK(c, r, Len(processed), made, entered, refused)
      /\ r.got \in Txs /\ r.got \in made /\ CallerHolds(c, r.got)
  BY <1>0 DEF TypeOK, CallersOK, CallerOK, Marked, Caller, CallerHolds
<1>2. /\ all[r.got] = "init" /\ ~AdderHolds(r.got) /\ ~ChannelHolds(r.got) /\ r.got \notin busy
      /\ \A d \in Callers : d # c => ~CallerHolds(d, r.got)
  BY <1>0, <1>1 DEF Hands
<1>3. q \in Caller /\ q.at = "validate" /\ q.got = r.got /\ CallerOK(c, q, Len(processed), made, entered, refused)
  BY <1>1 DEF CallerOK, Caller
<1>4. Close(r.got, "ok", now) /\ all' = [all EXCEPT ![r.got] = "ok"] /\ busy' = busy \ {r.got}
      /\ UNCHANGED <<channel, processed, pool, work, height, included, updates, entered, refused, made>>
  <2>1. now = [callers EXCEPT ![c].at = "validate"]
    BY <1>0 DEF TypeOK
  <2>. HIDE DEF now
  <2>. QED
    BY <1>2, <2>1 DEF Marked
<1>5. now \in [Callers -> Caller] /\ now[c] = q /\ \A d \in Callers : d # c => now[d] = callers[d]
  BY <1>0, <1>3 DEF TypeOK
<1>. HIDE DEF now, q
<1>6. \A d \in Callers : CallerOK(d, now[d], Len(processed), made, entered, refused)
  BY <1>0, <1>3, <1>5 DEF CallersOK
<1>7. \A d \in Callers : ~(now[d].at \in {"send", "marking"} /\ now[d].got = r.got)
  BY <1>2, <1>3, <1>5 DEF CallerHolds
<1>8. \A d \in Callers : \/ now[d] = callers[d]
                         \/ /\ callers[d].at = "marking" /\ callers[d].got = r.got
                            /\ now[d].at = "validate" /\ now[d].got = r.got
  BY <1>1, <1>3, <1>5
<1>. QED
  BY <1>1, <1>2, <1>4, <1>5, <1>6, <1>7, <1>8, CloseInvariant DEF Verdicts

\* A worker of the validator closes a work (worker.run).
LEMMA WorkDoneInvariant ==
  ASSUME RelayInvariant, NEW t \in Txs, WorkDone(t)
  PROVE  RelayInvariant'
<1>0. TypeOK /\ CallersOK /\ Hands
  BY DEF RelayInvariant
<1>1. /\ all[t] = "init" /\ ~AdderHolds(t) /\ ~ChannelHolds(t)
      /\ \A c \in Callers : ~CallerHolds(c, t)
  BY <1>0 DEF Hands, WorkDone, WorkerEnds
<1>2. /\ VerifyTx(t) \in Verdicts /\ (VerifyTx(t) = "ok" => t \in Valid) /\ (VerifyTx(t) = "bad" => t \notin Valid)
  BY DEF VerifyTx, Verdicts
<1>3. /\ Close(t, VerifyTx(t), callers) /\ all' = [all EXCEPT ![t] = VerifyTx(t)] /\ busy' = busy \ {t}
      /\ UNCHANGED <<channel, processed, pool, work, height, included, updates, entered, refused, made>>
  BY DEF WorkDone, WorkerEnds
<1>4. callers \in [Callers -> Caller]
  BY <1>0 DEF TypeOK
<1>5. \A c \in Callers : CallerOK(c, callers[c], Len(processed), made, entered, refused)
  BY <1>0 DEF CallersOK
<1>6. \A c \in Callers : ~(callers[c].at \in {"send", "marking"} /\ callers[c].got = t)
  BY <1>1 DEF CallerHolds
<1>. QED
  BY <1>1, <1>2, <1>3, <1>4, <1>5, <1>6, CloseInvariant

\* The deferred function of a handler: the answer is stored and whoever waits is told.
LEMMA FinishInvariant ==
  ASSUME RelayInvariant, NEW c \in Callers, Finish(c)
  PROVE  RelayInvariant'
<1>. DEFINE r == callers[c]
            answer == IF r.drop THEN <<"none">> ELSE IF r.ok THEN <<"accepted">> ELSE <<"refused">>
            told(d) == d = c \/ (callers[d].at = "wait" /\ callers[d].on = c)
<1>0. TypeOK /\ OnlyVerified /\ HistoryOK /\ CallersOK /\ VerdictsOK /\ BlockOK /\ Hands /\ Waits /\ MapsOK
  BY DEF RelayInvariant
<1>1. /\ r \in Caller /\ r.at = "done" /\ CallerOK(c, r, Len(processed), made, entered, refused)
      /\ UNCHANGED <<validatorVars, nodeVars>> /\ r.tx \in Txs /\ r.gen \in 0..Len(processed)
  BY <1>0 DEF TypeOK, CallersOK, CallerOK, Caller, Finish
<1>2. /\ processed' \in Seq([Txs -> Entry]) /\ Len(processed') = Len(processed)
      /\ DOMAIN processed' = DOMAIN processed
      /\ \A g \in DOMAIN processed, t \in Txs :
            processed'[g][t] = IF g = r.gen /\ t = r.tx THEN answer ELSE processed[g][t]
  <2>1. answer \in Entry
    BY DEF Entry
  <2>2. CASE r.gen = 0
    BY <1>0, <2>2 DEF Finish, TypeOK
  <2>3. CASE r.gen # 0
    <3>1. processed' = [processed EXCEPT ![r.gen][r.tx] = answer] /\ r.gen \in DOMAIN processed
      BY <1>0, <1>1, <2>3 DEF Finish, TypeOK
    <3>. HIDE DEF answer
    <3>. QED
      BY <1>0, <1>1, <2>1, <3>1 DEF TypeOK
  <2>. QED
    BY <2>2, <2>3
<1>3. ASSUME NEW d \in Callers
      PROVE  /\ callers'[d] \in Caller /\ CallerOK(d, callers'[d], Len(processed'), made', entered', refused')
             /\ told(d) => callers'[d].at = "idle"
             /\ ~told(d) => callers'[d] = callers[d]
  <2>1. CASE told(d)
    <3>1. callers'[d] = Rest(d, callers[d].offers)
      BY <2>1 DEF Finish
    <3>2. callers[d].offers \in 0..MaxOffers /\ Len(processed') \in Nat
      BY <1>0, <1>2 DEF TypeOK, Caller
    <3>3. /\ Rest(d, callers[d].offers) \in Caller /\ Rest(d, callers[d].offers).at = "idle"
          /\ CallerOK(d, Rest(d, callers[d].offers), Len(processed'), made', entered', refused')
      BY <3>2, RestOK
    <3>. QED
      BY <2>1, <3>1, <3>3
  <2>2. CASE ~told(d)
    BY <1>0, <1>1, <1>2, <2>2 DEF Finish, TypeOK, CallersOK, nodeVars
  <2>. QED
    BY <2>1, <2>2
<1>4. callers' \in [Callers -> Caller]
  <2>1. callers' = [d \in Callers |-> callers'[d]]
    BY DEF Finish
  <2>. QED
    BY <1>3, <2>1
<1>5. CallersOK'
  BY <1>3 DEF CallersOK
<1>6. Hands'
  <2>1. \A x \in Txs, d \in Callers : CallerHolds(d, x)' <=> CallerHolds(d, x)
    BY <1>1, <1>3 DEF CallerHolds
  <2>. QED
    BY <1>0, <1>1, <2>1 DEF Hands, AdderHolds, Block, ChannelHolds, validatorVars, nodeVars
<1>7. ForVerdicts'
  BY <1>0, <1>1, <1>3 DEF Waits, ForVerdicts, validatorVars
<1>8. ForAnswers'
  <2>. SUFFICES ASSUME NEW d \in Callers, callers'[d].at = "wait"
                PROVE  /\ callers'[callers'[d].on].at \in AtWork
                       /\ callers'[callers'[d].on].tx = callers'[d].tx
                       /\ callers'[callers'[d].on].gen = callers'[d].gen
    BY DEF ForAnswers
  <2>1. callers'[d] = callers[d] /\ callers[d].on # c /\ callers[d].on \in Callers
    BY <1>0, <1>3 DEF TypeOK, Caller
  <2>2. /\ callers[callers[d].on].at \in AtWork /\ callers[callers[d].on].tx = callers[d].tx
        /\ callers[callers[d].on].gen = callers[d].gen
    BY <1>0, <2>1 DEF Waits, ForAnswers
  <2>. QED
    BY <1>3, <2>1, <2>2 DEF AtWork
<1>9. BusyEntries'
  <2>. SUFFICES ASSUME NEW g \in DOMAIN processed, NEW t \in Txs, NEW d \in Callers,
                       processed'[g][t] = <<"busy", d>>
                PROVE  callers'[d].at \in AtWork /\ callers'[d].tx = t /\ callers'[d].gen = g
    BY <1>2 DEF BusyEntries
  <2>1. ~(g = r.gen /\ t = r.tx)
    <3>1. <<"busy", d>> \notin {<<"none">>, <<"accepted">>, <<"refused">>}
      OBVIOUS
    <3>. QED
      BY <1>2, <3>1
  <2>2. callers[d].at \in AtWork /\ callers[d].tx = t /\ callers[d].gen = g
    BY <1>0, <1>2, <2>1 DEF Waits, BusyEntries
  <2>. QED
    BY <1>3, <2>1, <2>2 DEF AtWork
<1>10. MapsOK'
  <2>. SUFFICES ASSUME NEW g \in DOMAIN processed, NEW t \in Txs
                PROVE  /\ processed'[g][t] = <<"accepted">> => t \in entered
                       /\ processed'[g][t] = <<"refused">> => Earned(t, refused)
    BY <1>0, <1>1, <1>2 DEF MapsOK, nodeVars, TypeOK
  <2>1. CASE g = r.gen /\ t = r.tx
    BY <1>0, <1>1, <1>2, <2>1 DEF CallerOK, TypeOK
  <2>2. CASE ~(g = r.gen /\ t = r.tx)
    BY <1>0, <1>2, <2>2 DEF MapsOK
  <2>. QED
    BY <2>1, <2>2
<1>11. TypeOK'
  BY <1>0, <1>1, <1>2, <1>4 DEF TypeOK, ValidatorTypeOK, validatorVars, nodeVars
<1>. QED
  BY <1>0, <1>1, <1>5, <1>6, <1>7, <1>8, <1>9, <1>10, <1>11
     DEF RelayInvariant, OnlyVerified, HistoryOK, VerdictsOK, BlockOK, Block, Waits, validatorVars, nodeVars

\* The workers take a work from the channel; a finished work is forgotten.
LEMMA WorkersInvariant ==
  ASSUME RelayInvariant, WorkerTakes \/ (\E t \in Txs : RunRemoveExpired(t)),
         UNCHANGED <<callers, processed, nodeVars>>
  PROVE  RelayInvariant'
<1>0. TypeOK /\ OnlyVerified /\ HistoryOK /\ CallersOK /\ VerdictsOK /\ BlockOK /\ Hands /\ Waits /\ MapsOK
  BY DEF RelayInvariant
<1>1. CASE WorkerTakes
  <2>1. PICK t \in Txs : channel = <<t>>
    BY <1>0, <1>1 DEF WorkerTakes, TypeOK, ValidatorTypeOK
  <2>2. channel' = <<>> /\ busy' = busy \cup {t} /\ UNCHANGED all
    BY <1>1, <2>1 DEF WorkerTakes
  <2>3. Hands'
    <3>1. \A x \in Txs : (ChannelHolds(x) <=> x = t) /\ ~ChannelHolds(x)'
      BY <2>1, <2>2 DEF ChannelHolds
    <3>2. \A x \in Txs : /\ AdderHolds(x)' <=> AdderHolds(x)
                         /\ \A c \in Callers : CallerHolds(c, x)' <=> CallerHolds(c, x)
      BY DEF AdderHolds, Block, CallerHolds, nodeVars
    <3>. QED
      BY <1>0, <2>2, <3>1, <3>2 DEF Hands
  <2>4. TypeOK'
    BY <1>0, <2>1, <2>2 DEF TypeOK, ValidatorTypeOK, nodeVars
  <2>. QED
    BY <1>0, <2>2, <2>3, <2>4 DEF RelayInvariant, OnlyVerified, HistoryOK, CallersOK, VerdictsOK, BlockOK, Block,
       Waits, ForVerdicts, ForAnswers, BusyEntries, MapsOK, nodeVars
<1>2. ASSUME NEW t \in Txs, RunRemoveExpired(t)
      PROVE  RelayInvariant'
  <2>1. /\ all[t] # "init" /\ all'[t] = "none" /\ \A x \in Txs : x # t => all'[x] = all[x]
        /\ all' \in [Txs -> {"none", "init"} \cup Verdicts] /\ UNCHANGED <<channel, busy>>
    BY <1>0, <1>2 DEF RunRemoveExpired, TypeOK, ValidatorTypeOK, Verdicts
  <2>2. Hands'
    BY <1>0, <2>1 DEF Hands, AdderHolds, Block, CallerHolds, ChannelHolds, nodeVars
  <2>3. TypeOK' /\ VerdictsOK'
    BY <1>0, <2>1 DEF TypeOK, ValidatorTypeOK, VerdictsOK, nodeVars
  <2>4. ForVerdicts'
    BY <1>0, <2>1 DEF Waits, ForVerdicts, TypeOK, Caller
  <2>5. BlockOK'
    <3>1. all' = [all EXCEPT ![t] = "none"]
      BY <1>2 DEF RunRemoveExpired
    <3>. QED
      BY <1>0, <2>1, <3>1 DEF BlockOK, Block, nodeVars, TypeOK, ValidatorTypeOK
  <2>. QED
    BY <1>0, <2>2, <2>3, <2>4, <2>5
       DEF RelayInvariant, OnlyVerified, HistoryOK, CallersOK, Waits, ForAnswers, BusyEntries, MapsOK, nodeVars
<1>. QED
  BY <1>1, <1>2

\* The block that is being validated, while it is
LEMMA BlockTxs ==
  ASSUME TypeOK, BlockOK, adder.at # "idle"
  PROVE  Block \in Seq(Txs) /\ adder.next \in 1..Len(Candidates)
BY RelayAssumption DEF TypeOK, BlockOK, Block

\* AddBlocks starts with the next candidate.
LEMMA StartBlockInvariant ==
  ASSUME RelayInvariant, StartBlock
  PROVE  RelayInvariant'
<1>0. TypeOK /\ OnlyVerified /\ HistoryOK /\ CallersOK /\ VerdictsOK /\ BlockOK /\ Hands /\ Waits /\ MapsOK
  BY DEF RelayInvariant
<1>1. /\ adder.at = "idle" /\ adder.next <= Len(Candidates) /\ adder.verdicts = <<>>
      /\ UNCHANGED <<callers, processed, validatorVars, pool, work, height, included, updates, entered, refused, made>>
  BY <1>0 DEF StartBlock, BlockOK
<1>2. Block \in Seq(Txs)
  BY <1>0, <1>1, RelayAssumption DEF TypeOK, Block
<1>3. /\ adder'.at = (IF Len(Block) = 0 THEN "wait" ELSE "submit") /\ adder'.next = adder.next /\ adder'.verdicts = <<>>
      /\ adder' \in [at : {"idle", "submit", "send", "wait"}, next : 1..(Len(Candidates) + 1),
                      verdicts : Seq({"init"} \cup Verdicts)]
  BY <1>0, <1>1, <1>2 DEF StartBlock, Submitted, TypeOK
<1>4. Block' = Block
  BY <1>3 DEF Block
<1>5. BlockOK'
  BY <1>0, <1>1, <1>2, <1>3, <1>4 DEF BlockOK
<1>6. Hands'
  BY <1>0, <1>1, <1>3 DEF Hands, AdderHolds, CallerHolds, ChannelHolds, validatorVars
<1>7. TypeOK'
  BY <1>0, <1>1, <1>3 DEF TypeOK, ValidatorTypeOK, validatorVars
<1>. QED
  BY <1>0, <1>1, <1>5, <1>6, <1>7
     DEF RelayInvariant, OnlyVerified, HistoryOK, CallersOK, VerdictsOK, Waits, ForVerdicts, ForAnswers, BusyEntries,
         MapsOK, validatorVars

\* ValidateTxs submits the next transaction of the block.
LEMMA SubmitBlockTxInvariant ==
  ASSUME RelayInvariant, SubmitBlockTx
  PROVE  RelayInvariant'
<1>. DEFINE n == Len(adder.verdicts) + 1
            t == Block[n]
            vs == Append(adder.verdicts, IF all[t] \in Verdicts THEN all[t] ELSE "init")
<1>0. TypeOK /\ OnlyVerified /\ HistoryOK /\ CallersOK /\ VerdictsOK /\ BlockOK /\ Hands /\ Waits /\ MapsOK
  BY DEF RelayInvariant
<1>1. /\ adder.at = "submit" /\ adder.verdicts \in Seq({"init"} \cup Verdicts) /\ Block \in Seq(Txs)
      /\ UNCHANGED <<callers, processed, channel, busy, pool, work, height, included, updates, entered, refused, made>>
      /\ n \in DOMAIN Block /\ t \in Txs /\ adder.next \in 1..Len(Candidates)
  BY <1>0, BlockTxs DEF SubmitBlockTx, TypeOK, BlockOK
<1>2. all[t] \in {"none", "init"} \cup Verdicts
  BY <1>0, <1>1 DEF TypeOK, ValidatorTypeOK
<1>3. /\ all'[t] = (IF all[t] = "none" THEN "init" ELSE all[t]) /\ \A x \in Txs : x # t => all'[x] = all[x]
      /\ all' \in [Txs -> {"none", "init"} \cup Verdicts]
  BY <1>0, <1>1, <1>2 DEF SubmitBlockTx, LoadOrStore, TypeOK, ValidatorTypeOK
<1>4. /\ vs \in Seq({"init"} \cup Verdicts) /\ Len(vs) = n
      /\ \A i \in 1..(n - 1) : vs[i] = adder.verdicts[i]
      /\ vs[n] = IF all[t] \in Verdicts THEN all[t] ELSE "init"
  BY <1>1, <1>2
<1>5. /\ adder'.verdicts = vs /\ adder'.next = adder.next
      /\ adder'.at = (IF all[t] = "none" THEN "send" ELSE IF Len(vs) = Len(Block) THEN "wait" ELSE "submit")
      /\ adder' \in [at : {"idle", "submit", "send", "wait"}, next : 1..(Len(Candidates) + 1),
                      verdicts : Seq({"init"} \cup Verdicts)]
  <2>1. adder' = [adder EXCEPT !.verdicts = vs,
                               !.at = IF all[t] = "none" THEN "send" ELSE Submitted(vs)]
    BY DEF SubmitBlockTx
  <2>2. Submitted(vs) = IF Len(vs) = Len(Block) THEN "wait" ELSE "submit"
    BY DEF Submitted
  <2>. HIDE DEF vs, t
  <2>. QED
    BY <1>0, <1>4, <2>1, <2>2 DEF TypeOK
<1>6. Block' = Block
  BY <1>5 DEF Block
<1>. HIDE DEF vs
<1>7. BlockOK'
  <2>1. Len(adder'.verdicts) = n /\ n \in Nat /\ n <= Len(Block) /\ DOMAIN adder'.verdicts = 1..n
    BY <1>1, <1>4, <1>5
  <2>2. ASSUME NEW i \in 1..n
        PROVE  /\ adder'.verdicts[i] = "ok" => Block[i] \in Valid \cup made
               /\ adder'.verdicts[i] = "init" => all'[Block[i]] = "init"
    <3>1. CASE i = n
      BY <1>0, <1>1, <1>2, <1>3, <1>4, <1>5, <3>1 DEF VerdictsOK, Verdicts
    <3>2. CASE i # n
      <4>1. i \in DOMAIN adder.verdicts /\ adder'.verdicts[i] = adder.verdicts[i] /\ Block[i] \in Txs
        <5>1. i \in 1..(n - 1) /\ i \in 1..Len(Block)
          BY <2>1, <3>2
        <5>. QED
          BY <1>1, <1>4, <1>5, <2>1, <5>1
      <4>2. /\ adder.verdicts[i] = "ok" => Block[i] \in Valid \cup made
            /\ adder.verdicts[i] = "init" => all[Block[i]] = "init"
        BY <1>0, <4>1 DEF BlockOK
      <4>. QED
        BY <1>3, <4>1, <4>2
    <3>. QED
      BY <3>1, <3>2
  <2>. QED
    BY <1>0, <1>1, <1>4, <1>5, <1>6, <2>1, <2>2 DEF BlockOK, TypeOK
<1>8. Hands'
  <2>1. \A x \in Txs : AdderHolds(x)' <=> x = t /\ all[t] = "none"
    BY <1>4, <1>5, <1>6 DEF AdderHolds
  <2>2. \A x \in Txs : ~AdderHolds(x)
    BY <1>1 DEF AdderHolds
  <2>3. \A x \in Txs : /\ ChannelHolds(x)' <=> ChannelHolds(x)
                       /\ \A c \in Callers : CallerHolds(c, x)' <=> CallerHolds(c, x)
    BY <1>1 DEF ChannelHolds, CallerHolds
  <2>. HIDE DEF t
  <2>. QED
    BY <1>0, <1>1, <1>3, <2>1, <2>2, <2>3 DEF Hands
<1>9. VerdictsOK'
  BY <1>0, <1>1, <1>3 DEF VerdictsOK
<1>10. ForVerdicts'
  <2>. HIDE DEF t
  <2>1. \A c \in Callers : callers[c].got \in Txs
    BY <1>0 DEF TypeOK, Caller
  <2>2. \A x \in Txs : all[x] = "init" => all'[x] = "init"
    BY <1>3
  <2>. QED
    BY <1>0, <1>1, <2>1, <2>2 DEF Waits, ForVerdicts
<1>11. TypeOK'
  BY <1>0, <1>1, <1>3, <1>5 DEF TypeOK, ValidatorTypeOK
<1>. QED
  BY <1>0, <1>1, <1>7, <1>8, <1>9, <1>10, <1>11
     DEF RelayInvariant, OnlyVerified, HistoryOK, CallersOK, Waits, ForAnswers, BusyEntries, MapsOK

\* ValidateTxs sends a new work to the workers.
LEMMA SendBlockTxInvariant ==
  ASSUME RelayInvariant, SendBlockTx
  PROVE  RelayInvariant'
<1>. DEFINE t == Block[Len(adder.verdicts)]
<1>0. TypeOK /\ OnlyVerified /\ HistoryOK /\ CallersOK /\ VerdictsOK /\ BlockOK /\ Hands /\ Waits /\ MapsOK
  BY DEF RelayInvariant
<1>1. /\ adder.at = "send" /\ adder.verdicts \in Seq({"init"} \cup Verdicts) /\ Block \in Seq(Txs)
      /\ UNCHANGED <<callers, processed, all, busy, pool, work, height, included, updates, entered, refused, made>>
      /\ adder.next \in 1..Len(Candidates) /\ Len(adder.verdicts) \in DOMAIN Block /\ t \in Txs
      /\ channel = <<>> /\ channel' = <<t>>
  BY <1>0, BlockTxs DEF SendBlockTx, Send, TypeOK, BlockOK
<1>2. /\ adder'.at = (IF Len(adder.verdicts) = Len(Block) THEN "wait" ELSE "submit")
      /\ adder'.next = adder.next /\ adder'.verdicts = adder.verdicts
      /\ adder' \in [at : {"idle", "submit", "send", "wait"}, next : 1..(Len(Candidates) + 1),
                      verdicts : Seq({"init"} \cup Verdicts)]
  BY <1>0, <1>1 DEF SendBlockTx, Submitted, TypeOK
<1>3. Block' = Block
  BY <1>2 DEF Block
<1>4. BlockOK'
  BY <1>0, <1>1, <1>2, <1>3 DEF BlockOK
<1>5. Hands'
  <2>1. \A x \in Txs : (AdderHolds(x) <=> x = t) /\ ~AdderHolds(x)'
    BY <1>1, <1>2 DEF AdderHolds
  <2>2. \A x \in Txs : ~ChannelHolds(x) /\ (ChannelHolds(x)' <=> x = t)
    BY <1>1 DEF ChannelHolds
  <2>3. \A x \in Txs : \A c \in Callers : CallerHolds(c, x)' <=> CallerHolds(c, x)
    BY <1>1 DEF CallerHolds
  <2>. HIDE DEF t
  <2>. QED
    BY <1>0, <1>1, <2>1, <2>2, <2>3 DEF Hands
<1>6. TypeOK'
  BY <1>0, <1>1, <1>2 DEF TypeOK, ValidatorTypeOK
<1>. QED
  BY <1>0, <1>1, <1>4, <1>5, <1>6
     DEF RelayInvariant, OnlyVerified, HistoryOK, CallersOK, VerdictsOK, Waits, ForVerdicts, ForAnswers, BusyEntries, MapsOK

\* A block is refused, or becomes a part of the chain.
LEMMA BlockEndsInvariant ==
  ASSUME RelayInvariant, RefuseBlock \/ CommitBlock
  PROVE  RelayInvariant'
<1>0. TypeOK /\ OnlyVerified /\ HistoryOK /\ CallersOK /\ VerdictsOK /\ BlockOK /\ Hands /\ Waits /\ MapsOK
  BY DEF RelayInvariant
<1>1. /\ adder.at = "wait" /\ Block \in Seq(Txs) /\ adder.next \in 1..Len(Candidates)
      /\ adder' = [at |-> "idle", next |-> adder.next + 1, verdicts |-> <<>>]
      /\ UNCHANGED <<callers, processed, validatorVars, pool, entered, refused, made>>
  BY <1>0, BlockTxs DEF RefuseBlock, CommitBlock, NextBlock
<1>2. /\ adder' \in [at : {"idle", "submit", "send", "wait"}, next : 1..(Len(Candidates) + 1),
                      verdicts : Seq({"init"} \cup Verdicts)]
      /\ adder'.at = "idle" /\ adder'.next = adder.next + 1 /\ adder'.verdicts = <<>>
  BY <1>0, <1>1, RelayAssumption DEF TypeOK
<1>3. Hands'
  <2>1. \A x \in Txs : ~AdderHolds(x) /\ ~AdderHolds(x)'
    BY <1>1, <1>2 DEF AdderHolds
  <2>2. \A x \in Txs : /\ ChannelHolds(x)' <=> ChannelHolds(x)
                       /\ \A c \in Callers : CallerHolds(c, x)' <=> CallerHolds(c, x)
    BY <1>1 DEF ChannelHolds, CallerHolds, validatorVars
  <2>. QED
    BY <1>0, <1>1, <2>1, <2>2 DEF Hands, validatorVars
<1>4. CASE RefuseBlock
  <2>1. UNCHANGED <<work, height, included, updates>>
    BY <1>4 DEF RefuseBlock
  <2>2. BlockOK'
    BY <1>0, <1>1, <1>2, <2>1 DEF BlockOK, TypeOK, Heights
  <2>3. TypeOK'
    BY <1>0, <1>1, <1>2, <2>1 DEF TypeOK, ValidatorTypeOK, validatorVars
  <2>. QED
    BY <1>0, <1>1, <1>3, <2>1, <2>2, <2>3
       DEF RelayInvariant, OnlyVerified, HistoryOK, CallersOK, VerdictsOK, Waits, ForVerdicts, ForAnswers, BusyEntries,
           MapsOK, validatorVars
<1>5. CASE CommitBlock
  <2>. DEFINE txs == {Block[i] : i \in DOMAIN Block}
  <2>1. /\ height' = height + 1 /\ included' = included \cup txs /\ work' = NoWork
        /\ updates' = [resets |-> updates.resets + 1, work |-> TRUE, remove |-> updates.remove \cup txs]
        /\ BlockIsValid
    BY <1>5 DEF CommitBlock
  <2>2. txs \subseteq Txs
    BY <1>1
  <2>3. txs \subseteq Valid \cup made
    <3>1. DOMAIN adder.verdicts = DOMAIN Block
      BY <1>0, <1>1 DEF BlockOK, TypeOK
    <3>. QED
      BY <1>0, <2>1, <3>1 DEF BlockOK, BlockIsValid
  <2>4. height' \in Heights /\ height' < adder'.next
    BY <1>0, <1>1, <1>2, <2>1, RelayAssumption DEF TypeOK, BlockOK, Heights
  <2>. HIDE DEF txs
  <2>5. BlockOK'
    BY <1>2, <2>4 DEF BlockOK
  <2>6. TypeOK'
    <3>1. updates' \in [resets : Nat, remove : SUBSET Txs, work : BOOLEAN]
      BY <1>0, <2>1, <2>2 DEF TypeOK
    <3>2. included' \subseteq Txs /\ work' \in Heights \cup {NoWork}
      BY <1>0, <2>1, <2>2 DEF TypeOK
    <3>. QED
      BY <1>0, <1>1, <1>2, <2>4, <3>1, <3>2 DEF TypeOK, ValidatorTypeOK, validatorVars
  <2>7. OnlyVerified'
    BY <1>0, <1>1, <2>1, <2>3 DEF OnlyVerified
  <2>. QED
    BY <1>0, <1>1, <1>3, <2>5, <2>6, <2>7
       DEF RelayInvariant, HistoryOK, CallersOK, VerdictsOK, Waits, ForVerdicts, ForAnswers, BusyEntries, MapsOK, validatorVars
<1>. QED
  BY <1>4, <1>5

\* A new map: the callers keep the one they loaded.
LEMMA ResetProcessedInvariant ==
  ASSUME RelayInvariant, ResetProcessed
  PROVE  RelayInvariant'
<1>. DEFINE new == [t \in Txs |-> <<"none">>]
<1>0. TypeOK /\ OnlyVerified /\ HistoryOK /\ CallersOK /\ VerdictsOK /\ BlockOK /\ Hands /\ Waits /\ MapsOK
  BY DEF RelayInvariant
<1>1. /\ processed' = Append(processed, new) /\ processed \in Seq([Txs -> Entry])
      /\ UNCHANGED <<callers, validatorVars, pool, work, height, included, adder, entered, refused, made>>
  BY <1>0 DEF ResetProcessed, TypeOK
<1>2. updates' \in [resets : Nat, remove : SUBSET Txs, work : BOOLEAN]
  <2>1. /\ updates' = [updates EXCEPT !.resets = updates.resets - 1] /\ updates.resets - 1 \in Nat
        /\ updates \in [resets : Nat, remove : SUBSET Txs, work : BOOLEAN]
    BY <1>0 DEF ResetProcessed, TypeOK
  <2>. QED
    BY <2>1
<1>3. new \in [Txs -> Entry] /\ \A t \in Txs : new[t] = <<"none">>
  BY DEF Entry
<1>. HIDE DEF new
<1>4. /\ processed' \in Seq([Txs -> Entry]) /\ Len(processed') = Len(processed) + 1 /\ processed' # <<>>
      /\ \A g \in DOMAIN processed' : \/ g \in DOMAIN processed /\ processed'[g] = processed[g]
                                      \/ processed'[g] = new
  BY <1>1, <1>3
<1>5. CallersOK'
  <2>. SUFFICES ASSUME NEW c \in Callers
                PROVE  CallerOK(c, callers[c], Len(processed'), made, entered, refused)
    BY <1>1 DEF CallersOK
  <2>1. CallerOK(c, callers[c], Len(processed), made, entered, refused) /\ callers[c].gen \in Nat
    BY <1>0 DEF CallersOK, TypeOK, Caller
  <2>2. Len(processed) \in Nat /\ Len(processed') \in Nat /\ Len(processed) <= Len(processed')
    BY <1>1, <1>4
  <2>. QED
    BY <2>1, <2>2, CallerOKMonotone
<1>6. BusyEntries'
  <2>. SUFFICES ASSUME NEW g \in DOMAIN processed', NEW t \in Txs, NEW c \in Callers,
                       processed'[g][t] = <<"busy", c>>
                PROVE  callers[c].at \in AtWork /\ callers[c].tx = t /\ callers[c].gen = g
    BY <1>1 DEF BusyEntries
  <2>1. <<"busy", c>> # <<"none">>
    OBVIOUS
  <2>2. g \in DOMAIN processed /\ processed'[g] = processed[g]
    BY <1>3, <1>4, <2>1
  <2>. QED
    BY <1>0, <2>2 DEF Waits, BusyEntries
<1>7. MapsOK'
  <2>. SUFFICES ASSUME NEW g \in DOMAIN processed', NEW t \in Txs
                PROVE  /\ processed'[g][t] = <<"accepted">> => t \in entered
                       /\ processed'[g][t] = <<"refused">> => Earned(t, refused)
    BY <1>1, <1>4 DEF MapsOK
  <2>1. CASE processed'[g] = new
    <3>1. <<"accepted">> # <<"none">> /\ <<"refused">> # <<"none">>
      OBVIOUS
    <3>. QED
      BY <1>3, <2>1, <3>1
  <2>2. CASE g \in DOMAIN processed /\ processed'[g] = processed[g]
    BY <1>0, <2>2 DEF MapsOK
  <2>. QED
    BY <1>4, <2>1, <2>2
<1>8. TypeOK'
  BY <1>0, <1>1, <1>2, <1>4 DEF TypeOK, ValidatorTypeOK, validatorVars
<1>9. Hands'
  BY <1>0, <1>1 DEF Hands, AdderHolds, Block, CallerHolds, ChannelHolds, validatorVars
<1>. QED
  BY <1>0, <1>1, <1>5, <1>6, <1>7, <1>8, <1>9
     DEF RelayInvariant, OnlyVerified, HistoryOK, VerdictsOK, BlockOK, Block, Waits, ForVerdicts, ForAnswers, validatorVars

\* What blocks do to the mempool: it only loses transactions.
LEMMA MempoolUpdatesInvariant ==
  ASSUME RelayInvariant, RemoveInserted \/ UpdateWork
  PROVE  RelayInvariant'
<1>0. TypeOK /\ OnlyVerified /\ HistoryOK /\ CallersOK /\ VerdictsOK /\ BlockOK /\ Hands /\ Waits /\ MapsOK
  BY DEF RelayInvariant
<1>1. /\ pool' \subseteq pool /\ work' \in Heights \cup {NoWork}
      /\ updates' \in [resets : Nat, remove : SUBSET Txs, work : BOOLEAN]
      /\ UNCHANGED <<callers, processed, validatorVars, height, included, adder, entered, refused, made>>
  BY <1>0 DEF RemoveInserted, UpdateWork, TypeOK
<1>2. TypeOK' /\ OnlyVerified' /\ HistoryOK'
  BY <1>0, <1>1 DEF TypeOK, ValidatorTypeOK, OnlyVerified, HistoryOK, validatorVars
<1>3. Hands'
  BY <1>0, <1>1 DEF Hands, AdderHolds, Block, CallerHolds, ChannelHolds, validatorVars
<1>. QED
  BY <1>0, <1>1, <1>2, <1>3
     DEF RelayInvariant, CallersOK, VerdictsOK, BlockOK, Block, Waits, ForVerdicts, ForAnswers, BusyEntries, MapsOK, validatorVars

-----------------------------------------------------------------------------
\* The invariant says what is promised.
LEMMA InvariantImpliesSound == RelayInvariant => RelayIsSound
<1>. SUFFICES ASSUME RelayInvariant PROVE RelayIsSound
  OBVIOUS
<1>0. TypeOK /\ OnlyVerified /\ HistoryOK /\ CallersOK /\ VerdictsOK /\ BlockOK /\ Hands /\ Waits /\ MapsOK
  BY DEF RelayInvariant
<1>1. AcceptedWasPooled /\ RefusalsAreEarned
  BY <1>0 DEF AcceptedWasPooled, RefusalsAreEarned, CallersOK, CallerOK, MapsOK, Earned
<1>2. ASSUME NEW t \in Txs
      PROVE  Cardinality(Holders(t)) = IF all[t] = "init" THEN 1 ELSE 0
  <2>. DEFINE H(x) == \/ \E c \in Callers : CallerHolds(c, t) /\ x = <<"caller", c>>
                      \/ AdderHolds(t) /\ x = <<"adder">>
                      \/ ChannelHolds(t) /\ x = <<"channel">>
                      \/ t \in busy /\ x = <<"worker">>
  <2>1. \A x : x \in Holders(t) <=> H(x)
    BY DEF Holders, CallerHolds, AdderHolds, ChannelHolds
  <2>2. CASE all[t] # "init"
    <3>1. Holders(t) = {}
      BY <1>0, <2>1, <2>2 DEF Hands
    <3>. QED
      BY <2>2, <3>1, FS_EmptySet
  <2>3. CASE all[t] = "init"
    <3>1. \E x : Holders(t) = {x}
      <4>1. CASE \E c \in Callers : CallerHolds(c, t)
        <5>1. PICK c \in Callers : CallerHolds(c, t)
          BY <4>1
        <5>2. Holders(t) = {<<"caller", c>>}
          BY <1>0, <2>1, <5>1 DEF Hands
        <5>. QED
          BY <5>2, Zenon
      <4>2. CASE AdderHolds(t)
        <5>1. Holders(t) = {<<"adder">>}
          BY <1>0, <2>1, <4>2 DEF Hands
        <5>. QED
          BY <5>1, Zenon
      <4>3. CASE ChannelHolds(t)
        <5>1. Holders(t) = {<<"channel">>}
          BY <1>0, <2>1, <4>3 DEF Hands
        <5>. QED
          BY <5>1, Zenon
      <4>4. CASE t \in busy
        <5>1. Holders(t) = {<<"worker">>}
          BY <1>0, <2>1, <4>4 DEF Hands
        <5>. QED
          BY <5>1, Zenon
      <4>. QED
        BY <1>0, <2>3, <4>1, <4>2, <4>3, <4>4 DEF Hands
    <3>. QED
      BY <2>3, <3>1, FS_Singleton
  <2>. QED
    BY <2>2, <2>3
<1>3. ASSUME NEW g \in DOMAIN processed, NEW t \in Txs, processed[g][t][1] = "busy"
      PROVE  LET o == callers[processed[g][t][2]]
             IN  o.at \in AtWork /\ o.tx = t /\ o.gen = g
  <2>1. processed[g][t] \in Entry
    BY <1>0 DEF TypeOK
  <2>2. PICK d \in Callers : processed[g][t] = <<"busy", d>> /\ processed[g][t][2] = d
    BY <1>3, <2>1, EntryCases
  <2>. QED
    BY <1>0, <2>2 DEF Waits, BusyEntries
<1>4. SomeoneIsAtWork
  BY <1>0, <1>2, <1>3 DEF SomeoneIsAtWork, Waits, ForVerdicts, ForAnswers, BlockOK
<1>. QED
  BY <1>0, <1>1, <1>4 DEF RelayIsSound

\* At the start nobody asks and nothing is in work.
LEMMA RelayInit == Init => RelayInvariant
<1>. SUFFICES ASSUME Init PROVE RelayInvariant
  OBVIOUS
<1>. DEFINE map == [t \in Txs |-> <<"none">>]
<1>1. map \in [Txs -> Entry] /\ \A t \in Txs : map[t] = <<"none">>
  BY DEF Entry
<1>2. processed = <<map>> /\ processed \in Seq([Txs -> Entry]) /\ Len(processed) = 1 /\ processed[1] = map
  BY <1>1 DEF Init
<1>. HIDE DEF map
<1>3. \A c \in Callers : /\ callers[c] \in Caller /\ callers[c].at = "idle"
                         /\ CallerOK(c, callers[c], Len(processed), made, entered, refused)
  <2>1. 0 \in 0..MaxOffers /\ Len(processed) \in Nat
    BY <1>2, RelayAssumption
  <2>. QED
    BY <2>1, RestOK DEF Init
<1>4. callers \in [Callers -> Caller]
  BY <1>3 DEF Init
<1>5. adder.at = "idle" /\ adder.next = 1 /\ adder.verdicts = <<>> /\ height = 0
  BY DEF Init
<1>6. TypeOK
  BY <1>2, <1>4, RelayAssumption DEF Init, TypeOK, ValidatorInit, ValidatorTypeOK, Heights
<1>7. Hands
  BY <1>3, <1>5 DEF Init, ValidatorInit, Hands, CallerHolds, AdderHolds, ChannelHolds
<1>8. Waits
  <2>1. \A c \in Callers : <<"busy", c>> # <<"none">>
    OBVIOUS
  <2>. QED
    BY <1>1, <1>2, <1>3, <2>1 DEF Waits, ForVerdicts, ForAnswers, BusyEntries
<1>9. MapsOK
  BY <1>1, <1>2 DEF MapsOK
<1>10. OnlyVerified /\ HistoryOK /\ VerdictsOK
  BY DEF Init, ValidatorInit, OnlyVerified, HistoryOK, VerdictsOK
<1>11. BlockOK
  BY <1>5 DEF BlockOK
<1>. QED
  BY <1>3, <1>6, <1>7, <1>8, <1>9, <1>10, <1>11 DEF RelayInvariant, CallersOK

\* Answers are true and nobody is forgotten, for every set of transactions, callers and blocks:
\* in every order of verdicts, marks, expiries, new blocks and failures of peers, only verified
\* transactions are pooled or included, what is remembered as accepted or refused was so, and
\* every unfinished work is in one hand (mempoolNewTxIdProcess, ValidateTx, ValidateTxs).
THEOREM RelayCorrect == Spec => []RelayIsSound
<1>1. RelayInvariant /\ [Next]_vars => RelayInvariant'
  <2>. SUFFICES ASSUME RelayInvariant, [Next]_vars PROVE RelayInvariant'
    OBVIOUS
  <2>1. ASSUME NEW c \in Callers, NEW t \in Txs, Request(c, t) PROVE RelayInvariant'
    BY <2>1, RequestInvariant
  <2>2. ASSUME NEW c \in Callers, NEW t \in Txs, Build(c, t) PROVE RelayInvariant'
    BY <2>2, BuildInvariant
  <2>3. ASSUME NEW c \in Callers, Handler(c) PROVE RelayInvariant'
    BY <2>3, EnterInvariant, ValidateTxInvariant, SendWorkInvariant, MarkAsValidatedTxInvariant, MarkedInvariant,
       MempoolAnswersInvariant, FinishInvariant, PeerInvariant DEF Handler
  <2>4. ASSUME NEW t \in Txs, WorkDone(t) PROVE RelayInvariant'
    BY <2>4, WorkDoneInvariant
  <2>5. CASE AddBlocks
    BY <2>5, StartBlockInvariant, SubmitBlockTxInvariant, SendBlockTxInvariant, BlockEndsInvariant DEF AddBlocks
  <2>6. CASE ResetProcessed
    BY <2>6, ResetProcessedInvariant
  <2>7. CASE RemoveInserted \/ UpdateWork
    BY <2>7, MempoolUpdatesInvariant
  <2>8. CASE (WorkerTakes \/ \E t \in Txs : RunRemoveExpired(t)) /\ UNCHANGED <<callers, processed, nodeVars>>
    BY <2>8, WorkersInvariant
  <2>9. CASE UNCHANGED vars
    BY <2>9 DEF vars, RelayInvariant, TypeOK, ValidatorTypeOK, OnlyVerified, HistoryOK, CallersOK, VerdictsOK, BlockOK,
       Block, Hands, CallerHolds, AdderHolds, ChannelHolds, Waits, ForVerdicts, ForAnswers, BusyEntries, MapsOK
  <2>. QED
    BY <2>1, <2>2, <2>3, <2>4, <2>5, <2>6, <2>7, <2>8, <2>9 DEF Next
<1>. QED
  BY <1>1, RelayInit, InvariantImpliesSound, PTL DEF Spec
=============================================================================
