------------------------------ MODULE Builder ------------------------------
(***************************************************************************)
(* The transaction builder and what the wallet reads from its              *)
(* transactions.                                                           *)
(*                                                                         *)
(* A request is a sequence of payloads q: an asset, an amount, a burnt     *)
(* value, a fixed fee, the data version, the ring size, the script with    *)
(* its extra (NoExtra for a transfer) and the two sides of the ring,       *)
(* q.send and q.recv: the key (None: a random one), the members to         *)
(* include, how many new accounts, and whether staked accounts are         *)
(* required or avoided.                                                    *)
(*                                                                         *)
(* Random choices make a set of outcomes.  Refused is an error; Stuck is   *)
(* a loop that draws accounts for ever, since none is left that suits,     *)
(* while the builder holds its lock.  Ciphertexts are numbers, as in       *)
(* Transactions; only the two keys a whisper was made for read its value.  *)
(***************************************************************************)
EXTENDS Transactions

CONSTANTS
    NewKeys,    \* the keys that GenerateNewPrivateKey draws
    Promised,   \* the registration that an unregistered key's address carries, or None
    Stuck

NotBuilt == {Refused, Stuck}
Bind(outcomes, Op(_)) == UNION {IF s \in NotBuilt THEN {s} ELSE Op(s) : s \in outcomes}

NoExtra == [script |-> "transfer"]
Zero(balance) == IF balance = None THEN 0 ELSE balance

-----------------------------------------------------------------------------
(* Rings.  s.send and s.recv are the halves of the payload at hand, used the keys in them,  *)
(* all the keys in any payload, made the registrations of new keys, rollover the keys whose *)
(* receipts are known to become pending stakes, done the finished payloads.                 *)

NoRings ==
    [send |-> <<>>, recv |-> <<>>, used |-> {}, all |-> {}, made |-> Promised,
     rollover |-> {}, w |-> <<>>, done |-> <<>>]

\* presetZetherRing, for a ring size that is given.
Preset(q) ==
    /\ q.size \in {2, 4, 8, 16, 32, 64, 128, 256}
    /\ q.recv.new \in 0..(q.size \div 2 - 1)

Holders(d, asset) == {k \in Keys : d.accs[asset][k] # None}

\* The accounts at which a loop around getRandomAccount stops.
Eligible(d, q, side, s) ==
    {k \in Holders(d, q.asset) \ (s.used \cup s.all) :
        /\ ~(q[side].avoid /\ d.regs[k].staked)
        /\ IF q[side].staked THEN d.regs[k].staked ELSE d.regs[k].spend = None}

Mark(s, k) == [s EXCEPT !.used = @ \cup {k}, !.all = @ \cup {k}]

\* The sender or the recipient goes to the front of its half, if it is not there already.
SetAddress(d, q, side, s) ==
    LET key == q[side].key
        ring == s[side]
        Prepend(k) == Mark([s EXCEPT ![side] = <<k>> \o @], k)
        at == CHOOSE i \in DOMAIN ring : ring[i] = key
        flagged == [s EXCEPT !.rollover =
                       IF s.made[key] # None /\ s.made[key].staked THEN @ \cup {key} ELSE @ \ {key}]
    IN  IF key = None
        THEN IF Cardinality(Holders(d, q.asset)) = Cardinality(s.used) THEN {Refused}
             ELSE IF Eligible(d, q, side, s) = {} THEN {Stuck}
             ELSE {Prepend(k) : k \in Eligible(d, q, side, s)}
        ELSE IF key \notin s.used THEN {Mark([flagged EXCEPT ![side] = <<key>> \o @], key)}
        ELSE IF key \in ToSet(ring)
             THEN {[flagged EXCEPT ![side] = [@ EXCEPT ![1] = key, ![at] = ring[1]]]}
        ELSE {Refused}

IncludeMembers(q, side, s) ==
    FoldLeft(LAMBDA e, k : IF Len(e[side]) >= q.size \div 2 \/ k \in e.used THEN e
                           ELSE Mark([e EXCEPT ![side] = Append(@, k)], k),
             s, q[side].include)

\* A key drawn by GenerateNewPrivateKey; which one does not matter.  The draws are bounded.
Drawable(s) == {k \in NewKeys : k \notin s.all /\ s.made[k] = None}
Draw(s, side, staked) ==
    LET k == CHOOSE x \in Drawable(s) : TRUE
    IN  [s EXCEPT ![side] = Append(@, k), !.made[k] = [staked |-> staked, spend |-> None]]

RECURSIVE NewAccounts(_, _, _, _)
NewAccounts(q, side, n, s) ==
    IF n = 0 \/ Len(s[side]) >= q.size \div 2 THEN {s}
    ELSE UNION {
           LET drawn == Draw(s, side, staked)
               k == Last(drawn[side])
               flag == IF staked THEN {k} ELSE {}
           IN  NewAccounts(q, side, n - 1, Mark([drawn EXCEPT !.rollover = @ \cup flag], k)) :
           staked \in IF Drawable(s) = {} THEN {} ELSE IF q[side].avoid THEN {FALSE} ELSE BOOLEAN}

\* The half is filled with random accounts; with new ones if every account is in the ring.
RECURSIVE NewRandomAccounts(_, _, _, _)
NewRandomAccounts(d, q, side, s) ==
    IF Len(s[side]) >= q.size \div 2 THEN {s}
    ELSE IF Cardinality(Holders(d, q.asset)) <= Cardinality(s.used)
    THEN IF Drawable(s) = {} THEN {} ELSE NewRandomAccounts(d, q, side, Draw(s, side, q[side].staked))
    ELSE IF Eligible(d, q, side, s) = {} THEN {Stuck}
    ELSE UNION {NewRandomAccounts(d, q, side, Mark([s EXCEPT ![side] = Append(@, k)], k)) :
                k \in Eligible(d, q, side, s)}

CreateZetherRing(d, q, s) ==
    LET Included(x) == {IncludeMembers(q, "recv", IncludeMembers(q, "send", x))}
        addressed == Bind(SetAddress(d, q, "send", s), LAMBDA x : SetAddress(d, q, "recv", x))
        included == Bind(addressed, Included)
        sendNew == Bind(included, LAMBDA x : NewAccounts(q, "send", q.send.new, x))
        recvNew == Bind(sendNew, LAMBDA x : NewAccounts(q, "recv", q.recv.new, x))
        sendFull == Bind(recvNew, LAMBDA x : NewRandomAccounts(d, q, "send", x))
    IN  Bind(sendFull, LAMBDA x : NewRandomAccounts(d, q, "recv", x))

\* InitRing: where the sender and the recipient stand.  The rest of WitnessIndexes is not read.
InitRing(q) == {w \in (0..(q.size - 1)) \X (0..(q.size - 1)) : w[1] % 2 # w[2] % 2}

\* ProcessRing: a payload of the same sender (recipient) uses the same half again, at the
\* same positions; the other side moves.
ProcessRing(reqs, t, s) ==
    LET q == reqs[t]
        SameAs(side) == {i \in 1..(t - 1) : s.done[i][side][1] = q[side].key}
        from(side) == CHOOSE i \in SameAs(side) : \A j \in SameAs(side) : i <= j
        Opposite(n) == {i \in 0..(q.size - 1) : i % 2 # n % 2}
        CopySend(x) ==
            IF SameAs("send") = {} THEN {x}
            ELSE IF reqs[from("send")].size # q.size THEN {Refused}
            ELSE LET old == s.done[from("send")]
                 IN  {[x EXCEPT !.send = old.send, !.w = <<old.w[1], n>>] : n \in Opposite(old.w[1])}
        CopyRecv(x) ==
            IF SameAs("recv") = {} THEN {x}
            ELSE IF reqs[from("recv")].size # q.size THEN {Refused}
            ELSE LET old == s.done[from("recv")]
                 IN  {[x EXCEPT !.recv = old.recv, !.w = <<n, old.w[2]>>] : n \in Opposite(old.w[2])}
    IN  IF SameAs("send") \cap SameAs("recv") # {} THEN {Refused}
        ELSE Bind(CopySend(s), CopyRecv)

\* The reward goes back through the rings of the stake, from a temporary account.
RewardRing(s) ==
    IF Drawable(s) = {} THEN {}
    ELSE LET old == Last(s.done)
             drawn == Draw([s EXCEPT !.send = <<>>], "send", FALSE)
         IN  {[drawn EXCEPT !.send = @ \o Tail(old.recv), !.recv = old.send,
                            !.w = <<old.w[2], old.w[1]>>]}

AllRings(d, reqs) ==
    LET Finish(s) == {[s EXCEPT !.done = Append(@, [send |-> s.send, recv |-> s.recv, w |-> s.w])]}
        Begin(s, w) == [s EXCEPT !.send = <<>>, !.recv = <<>>, !.used = {}, !.w = w]
        Copied(s) == [s EXCEPT !.used = ToSet(s.send) \cup ToSet(s.recv)]
        Ring(t, s) ==
            IF reqs[t].extra.script = "reward" THEN Bind(RewardRing(s), Finish)
            ELSE LET begun == {Begin(s, w) : w \in InitRing(reqs[t])}
                     copied == Bind(begun, LAMBDA x : ProcessRing(reqs, t, x))
                     made == Bind(copied, LAMBDA x : CreateZetherRing(d, reqs[t], Copied(x)))
                 IN  Bind(made, Finish)
    IN  IF \E t \in DOMAIN reqs : ~Preset(reqs[t]) THEN {Refused}
        ELSE FoldLeft(LAMBDA S, t : Bind(S, LAMBDA s : Ring(t, s)),
                      {NoRings}, [t \in DOMAIN reqs |-> t])

-----------------------------------------------------------------------------
(* Balances.  The ledger is read again, the pending transactions are applied to it. *)

ZetherPayloads(tx) == IF tx.kind = "zether" THEN tx.payloads ELSE <<>>

\* Mutant: receipts of staked accounts are counted at once.
GetZetherBalanceEager(d, key, asset, rollover, txs) ==
    LET payloads == FlattenSeq([n \in DOMAIN txs |-> ZetherPayloads(txs[n])])
        At(p) == {i \in DOMAIN p.ring : p.ring[i] = key}
    IN  FoldLeft(LAMBDA b, p : IF p.asset # asset \/ At(p) = {} THEN b
                               ELSE Zero(b) + p.changes[CHOOSE i \in At(p) : TRUE],
                 d.accs[asset][key], payloads)

\* The balance of an account after the pending transactions; what a staked account receives
\* is left out.
GetZetherBalance(d, key, asset, rollover, txs) ==
    LET payloads == FlattenSeq([n \in DOMAIN txs |-> ZetherPayloads(txs[n])])
        At(p) == {i \in DOMAIN p.ring : p.ring[i] = key /\ (rollover => IsSender(p, i))}
    IN  FoldLeft(LAMBDA b, p : IF p.asset # asset \/ At(p) = {} THEN b
                               ELSE Zero(b) + p.changes[CHOOSE i \in At(p) : TRUE],
                 d.accs[asset][key], payloads)

\* addPoint: the balance, if it is not known from an earlier payload.
AddPoint(d, pending, q, e, k) ==
    LET reg == d.regs[k]
        rolls == reg # None /\ q.asset = Native /\ reg.staked
        rollover == e.rollover \cup IF rolls THEN {k} ELSE {}
    IN  IF e = Refused THEN Refused
        ELSE IF e.emap[q.asset][k] # None THEN e
        ELSE IF reg = None /\ e.made[k] = None THEN Refused
        ELSE [e EXCEPT !.rollover = rollover,
                       !.emap[q.asset][k] = GetZetherBalance(d, k, q.asset, k \in rollover, pending)]

\* The sender's spend key must be the one of every sender of the ring that has one.
SpendKeyFits(d, q, ring) ==
    q.extra = NoExtra =>
        \A k \in ToSet(ring.send) :
            d.regs[k] # None /\ d.regs[k].spend # None =>
                d.regs[ring.send[1]] # None /\ d.regs[ring.send[1]].spend = d.regs[k].spend

RateKnown(d, q) == q.asset # Native => TopLiquidity(d, q.asset) # None
Rate(d, q) == IF q.asset = Native THEN 0 ELSE d.plain[TopLiquidity(d, q.asset)].rates[q.asset]

\* A sender seen for the first time must have funds, and the amount: fee and burnt value are
\* not looked at.
FundsSuffice(q, before, after, sender) ==
    IF q.extra.script = "reward" THEN q.amount > 0
    ELSE before.emap[q.asset][sender] = None =>
            LET funds == Zero(after.emap[q.asset][sender])
            IN  funds > 0 /\ funds >= q.amount

\* The second part of prebuild, for a choice of rings s.
Prebuild(d, pending, reqs, s) ==
    LET Point(q, e, ring) ==
            FoldLeft(LAMBDA x, k : AddPoint(d, pending, q, x, k), e, ring.send \o ring.recv)
        Payload(e, t) ==
            LET q == reqs[t]
                ring == s.done[t]
                new == Point(q, e, ring)
            IN  IF e = Refused THEN Refused
                ELSE IF \/ ~RateKnown(d, q)
                        \/ ~IsInjective(ring.send \o ring.recv)
                        \/ ~SpendKeyFits(d, q, ring)
                        \/ new = Refused THEN Refused
                ELSE IF ~FundsSuffice(q, e, new, ring.send[1]) THEN Refused ELSE new
    IN  FoldLeft(Payload, [emap |-> [y \in AllAssets |-> [k \in Keys |-> None]],
                           rollover |-> s.rollover, made |-> s.made],
                 [t \in DOMAIN reqs |-> t])

-----------------------------------------------------------------------------
(* The wizard *)

\* Sender and recipient at their positions, the others in order at the positions of their half.
PublicKeys(ring, size) ==
    LET Rank(i) == Cardinality({j \in 0..(i - 1) : j % 2 = i % 2 /\ j \notin {ring.w[1], ring.w[2]}})
    IN  [n \in 1..size |->
            LET i == n - 1
            IN  CASE i = ring.w[1] -> ring.send[1]
                  [] i = ring.w[2] -> ring.recv[1]
                  [] i % 2 = ring.w[1] % 2 -> ring.send[2 + Rank(i)]
                  [] OTHER -> ring.recv[2 + Rank(i)]]

\* The registration of each ring member that is not registered, in the first payload it is in.
RegistrationsOf(d, made, already, keys) ==
    [i \in DOMAIN keys |->
        IF d.regs[keys[i]] # None \/ keys[i] \in already THEN None
        ELSE [new |-> TRUE, staked |-> made[keys[i]].staked, spend |-> made[keys[i]].spend]]

\* The script and its extra.
PayloadExtra(d, q, ring) ==
    LET sender == ring.send[1]
        reg == d.regs[sender]
    IN  IF q.extra = NoExtra /\ reg # None /\ reg.spend # None
        THEN [script |-> "spend", spendKey |-> reg.spend]
        ELSE IF q.extra.script = "reward"
        THEN q.extra @@ [temp |-> ring.w[1] + 1]
        ELSE q.extra

\* A conditional payment pays no fee, the next payload pays it too.
Fees(q, carried) ==
    IF q.extra.script = "conditional" THEN [pays |-> 0, carry |-> q.fee + carried]
    ELSE [pays |-> q.fee + carried, carry |-> 0]

\* What the payload does to each balance, as its commitments C say.
Changes(q, fee, ring, keys) ==
    [i \in DOMAIN keys |->
        CASE i - 1 = ring.w[1] -> -(q.amount + fee + q.burn)
          [] i - 1 = ring.w[2] -> q.amount
          [] OTHER -> 0]

\* The balances the next payload starts from.
NextBalances(emap, p, rollover) ==
    LET Updated(i) ==
            IsSender(p, i) \/ ~(p.script = "conditional" \/ (p.asset = Native /\ p.ring[i] \in rollover))
        Position(k) == CHOOSE i \in DOMAIN p.ring : p.ring[i] = k
    IN  IF p.script = "staking" THEN emap
        ELSE [emap EXCEPT ![p.asset] =
                [k \in Keys |-> IF k \in ToSet(p.ring) /\ Updated(Position(k))
                                THEN Zero(@[k]) + p.changes[Position(k)] ELSE @[k]]]

\* signZetherTx.  Each payload carries the balances its statement is made for (emap) and the
\* two whispers; proved says whether the remaining balance, unsigned in the code, is none too
\* small.
SignZetherTx(d, reqs, s, e) ==
    LET Payload(z, t) ==
            LET q == reqs[t]
                ring == s.done[t]
                keys == PublicKeys(ring, q.size)
                fees == Fees(q, z.carry)
                conditional == q.extra.script = "conditional"
                emap == IF q.extra.script # "reward" THEN z.emap
                        ELSE [z.emap EXCEPT ![q.asset][ring.send[1]] = q.amount + fees.pays + q.burn]
                p == PayloadExtra(d, q, ring) @@
                     [asset |-> q.asset, burn |-> q.burn, fee |-> fees.pays, zeros |-> 0,
                      rate |-> IF conditional THEN 0 ELSE Rate(d, q),
                      parity |-> ring.w[1] % 2 = 0, ring |-> keys,
                      changes |-> Changes(q, fees.pays, ring, keys),
                      register |-> RegistrationsOf(d, s.made, z.already, keys),
                      emap |-> emap, data |-> q.data,
                      whispers |-> IF q.extra.script \in {"staking", "reward"} THEN None
                                   ELSE [sender |-> ring.send[1], recipient |-> ring.recv[1],
                                         value |-> q.amount],
                      proved |-> Zero(emap[q.asset][ring.send[1]]) >= q.amount + fees.pays + q.burn]
            IN  [emap |-> NextBalances(emap, p, e.rollover), carry |-> fees.carry,
                 already |-> z.already \cup ToSet(keys), payloads |-> Append(z.payloads, p)]
        signed == FoldLeft(Payload, [emap |-> e.emap, carry |-> 0, already |-> {}, payloads |-> <<>>],
                           [t \in DOMAIN reqs |-> t])
    IN  [kind |-> "zether", payloads |-> signed.payloads]

\* CreateZetherTx, rings from one reading of the ledger, balances from a later one.
CreateZetherTx(first, second, pending, reqs) ==
    LET Signed(s) ==
            LET e == Prebuild(second, pending, reqs, s)
            IN  IF e = Refused THEN {Refused} ELSE {SignZetherTx(second, reqs, s, e)}
    IN  Bind(AllRings(first, reqs), Signed)

-----------------------------------------------------------------------------
(* Simple transactions *)

\* The first nonce from the account's on that no pending transaction of the key has.
GetNonce(d, key, pending) ==
    LET taken == {pending[n].nonce : n \in {i \in DOMAIN pending :
                    pending[i].kind = "liquidity" /\ pending[i].key = key}}
        from == d.plain[key].nonce
    IN  CHOOSE n \in from..(from + Len(pending)) :
            n \notin taken /\ \A m \in from..(n - 1) : m \in taken

CreateSimpleTx(d, pending, q) ==
    IF q.kind = "resolution" THEN q
    ELSE IF d.plain[q.key] = None THEN Refused
    ELSE [nonce |-> GetNonce(d, q.key, pending)] @@ q

-----------------------------------------------------------------------------
(* What the wallet reads *)

SentAmount(p) == p.whispers.value + p.fee + p.burn

Nothing == [sent |-> None, received |-> None, index |-> None, message |-> None]

\* What the key of one ring member makes of a payload.  The sender goes through the
\* recipients' half for the commitment to what it sent; data that was not encrypted comes out
\* scrambled there.
DecryptPayload(p, i) ==
    LET key == p.ring[i]
        sends == key = p.whispers.sender /\ -p.changes[i] = SentAmount(p)
        receives == key = p.whispers.recipient /\ p.changes[i] = p.whispers.value
        receivers == {k \in DOMAIN p.ring : ~IsSender(p, k)}
        hits == IF SentAmount(p) = 0 THEN IF p.data = "encrypted" THEN receivers ELSE {}
                ELSE {k \in receivers : p.changes[k] = SentAmount(p) - p.fee - 2 * p.burn}
        hit == CHOOSE k \in hits : \A j \in hits : k <= j
        read == IF p.ring[hit] = p.whispers.recipient /\ p.data = "encrypted" THEN "text" ELSE "scrambled"
    IN  IF p.whispers = None THEN Nothing
        ELSE IF sends
        THEN [Nothing EXCEPT !.sent = SentAmount(p),
                             !.index = IF hits = {} THEN None ELSE hit,
                             !.message = IF hits = {} \/ p.data = "none" THEN None ELSE read]
        ELSE IF receives
        THEN [Nothing EXCEPT !.received = p.whispers.value, !.index = i,
                             !.message = IF p.data = "none" THEN None ELSE "text"]
        ELSE Nothing

\* DecryptTx for the keys a wallet owns: what the last of them reads stays.
DecryptTx(tx, owned) ==
    [t \in DOMAIN tx.payloads |->
        LET p == tx.payloads[t]
            mine == {i \in DOMAIN p.ring : p.ring[i] \in owned}
        IN  IF mine = {} THEN None
            ELSE DecryptPayload(p, CHOOSE i \in mine : \A j \in mine : j <= i)]
=============================================================================
