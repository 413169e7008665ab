---------------------------- MODULE MCBlockchain ----------------------------
(* A small tree of blocks for TLC.  From the genesis hash:                  *)
(*   a0 - b1 - b2 - b3      four light blocks;                              *)
(*      \ c1 - c2           the block after c1 is heavy: a shorter chain    *)
(*             \ x3         that wins, and a block that fails its checks;    *)
(*   d0 - d1 - y2           a rival from height 0 on, heavy from d1 on, and  *)
(*           \ z2           a block without a staking transaction; z2 holds  *)
(*                          t2 again, as d0 does.                            *)
(* Transaction t1 is in b1 and in c2 (a fork moves it to another height),   *)
(* t3 in c1 and in b3.                                                      *)
EXTENDS Blockchain

CONSTANTS a0, b1, b2, b3, c1, c2, x3, d0, d1, y2, z2, t1, t2, t3

MCBlocks == {a0, b1, b2, b3, c1, c2, x3, d0, d1, y2, z2}
MCTxs == {t1, t2, t3}

H(prev, height, txs, reward, accounts, check) ==
    [prev |-> prev, height |-> height, txs |-> txs, reward |-> reward,
     accounts |-> accounts, check |-> check]

MCHeader ==
    [b \in MCBlocks |->
        CASE b = a0 -> H(Genesis, 0, {}, 5, 0, "sound")
          [] b = b1 -> H(a0, 1, {t1}, 5, 1, "sound")
          [] b = b2 -> H(b1, 2, {t2}, 4, 0, "sound")
          [] b = b3 -> H(b2, 3, {t3}, 4, 0, "early")
          [] b = c1 -> H(a0, 1, {t3}, 5, 0, "sound")
          [] b = c2 -> H(c1, 2, {t1}, 4, 2, "sound")
          [] b = x3 -> H(c2, 3, {t2}, 4, 0, "bad")
          [] b = d0 -> H(Genesis, 0, {t2}, 5, 0, "sound")
          [] b = d1 -> H(d0, 1, {}, 5, 0, "sound")
          [] b = y2 -> H(d1, 2, {}, 5, 0, "unstaked")
          [] b = z2 -> H(d1, 2, {t2}, 4, 0, "sound")]

\* Blocks of consecutive heights, as a peer is asked for them, linked or not, and some that
\* are out of order.
MCBatches ==
    {s \in UNION {[1..n -> MCBlocks] : n \in 1..4} :
        \A i \in 2..Len(s) : MCHeader[s[i]].height = MCHeader[s[i - 1]].height + 1}
    \cup {<<a0, b2>>, <<b1, b1>>, <<c1, c2, c1>>}

MCDifficulty == [h \in MCBlocks \cup {Genesis} |-> IF h = c1 THEN 4 ELSE IF h = d0 THEN 9 ELSE 1]

MCGenesisState == [supply |-> 10, accounts |-> 1]
=============================================================================
