----------------------------- MODULE MCMempool -----------------------------
(* t2, t1, t3 have consecutive nonces; two of them fit in a block, not three. *)
(* t4 has the nonce of t2.  The chain includes t4 in one block, t1 and t3 in  *)
(* the next, then a fork drops both blocks; clients submit t1 and t2.         *)
(* Every block ends with a staking transaction, s1 to s3.                     *)
EXTENDS Mempool

CONSTANTS t1, t2, t3, t4, s1, s2, s3, c1, c2

MCTxs == {t1, t2, t3, t4, s1, s2, s3}
MCStaking == {s1, s2, s3}
MCClients == {c1, c2}
MCNonce == [t \in MCTxs |-> CASE t = t1 -> 1 [] t = t3 -> 2 [] OTHER -> 0]
MCFee == [t \in MCTxs |-> IF t = t1 THEN 0 ELSE 1]
MCSize == [t \in MCTxs |-> 1]
MCSubmits == [c \in MCClients |-> IF c = c1 THEN t1 ELSE t2]

\* The second tip undoes the two blocks of the first.
MCChain == <<<< >>, <<<<t4, s1>>, <<t1, t3, s2>>>>, <<<<s3>>>>>>
=============================================================================
