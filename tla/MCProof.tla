------------------------------ MODULE MCProof -------------------------------
(***************************************************************************)
(* Samples for the algebra: a group of order 12289, numbers of four bits,  *)
(* rings of two and of four.                                               *)
(***************************************************************************)
EXTENDS ZetherProof

MCGs == [i \in 1..(2 * HalfBits) |-> Exp(3, 10 * i + 7)]
MCHs == [i \in 1..(2 * HalfBits) |-> Exp(3, 10 * i + 2)]

\* What RandomScalarFixed may draw.
Drawn(seed) == [i \in 1..12 |-> 1 + ((seed * seed + 31 * i * i + 7 * seed * i) % (Order - 1))]
Secrets == <<5, 77, 130, 201>>

\* A payment in a ring of n, from the member at i, who has as much, to the one at j.
Payments ==
    {<<n, i, j, have, value, open, seed>> \in
        {2, 4} \X (1..4) \X (1..4) \X {6, 15} \X {0, 6} \X {0, 9} \X {3, 8} :
        i <= n /\ j <= n /\ i # j /\ (seed = 3 \/ have # 6)}

Keys4(n) == [k \in 1..n |-> ScalarMult(G, Secrets[k])]
BalancesOf(t) == [k \in 1..t[1] |-> CommitElGamal(Keys4(t[1])[k], IF k = t[2] THEN t[4] ELSE 2, 11 + k)]
StatementOf(t) ==
    GenerateStatement(Keys4(t[1]), BalancesOf(t), <<t[2], t[3]>>, t[5], t[6] - t[6] \div 3, t[6] \div 3, 40 + t[7])
WitnessOf(t) ==
    [secret |-> Secrets[t[2]], r |-> 40 + t[7], transfer |-> t[5], balance |-> t[4] - t[5] - t[6],
     index |-> <<t[2], t[3]>>]
Made(t, s, witness) == GenerateProof(s, witness, 9, t[6] \div 3, Drawn(t[7]))

\* A prover who is wrong about something.
Lies(t) ==
    LET w == WitnessOf(t)
    IN  {[w EXCEPT !.balance = @ + 1], [w EXCEPT !.transfer = @ + 1], [w EXCEPT !.r = @ + 1],
         [w EXCEPT !.secret = @ + 1], [w EXCEPT !.index[1] = t[3], !.index[2] = t[2]]}

\* Another statement than the one that was proved (balances in the receivers' half do not count).
Others(s, t) ==
    {[s EXCEPT !.fee = @ + 1], [s EXCEPT !.C[1] = Mod(@ + 1)], [s EXCEPT !.CLn[t[2]] = Mod(@ + 1)],
     [s EXCEPT !.keys[2] = Mod(@ + 1)], [s EXCEPT !.D = Mod(@ + 1)]}

Believed(proof, s, t) == proof # Unproved /\ Verify(proof, s, 9, t[6] \div 3)

PaymentProved(t) ==
    LET s == StatementOf(t)
        proof == Made(t, s, WitnessOf(t))
        sound == t[4] >= t[5] + t[6] /\ t[2] % 2 # t[3] % 2
    IN  /\ Believed(proof, s, t) <=> sound
        /\ sound =>
            /\ Parity(proof) <=> t[2] % 2 = 1
            /\ \A w \in Lies(t) : ~Believed(Made(t, s, w), s, t)
            /\ \A o \in Others(s, t) : ~Believed(proof, o, t)

-----------------------------------------------------------------------------
(* Balances *)

\* Tables whose entries can be told apart by the bytes they keep, can be in part, cannot.
KeptBytes == {[point \in 0..(Order - 1) |-> point], [point \in 0..(Order - 1) |-> point % 3],
             [point \in 0..(Order - 1) |-> 0]}

Reads(private, balance, value, previous) ==
    \A prefixes \in KeptBytes, count \in 1..2 :
        DecryptBalance(balance, private, previous, CreateLookupTable(count, 4, prefixes), prefixes) = value

BalanceRead(private, had, more, r) ==
    LET key == ScalarMult(G, private)
        first == ElGamalPlus(EmptyBalance(key), had)
        sent == CommitElGamal(key, more, r)
    IN  \A previous \in {0, had, had + 1} :
          /\ Reads(private, first, had, previous)
          /\ Reads(private, ElGamalAdd(first, sent), had + more, previous)
          /\ Reads(private, ElGamalAdd(ElGamalAdd(first, sent), ElGamalNeg(sent)), had, previous)
          /\ Reads(private, ElGamalMul(sent, 2), 2 * more, previous)

-----------------------------------------------------------------------------
(* Vectors and polynomials *)

\* Entry i is the product of the exponents with the bases rotated by twice i.
Rotated(exponent, base) ==
    LET n == Len(base)
    IN  [i \in 1..(n \div 2) |->
            Sum(n, LAMBDA j : Mod(base[j] * exponent[((j - 2 * i + 1 + 2 * n) % n) + 1]))]

\* The polynomial of an index is the product of the factors for its bits.
ProductAt(va, vb, j, point) ==
    FoldLeft(LAMBDA s, k :
                Mod(s * IF Bits(j - 1, Len(va))[k] = 1 THEN Mod(va[k] + vb[k] * point)
                        ELSE Mod((1 - vb[k]) * point - va[k])),
             1, [k \in DOMAIN va |-> k])
ValueAt(poly, point) == Sum(Len(poly), LAMBDA k : Mod(poly[k] * Exp(point, k - 1)))
=============================================================================
