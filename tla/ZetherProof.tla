---------------------------- MODULE ZetherProof -----------------------------
(***************************************************************************)
(* The proof of a private payment: the owner of one of the senders of the  *)
(* ring knows its key, moves an amount from it to one receiver, loses the  *)
(* fee and what is burnt besides, keeps a balance that is not negative,    *)
(* and changes nobody else.  Numbers are proved to have HalfBits bits.     *)
(***************************************************************************)
EXTENDS Algebra

CONSTANTS
    HalfBits,       \* 64 in the code: the amount and the balance that is left have as many bits
    Gs, Hs, H,      \* the other generators: two for each bit, and one
    UBase,          \* the point that the chain, the asset and its index are hashed to
    Unproved        \* the prover's error

Bits(number, n) == [i \in 1..n |-> (number \div 2 ^ (i - 1)) % 2]
Log2(n) == CHOOSE k \in 0..n : 2 ^ k = n
Sum(n, Term(_)) == FoldLeft(LAMBDA s, i : Mod(s + Term(i)), 0, [i \in 1..n |-> i])
AddConstant(v, k) == [i \in DOMAIN v |-> Mod(v[i] + k)]

\* PedersenVectorCommitment
VectorCommit(gvalues, hvalues, r) ==
    Mod(ScalarMult(H, r) + MultiExponentiate(Gs, gvalues) + MultiExponentiate(Hs, hvalues))

\* PedersenCommitmentNew
Commit(value, r) == Mod(ScalarMult(G, value) + ScalarMult(H, r))

-----------------------------------------------------------------------------
(* The statement: encrypted changes, and the balances once they are made *)

\* index: the places of the sender and of the receiver.
GenerateStatement(keys, balances, index, value, fee, burn, r) ==
    LET change(i) == CASE i = index[1] -> -value - fee - burn [] i = index[2] -> value [] OTHER -> 0
        C == [i \in DOMAIN keys |-> Mod(ScalarMult(G, change(i)) + ScalarMult(keys[i], r))]
        D == ScalarMult(G, r)
    IN  [keys |-> keys, C |-> C, D |-> D, fee |-> fee,
         CLn |-> [i \in DOMAIN keys |-> Mod(balances[i].left + C[i])],
         CRn |-> [i \in DOMAIN keys |-> Mod(balances[i].right + D)]]

-----------------------------------------------------------------------------
(* The prover: each stage takes the scalars it draws from rnd *)

\* The amount and the balance that is left, bit by bit.
ProveBits(witness, rnd) ==
    LET aL == Bits(witness.transfer + witness.balance * 2 ^ HalfBits, 2 * HalfBits)
        aR == AddConstant(aL, -1)
        sL == [i \in DOMAIN aL |-> rnd[i]]
        sR == [i \in DOMAIN aL |-> rnd[i + 3]]
    IN  [aL |-> aL, aR |-> aR, sL |-> sL, sR |-> sR,
         BA |-> VectorCommit(aL, aR, rnd[5]), BS |-> VectorCommit(sL, sR, rnd[6])]

ProveIndexesHidden(index, m, rnd) ==
    LET va == [i \in 1..(2 * m) |-> rnd[i + 2]]
        vb == Bits(index[1] - 1, m) \o Bits(index[2] - 1, m)
        vc == Hadamard(va, [i \in DOMAIN vb |-> Mod(1 - 2 * vb[i])])
        vd == Negate(Hadamard(va, va))
        ve == <<Mod(va[1] * va[m + 1]), Mod(va[1] * va[m + 1])>>
        vf == <<va[vb[1] * m + 1], Mod(-va[vb[m + 1] * m + 1])>>
    IN  [a |-> va, b |-> vb, A |-> VectorCommit(va, vd \o ve, rnd[7]),
         B |-> VectorCommit(vb, vc \o vf, rnd[8])]

\* The bits of the two places, hidden by a, except that the lowest ones are not: which of
\* the halves has the sender is told.
ProveIndexes(index, m, rnd) ==
    LET va == [i \in 1..(2 * m) |-> IF i \in {1, m + 1} THEN 0 ELSE rnd[i + 2]]
        vb == Bits(index[1] - 1, m) \o Bits(index[2] - 1, m)
        vc == Hadamard(va, [i \in DOMAIN vb |-> Mod(1 - 2 * vb[i])])
        vd == Negate(Hadamard(va, va))
        ve == <<Mod(va[1] * va[m + 1]), Mod(va[1] * va[m + 1])>>
        vf == <<va[vb[1] * m + 1], Mod(-va[vb[m + 1] * m + 1])>>
    IN  [a |-> va, b |-> vb, A |-> VectorCommit(va, vd \o ve, rnd[7]),
         B |-> VectorCommit(vb, vc \o vf, rnd[8])]

\* The coefficients below the leading one of the polynomials of all the indexes.
Coefficients(va, vb, m, n) ==
    LET polys == RecursivePolynomials(<<1>>, va, vb)
    IN  [k \in 1..m |-> [j \in 1..n |-> polys[j][k]]]

VPow(v, i) == Exp(v, IF i = 0 THEN 0 ELSE i - 1)

\* What corrects the verifier's sums for the lower powers of w, hidden under the sender's key.
ProveMembers(s, witness, open, P, Q, v, rnd) ==
    LET m == Len(P)
        n == Len(s.keys)
        key == s.keys[witness.index[1]]
        Hidden(k, at) == CommitElGamal(key, 0, rnd[k + at])
        \* the changes of member i as seen from every second rotation of the ring
        Joined(k, i) ==
            LET poly == IF i % 2 = 0 THEN P[k] ELSE Q[k]
                At(place) == poly[((place - 1 + n - (i - (i % 2))) % n) + 1]
            IN  Mod((-witness.transfer - open) * At(witness.index[1])
                    + witness.transfer * At(witness.index[2]))
        CX == [k \in 1..m |->
                 ElGamalPlus(CommitElGamal(s.D, 0, rnd[k + 4]),
                             Sum(n, LAMBDA i : Mod(VPow(v, i - 1) * Joined(k, i - 1))))]
    IN  [phi |-> [k \in 1..m |-> Hidden(k, 1)], chi |-> [k \in 1..m |-> rnd[k + 2]],
         psi |-> [k \in 1..m |-> rnd[k + 3]], CX |-> CX,
         CLnG |-> [k \in 1..m |-> Mod(MultiExponentiate(s.CLn, P[k]) + Hidden(k, 1).left)],
         CRnG |-> [k \in 1..m |-> Mod(MultiExponentiate(s.CRn, P[k]) + Hidden(k, 1).right)],
         C_0G |-> [k \in 1..m |-> Mod(MultiExponentiate(s.C, P[k]) + Hidden(k, 2).left)],
         DG |-> [k \in 1..m |-> Hidden(k, 2).right],
         y_0G |-> [k \in 1..m |-> Mod(MultiExponentiate(s.keys, P[k]) + Hidden(k, 3).left)],
         gG |-> [k \in 1..m |-> Hidden(k, 3).right],
         C_XG |-> [k \in 1..m |-> CX[k].left], y_XG |-> [k \in 1..m |-> CX[k].right]]

HashMash1(g, v) ==
    ReducedHash(<<v>> \o g.CLnG \o g.CRnG \o g.C_0G \o g.DG \o g.y_0G \o g.gG \o g.C_XG \o g.y_XG)

\* The challenges that both sides derive from w for the range.
RangeChallenges(w) ==
    LET yy == ReducedHash(<<w>>)
        z == ReducedHash(<<yy>>)
        zs == <<Exp(z, 2), Exp(z, 3)>>
    IN  [ys |-> [i \in 1..(2 * HalfBits) |-> Exp(yy, i - 1)], z |-> z, zs |-> zs,
         twos |-> [i \in 1..(2 * HalfBits) |->
                     Mod(zs[(i - 1) \div HalfBits + 1] * Exp(2, (i - 1) % HalfBits))]]

\* The bits are bits, and their sums are the amount and the balance.
ProveRange(bits, r, rnd) ==
    LET l0 == AddConstant(bits.aL, -r.z)
        r0 == VectorAdd(Hadamard(r.ys, AddConstant(bits.aR, r.z)), r.twos)
        r1 == Hadamard(bits.sR, r.ys)
        t1 == Mod(InnerProduct(l0, r1) + InnerProduct(bits.sL, r0))
        t2 == InnerProduct(bits.sL, r1)
        T_1 == Commit(t1, rnd[1])
        T_2 == Commit(t2, rnd[2])
        xx == ReducedHash(<<r.z, T_1, T_2>>)
        sq == Mod(xx * xx)
    IN  [T_1 |-> T_1, T_2 |-> T_2, x |-> xx,
         that |-> Mod(InnerProduct(l0, r0) + Mod(t1 * xx) + Mod(t2 * sq)),
         tauX |-> Mod(Mod(rnd[1] * xx) + Mod(rnd[2] * sq)),
         mu |-> Mod(rnd[6] * xx + rnd[5]),
         l |-> VectorAdd(l0, Times(bits.sL, xx)), r |-> VectorAdd(r0, Times(r1, xx))]

\* The owner answers for the key, the randomness, the numbers and their blinding.
ProveKnowledge(s, witness, g, P, Q, v, w, r, range, rnd) ==
    LET m == Len(P)
        n == Len(s.keys)
        wm == Exp(w, m)
        W(values) == Sum(m, LAMBDA k : Mod(values[k] * Exp(w, k - 1)))
        CnR == Mod(s.CRn[witness.index[1]] * wm - W([k \in 1..m |-> g.phi[k].right]))
        DR == Mod(s.D * wm - W(g.chi))
        gR == Mod(wm - W(g.psi))
        Whole(poly, place) ==
            [j \in 1..n |-> Mod(Sum(m, LAMBDA k : Mod(poly[k][j] * Exp(w, k - 1)))
                                + IF j = place THEN wm ELSE 0)]
        yp == Convolution(Whole(P, witness.index[1]), s.keys)
        yq == Convolution(Whole(Q, witness.index[2]), s.keys)
        CXR == Mod(Sum(n, LAMBDA i : Mod((IF i % 2 = 1 THEN yp ELSE yq)[(i - 1) \div 2 + 1] * VPow(v, i - 1)))
                   - W(g.y_XG))
        ksk == rnd[3]
        kr == rnd[4]
        kb == rnd[7]
        ktau == rnd[8]
        A_t == Mod(-kb + ScalarMult(H, ktau))
        cc == ReducedHash(<<range.x, Mod(gR * ksk), Mod(G * kr),
                            Mod(kb + Mod(Mod(CnR * r.zs[2]) - Mod(DR * r.zs[1])) * ksk),
                            Mod(CXR * kr), A_t, Mod(UBase * ksk)>>)
        numbers == Mod(witness.transfer * r.zs[1] + witness.balance * r.zs[2])
        o == ReducedHash(<<cc>>)
    IN  [c |-> cc, A_t |-> A_t,
         s_sk |-> Mod(cc * witness.secret + ksk), s_r |-> Mod(cc * witness.r + kr),
         s_b |-> Mod(Mod(numbers * wm) * cc + kb), s_tau |-> Mod(Mod(range.tauX * wm) * cc + ktau),
         ip |-> GenerateInnerProductProof(Gs, Hadamard(Hs, [i \in DOMAIN r.ys |-> ModInverse(r.ys[i])]),
                                          ScalarMult(H, o), range.l, range.r, o)]

\* t = tHat - delta(y, z), committed.
GetAt(proof, w, m) ==
    LET r == RangeChallenges(w)
        xx == ReducedHash(<<r.z, proof.T_1, proof.T_2>>)
        zSum == Mod(Mod(r.zs[1] + r.zs[2]) * r.z)
        k == Mod(Mod(Sum(2 * HalfBits, LAMBDA i : r.ys[i]) * Mod(r.z - r.zs[1]))
                 - Mod(zSum * Exp(2, HalfBits) - zSum))
        tEval == Mod(Mod(proof.T_1 * xx) + Mod(proof.T_2 * Mod(xx * xx)))
    IN  Mod(Mod(Mod(proof.that - k - tEval) * Mod(proof.c * Exp(w, m)))
            + ScalarMult(H, proof.s_tau) - proof.s_b)

GenerateProof(s, witness, txid, burn, rnd) ==
    LET n == Len(s.keys)
        m == Log2(n)
        bits == ProveBits(witness, rnd)
        ix == ProveIndexes(witness.index, m, rnd)
        v == ReducedHash(<<ReducedHash(<<txid>>), bits.BA, bits.BS, ix.A, ix.B>>)
        P == Coefficients(SubSeq(ix.a, 1, m), SubSeq(ix.b, 1, m), m, n)
        Q == Coefficients(SubSeq(ix.a, m + 1, 2 * m), SubSeq(ix.b, m + 1, 2 * m), m, n)
        g == ProveMembers(s, witness, s.fee + burn, P, Q, v, rnd)
        w == HashMash1(g, v)
        r == RangeChallenges(w)
        range == ProveRange(bits, r, rnd)
        k == ProveKnowledge(s, witness, g, P, Q, v, w, r, range, rnd)
        proof == [BA |-> bits.BA, BS |-> bits.BS, A |-> ix.A, B |-> ix.B,
                  u |-> ScalarMult(UBase, witness.secret),
                  f |-> VectorAdd(Times(ix.b, w), ix.a), z_A |-> Mod(rnd[8] * w + rnd[7]),
                  T_1 |-> range.T_1, T_2 |-> range.T_2, that |-> range.that, mu |-> range.mu,
                  c |-> k.c, s_sk |-> k.s_sk, s_r |-> k.s_r, s_b |-> k.s_b, s_tau |-> k.s_tau,
                  ip |-> k.ip, g |-> g]
    IN  IF GetAt(proof, w, m) = k.A_t THEN proof ELSE Unproved

\* Which half of the ring the sender is in, as the proof tells.
Parity(proof) == proof.f[1] = 0

-----------------------------------------------------------------------------
(* The verifier *)

\* The bits of the places are bits, and the lowest ones differ.
VerifyIndexes(proof, w, m) ==
    LET ff == proof.f
        g == [k \in 1..(2 * m) |-> Mod(w - ff[k])]
        temp == Mod(MultiExponentiate(Gs, ff) + MultiExponentiate(Hs, Hadamard(ff, g))
                    + Mod(Hs[2 * m + 1] * Mod(ff[1] * ff[m + 1]))
                    + Mod(Hs[2 * m + 2] * Mod(g[1] * g[m + 1])))
    IN  /\ w \in {ff[1], ff[m + 1]}
        /\ Mod(Mod(proof.B * w) + proof.A) = Mod(temp + ScalarMult(H, proof.z_A))

\* The value at w of the polynomials of all the indexes: a product for each.
AssemblePolynomials(ff, w, from, m) ==
    [j \in 1..2 ^ m |->
        FoldLeft(LAMBDA s, k : Mod(s * IF Bits(j - 1, m)[k] = 1 THEN ff[from + k] ELSE Mod(w - ff[from + k])),
                 1, [k \in 1..m |-> k])]

\* The members of the ring, weighed so that only the sender's and the receiver's count.
VerifyMembers(proof, s, open, v, w, m) ==
    LET n == 2 ^ m
        pp == AssemblePolynomials(proof.f, w, 0, m)
        qq == AssemblePolynomials(proof.f, w, m, m)
        wm == Exp(w, m)
        W(values) == Sum(m, LAMBDA k : Mod(values[k] * Exp(w, k - 1)))
        Weighed(points) ==
            LET cp == Convolution(pp, points)
                cq == Convolution(qq, points)
            IN  [first |-> cp[1],
                 all |-> Sum(n, LAMBDA i : Mod((IF i % 2 = 1 THEN cp ELSE cq)[(i - 1) \div 2 + 1] * VPow(v, i - 1)))]
        CR == Weighed(s.C)
        yR == Weighed(s.keys)
    IN  [CLnR |-> Mod(MultiExponentiate(s.CLn, pp) - W(proof.g.CLnG)),
         CRnR |-> Mod(MultiExponentiate(s.CRn, pp) - W(proof.g.CRnG)),
         CR |-> Mod(CR.first - W(proof.g.C_0G)), DR |-> Mod(s.D * wm - W(proof.g.DG)),
         yR |-> Mod(yR.first - W(proof.g.y_0G)), gR |-> Mod(wm - W(proof.g.gG)),
         C_XR |-> Mod(CR.all - W(proof.g.C_XG) + open * wm),
         y_XR |-> Mod(yR.all - W(proof.g.y_XG))]

\* What the prover knows fits, for the challenge it could not choose.
VerifyKnowledge(proof, s, open, an, w, m) ==
    LET r == RangeChallenges(w)
        xx == ReducedHash(<<r.z, proof.T_1, proof.T_2>>)
        Answer(base, secret, public) == Mod(Mod(base * secret) - Mod(public * proof.c))
        mid == Mod(an.CR + open * Exp(w, m))
        A_b == Mod(proof.s_b + Answer(Mod(Mod(an.CRnR * r.zs[2]) - Mod(an.DR * r.zs[1])), proof.s_sk,
                                      Mod(Mod(an.CLnR * r.zs[2]) - Mod(mid * r.zs[1]))))
    IN  proof.c = ReducedHash(<<xx, Answer(an.gR, proof.s_sk, an.yR), Answer(G, proof.s_r, s.D), A_b,
                                Answer(an.y_XR, proof.s_r, an.C_XR), GetAt(proof, w, m),
                                Answer(UBase, proof.s_sk, proof.u)>>)

\* The committed bits give the polynomials' values that the inner product is about.
VerifyRange(proof, w) ==
    LET r == RangeChallenges(w)
        xx == ReducedHash(<<r.z, proof.T_1, proof.T_2>>)
        o == ReducedHash(<<proof.c>>)
        hPrimes == Hadamard(Hs, [i \in DOMAIN r.ys |-> ModInverse(r.ys[i])])
        sums == VectorAdd(Times(r.ys, r.z), r.twos)
        ux == ScalarMult(H, o)
        point == Mod(proof.BA + Mod(proof.BS * xx) - Mod(Sum(Len(Gs), LAMBDA i : Gs[i]) * r.z)
                     + MultiExponentiate(hPrimes, sums) - Mod(H * proof.mu) + Mod(ux * proof.that))
    IN  VerifyInnerProduct(proof.ip, Gs, hPrimes, ux, point, o)

Verify(proof, s, txid, extra) ==
    LET m == Len(proof.f) \div 2
        v == ReducedHash(<<ReducedHash(<<txid>>), proof.BA, proof.BS, proof.A, proof.B>>)
        w == HashMash1(proof.g, v)
    IN  /\ Len(s.C) = Len(s.keys)
        /\ VerifyIndexes(proof, w, m)
        /\ VerifyKnowledge(proof, s, s.fee + extra, VerifyMembers(proof, s, s.fee + extra, v, w, m), w, m)
        /\ VerifyRange(proof, w)
=============================================================================
