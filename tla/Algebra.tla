------------------------------ MODULE Algebra -------------------------------
(***************************************************************************)
(* The algebra under the private balances and their proofs.  A point of    *)
(* the curve is written as its discrete logarithm to the base G, so that   *)
(* adding points and multiplying them by scalars is arithmetic modulo the  *)
(* order of the group; G is 1.  Vectors of scalars and vectors of points   *)
(* then have the same operations.                                          *)
(***************************************************************************)
EXTENDS Integers, Sequences, SequencesExt

CONSTANTS
    Order,          \* the prime order of the group
    Unity,          \* a primitive root of unity of order UnityOrder modulo Order
    UnityOrder      \* a power of two

G == 1
Mod(n) == n % Order
ScalarMult(point, k) == Mod(point * k)

RECURSIVE Exp(_, _)
Exp(n, k) ==
    LET half == Exp(n, k \div 2)
    IN  IF k = 0 THEN 1 ELSE Mod(Mod(half * half) * IF k % 2 = 1 THEN n ELSE 1)
ModInverse(n) == Exp(n, Order - 2)

\* A hash of points and scalars, never zero: a value that follows from all of them.
ReducedHash(input) == 1 + FoldLeft(LAMBDA s, n : (5 * s + 3 * n + 7) % (Order - 1), 1, input)

-----------------------------------------------------------------------------
(* Vectors *)

Slice(v, start, end) == SubSeq(v, start + 1, end)
Flip(v) == [i \in DOMAIN v |-> v[((Len(v) - (i - 1)) % Len(v)) + 1]]
VectorAdd(v, w) == [i \in DOMAIN v |-> Mod(v[i] + w[i])]
Hadamard(v, w) == [i \in DOMAIN v |-> Mod(v[i] * w[i])]
InnerProduct(v, w) == FoldLeft(LAMBDA s, n : Mod(s + n), 0, Hadamard(v, w))
Negate(v) == [i \in DOMAIN v |-> Mod(-v[i])]
Times(v, k) == [i \in DOMAIN v |-> Mod(v[i] * k)]
Extract(v, odd) == [i \in 1..(Len(v) \div 2) |-> v[IF odd THEN 2 * i ELSE 2 * i - 1]]

\* The sum of the points, each times its scalar.
MultiExponentiate(points, scalars) ==
    FoldLeft(LAMBDA s, i : Mod(s + ScalarMult(points[i], scalars[i])), 0,
             [i \in DOMAIN scalars |-> i])

-----------------------------------------------------------------------------
(* The number-theoretic transform and what it is for *)

RECURSIVE Fft(_, _)

\* The butterfly takes the odd half with the powers of the root for this length.
Fft(v, inverse) ==
    LET n == Len(v)
        root == Exp(Unity, UnityOrder \div n)
        omega == IF inverse THEN ModInverse(root) ELSE root
        omegas == [i \in 1..(n \div 2) |-> Exp(omega, i - 1)]
        even == Fft(Extract(v, FALSE), inverse)
        turned == Hadamard(Fft(Extract(v, TRUE), inverse), omegas)
        both == VectorAdd(even, turned) \o VectorAdd(even, Negate(turned))
    IN  IF n = 1 THEN v ELSE IF inverse THEN Times(both, ModInverse(2)) ELSE both

\* The exponents against every second rotation of the bases.
Convolution(exponent, base) ==
    LET n == Len(base)
        temp == Hadamard(Fft(base, FALSE), Fft(Flip(exponent), FALSE))
        halves == VectorAdd(Slice(temp, 0, n \div 2), Slice(temp, n \div 2, n))
    IN  Fft(Times(halves, ModInverse(2)), TRUE)

-----------------------------------------------------------------------------
(* Polynomials: sequences of coefficients, the constant one first *)

\* Times a polynomial of degree one whose leading coefficient is 0 or 1.
PolynomialMul(p, m) ==
    LET product == Times(p, m[1]) \o <<0>>
    IN  IF m[2] = 1
        THEN [i \in DOMAIN product |-> IF i = 1 THEN product[1] ELSE Mod(product[i] + p[i - 1])]
        ELSE product

RECURSIVE RecursivePolynomials(_, _, _)

\* One polynomial for each index of a ring: the product, over the bits of the index, of the
\* factor for a zero or for a one.
RecursivePolynomials(accum, va, vb) ==
    IF va = <<>> THEN <<accum>>
    ELSE LET left == <<Mod(-Last(va)), Mod(1 - Last(vb))>>
             right == <<Last(va), Last(vb)>>
         IN  RecursivePolynomials(PolynomialMul(accum, left), Front(va), Front(vb))
             \o RecursivePolynomials(PolynomialMul(accum, right), Front(va), Front(vb))

-----------------------------------------------------------------------------
(* ElGamal: [left |-> value.G + r.key, right |-> r.G] *)

CommitElGamal(key, value, r) ==
    [left |-> Mod(ScalarMult(G, value) + ScalarMult(key, r)), right |-> ScalarMult(G, r)]
ElGamalAdd(v, w) == [left |-> Mod(v.left + w.left), right |-> Mod(v.right + w.right)]
ElGamalMul(v, k) == [left |-> ScalarMult(v.left, k), right |-> ScalarMult(v.right, k)]
ElGamalPlus(v, n) == [v EXCEPT !.left = Mod(@ + ScalarMult(G, n))]
ElGamalNeg(v) == [left |-> Mod(-v.left), right |-> Mod(-v.right)]

\* The balance of a new account.
EmptyBalance(key) == [left |-> key, right |-> G]

-----------------------------------------------------------------------------
(* Reading a balance: a table of the first multiples of G, kept by a few bytes of each *)

\* prefixes: the bytes of a point that the tables keep.
CreateLookupTable(count, size, prefixes) ==
    [i \in 1..count |->
        SortSeq([j \in 1..size |-> [prefix |-> prefixes[Mod((i - 1) * size + j - 1)], part |-> j - 1]],
                LAMBDA v, w : v.prefix < w.prefix \/ (v.prefix = w.prefix /\ v.part < w.part))]

\* The entries of a table that may be a point, in the order they are tried: from the first
\* that is not smaller, as long as the prefix is the same.
Candidates(table, prefix) ==
    LET from == {j \in DOMAIN table : table[j].prefix >= prefix}
        index == CHOOSE j \in from : \A k \in from : j <= k
        beyond == {j \in from : table[j].prefix # prefix}
        stop == IF beyond = {} THEN Len(table) + 1 ELSE CHOOSE j \in beyond : \A k \in beyond : j <= k
    IN  IF from = {} THEN {} ELSE {table[j].part : j \in index..(stop - 1)}

\* Entries that keep the same bytes are told apart by the point itself.
IsBalance(point, value) == ScalarMult(G, value) = point

RECURSIVE LookupFrom(_, _, _, _)

\* The n-th look, at a table after the other; after the last one the size of them all is
\* taken off the point.  An entry is checked against the whole point.
LookupFrom(n, tables, point, prefixes) ==
    LET size == Len(tables[1])
        copy == Mod(point - (n \div Len(tables)) * size * Len(tables))
        found == {k \in Candidates(tables[(n % Len(tables)) + 1], prefixes[copy]) :
                    IsBalance(point, n * size + k)}
    IN  IF found = {} THEN LookupFrom(n + 1, tables, point, prefixes)
        ELSE n * size + CHOOSE k \in found : TRUE

Lookup(tables, point, prefixes) == LookupFrom(0, tables, point, prefixes)

TryDecryptBalance(point, match) == ScalarMult(G, match) = point

\* The owner's key takes the randomness away; the value it had last time is tried first.
DecryptBalance(balance, private, previous, tables, prefixes) ==
    LET point == Mod(balance.left - ScalarMult(balance.right, private))
    IN  IF TryDecryptBalance(point, previous) THEN previous ELSE Lookup(tables, point, prefixes)

-----------------------------------------------------------------------------
(* The inner product argument *)

RECURSIVE GenerateInnerProductProof(_, _, _, _, _, _)

\* Each round halves the vectors and leaves a pair of points behind.
GenerateInnerProductProof(gs, hs, u, as, bs, prev) ==
    LET n == Len(as)
        Left(v) == Slice(v, 0, n \div 2)
        Right(v) == Slice(v, n \div 2, n)
        L == Mod(MultiExponentiate(Right(gs), Left(as)) + MultiExponentiate(Left(hs), Right(bs))
                 + ScalarMult(u, InnerProduct(Left(as), Right(bs))))
        R == Mod(MultiExponentiate(Left(gs), Right(as)) + MultiExponentiate(Right(hs), Left(bs))
                 + ScalarMult(u, InnerProduct(Right(as), Left(bs))))
        z == ReducedHash(<<prev, L, R>>)
        Folded(v, k) == VectorAdd(Times(Left(v), k), Times(Right(v), ModInverse(k)))
        rest == GenerateInnerProductProof(Folded(gs, ModInverse(z)), Folded(hs, z), u,
                                          Folded(as, z), Folded(bs, ModInverse(z)), z)
    IN  IF n = 1 THEN [ls |-> <<>>, rs |-> <<>>, a |-> as[1], b |-> bs[1]]
        ELSE [rest EXCEPT !.ls = <<L>> \o @, !.rs = <<R>> \o @]

\* Exponent i is the product of the challenges, each to the power 1 or -1 after the bits of i.
VerifyExponents(challenges) ==
    LET log == Len(challenges)
        n == 2 ^ log
        first == ModInverse(FoldLeft(LAMBDA s, z : Mod(s * z), 1, challenges))
        \* the entries are filled from the ones below, the first writer of each wins
        Step(exps, i) ==
            FoldLeft(LAMBDA s, j :
                LET i1 == 2 ^ j + i
                IN  IF i1 >= n \/ s[i1] # 0 THEN s
                    ELSE [s EXCEPT ![i1] = Mod(s[i] * Mod(challenges[log - j] * challenges[log - j]))],
                exps, [j \in 1..log |-> j - 1])
    IN  FoldLeft(Step, [i \in 0..(n - 1) |-> IF i = 0 THEN first ELSE 0],
                 [i \in 1..(n \div 2) |-> i - 1])

\* The verifier folds the commitment by the challenges and compares.
VerifyInnerProduct(ip, gs, hs, u, commitment, salt) ==
    LET n == 2 ^ Len(ip.ls)
        challenges == FoldLeft(LAMBDA s, i : Append(s, ReducedHash(<<IF s = <<>> THEN salt ELSE Last(s),
                                                                     ip.ls[i], ip.rs[i]>>)),
                               <<>>, [i \in DOMAIN ip.ls |-> i])
        Folded == FoldLeft(LAMBDA s, i :
                      LET z == challenges[i]
                          inv == ModInverse(z)
                      IN  Mod(s + ScalarMult(ip.ls[i], Mod(z * z)) + ScalarMult(ip.rs[i], Mod(inv * inv))),
                      commitment, [i \in DOMAIN challenges |-> i])
        exps == VerifyExponents(challenges)
        gtemp == MultiExponentiate(gs, [i \in 1..n |-> exps[i - 1]])
        htemp == MultiExponentiate(hs, [i \in 1..n |-> exps[n - i]])
    IN  /\ Len(ip.ls) = Len(ip.rs)
        /\ Folded = Mod(ScalarMult(gtemp, ip.a) + ScalarMult(htemp, ip.b)
                        + ScalarMult(u, Mod(ip.a * ip.b)))
=============================================================================
