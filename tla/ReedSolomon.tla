---------------------------- MODULE ReedSolomon ----------------------------
(***************************************************************************)
(* The Reed-Solomon codes of rs.go over GF(2^M), whose tables bch.go       *)
(* builds.  A polynomial or word is a function from 0..len-1 to the field, *)
(* the value at i being the coefficient of x^i, as in the code.            *)
(*                                                                         *)
(* The source has the field order 63 written out and repeats the decoder   *)
(* four times; here the field is a parameter and the four share the        *)
(* operators of the stages, each with its own entry, checks and result.    *)
(* A loop is a recursive function, whose value at k is what there is after *)
(* k of its steps.                                                         *)
(***************************************************************************)
EXTENDS Integers, FiniteSetsExt, TLC

CONSTANTS M,          \* the field is GF(2^M); 6 in the code
          Primitive   \* its primitive polynomial, as bits; 0x43 in the code

Ord   == 2^M - 1
Field == 0..Ord

ASSUME FieldParams == M \in Nat \ {0, 1} /\ Primitive \in 2^M .. 2^(M+1) - 1

Bit(a, i) == (a \div 2^i) % 2

Plus == [a \in Field |-> [b \in Field |->
           MapThenSumSet(LAMBDA i : 2^i, {i \in 0..M-1 : Bit(a, i) # Bit(b, i)})]]

\* x <<= 1, reduced.
Twice == [a \in Field |-> IF 2*a > Ord THEN Plus[2*a - 2^M][Primitive - 2^M] ELSE 2*a]

gfExp == [i \in 0..Ord |-> FoldSet(LAMBDA step, x : Twice[x], 1, 1..i)]

gfLog == [a \in 1..Ord |-> CHOOSE i \in 0..Ord-1 : gfExp[i] = a]

gfMul(a, b) == IF a = 0 \/ b = 0 THEN 0 ELSE gfExp[(gfLog[a] + gfLog[b]) % Ord]

gfInv(a) == IF a = 0 THEN 0 ELSE gfExp[(Ord - gfLog[a]) % Ord]

\* alpha^i, and alpha^-i as the Chien search and Forney compute it.
AlphaTo(i)   == gfExp[i % Ord]
AlphaInvTo(i) == gfExp[(Ord - (i % Ord)) % Ord]

-----------------------------------------------------------------------------
(* Polynomials.                                                            *)

\* f itself: to compare it TLC evaluates it, once, and not at each of its applications.
Table(f) == IF f = f THEN f ELSE <<>>

Degree(p)   == Max(DOMAIN p)
Coeff(p, i) == IF i \in DOMAIN p THEN p[i] ELSE 0
One         == [i \in {0} |-> 1]

XorSum(f, n) ==
    LET sum[i \in 0..n] == IF i = 0 THEN 0 ELSE Plus[f[i-1]][sum[i-1]]
    IN  sum[n]

\* p at x, where x is not zero.
Eval(p, x) == XorSum([i \in DOMAIN p |-> gfMul(p[i], AlphaTo(i * gfLog[x]))], Degree(p) + 1)

\* The product of (x - alpha^e) for e in exps.
RootPoly(exps) ==
    FoldSet(LAMBDA e, g : Table([i \in 0..Degree(g)+1 |->
                Plus[Coeff(g, i-1)][gfMul(Coeff(g, i), AlphaTo(e))]]), One, exps)

\* rsGenPoly, rsHDUGenPoly and gen.
GenPoly(parity) == RootPoly(1..parity)

\* word with position i divided out.
DividedAt(word, gen, i) ==
    Table([j \in DOMAIN word |->
        Plus[word[j]][gfMul(word[i], Coeff(gen, j - (i - Degree(gen))))]])

\* What is left of word once all positions from the degree of gen have been.
Remainder(word, gen) ==
    LET steps == Degree(word) + 1 - Degree(gen)
        left[k \in 0..steps] ==
            IF k = 0 THEN word ELSE DividedAt(left[k-1], gen, Degree(word) + 1 - k)
    IN  left[steps]

\* Message symbols in the high positions, the remainder in the low ones.
Systematic(n, k, msg) ==
    LET rem == Remainder(Table([i \in 0..n-1 |-> IF i < n-k THEN 0 ELSE msg[i]]), GenPoly(n-k))
    IN  Table([i \in 0..n-1 |-> IF i < n-k THEN rem[i] ELSE msg[i]])

-----------------------------------------------------------------------------
(* The stages of a decoder.                                                *)

Syndromes(n, twoT, r) ==
    Table([j \in 0..twoT-1 |-> Eval([i \in 0..n-1 |-> r[i]], AlphaTo(j + 1))])

AllZero(s) == \A j \in DOMAIN s : s[j] = 0

\* For comparison: as if nothing were known beforehand.
LengthensUnerased(len, nn, nu) == 2 * len <= nn

\* Whether a discrepancy at step nn makes the locator longer.
Lengthens(len, nn, nu) == 2 * len <= nn + nu

\* A step of Berlekamp-Massey.  st.loc is the locator, st.b the last one
\* to fail, scaled and shifted, st.len the number of roots it should have; nu is
\* how many positions were known beforehand.
Discrepancy(st, syn, nn) ==
    XorSum([i \in 0..nn |-> gfMul(Coeff(st.loc, i), syn[nn-i])], nn + 1)

Shifted(p) == Table([i \in 0..Degree(p)+1 |-> Coeff(p, i-1)])

\* p + d*b, d times b having been shifted.
Amended(p, d, b) ==
    Table([i \in DOMAIN p \cup DOMAIN b |-> Plus[Coeff(p, i)][gfMul(d, Coeff(b, i))]])

\* The step after a discrepancy d; b is st.b, shifted.
Advance(st, d, b, nu, nn) ==
    IF d = 0 THEN [st EXCEPT !.b = b]
    ELSE IF Lengthens(st.len, nn, nu)
    THEN [loc |-> Amended(st.loc, d, b), len |-> nn + 1 + nu - st.len,
          b |-> Table([i \in DOMAIN st.loc |-> gfMul(st.loc[i], gfInv(d))])]
    ELSE [st EXCEPT !.loc = Amended(@, d, b), !.b = b]

Iterate(st, syn, nu, nn) == Advance(st, Discrepancy(st, syn, nn), Shifted(st.b), nu, nn)

BerlekampMassey(st, syn, nu) ==
    LET end == Max({nu, Degree(syn) + 1})
        before[nn \in nu..end] ==
            IF nn = nu THEN st ELSE Iterate(before[nn-1], syn, nu, nn - 1)
    IN  before[end]

\* The positions of 0..n-1 whose inverse is a root of the locator.
Chien(n, loc) == {i \in 0..n-1 : Eval(loc, AlphaInvTo(i)) = 0}

\* (S * loc) mod x^2t, and the formal derivative: its odd terms, one place down.
Omega(syn, loc) ==
    Table([i \in DOMAIN syn |-> XorSum([j \in 0..i |-> gfMul(syn[i-j], Coeff(loc, j))], i + 1)])
Derivative(loc) == Table([i \in DOMAIN loc |-> IF i % 2 = 0 THEN Coeff(loc, i+1) ELSE 0])

NotDecoded == [ok |-> FALSE]

Magnitude(omega, deriv, x) == gfMul(Eval(omega, x), gfInv(Eval(deriv, x)))

\* A word is accepted only if it has no syndrome.
IfCodeword(n, twoT, word, nerr) ==
    IF AllZero(Syndromes(n, twoT, word)) THEN [ok |-> TRUE, word |-> word, nerr |-> nerr]
    ELSE NotDecoded

\* Correct the positions found.
ForneyWith(n, r, twoT, omega, deriv, positions, nerr) ==
    IF \E i \in positions : Eval(deriv, AlphaInvTo(i)) = 0 THEN NotDecoded
    ELSE IfCodeword(n, twoT,
             Table([i \in 0..n-1 |->
                 IF i \in positions THEN Plus[r[i]][Magnitude(omega, deriv, AlphaInvTo(i))]
                 ELSE r[i]]), nerr)

Forney(n, r, syn, loc, positions, nerr) ==
    ForneyWith(n, r, Degree(syn) + 1, Omega(syn, loc), Derivative(loc), positions, nerr)

-----------------------------------------------------------------------------
(* The decoders and encoders.                                              *)

\* As many roots as the locator should have, and those the errors.
IfAllFound(n, r, syn, st, positions, nerr) ==
    IF Cardinality(positions) # st.len THEN NotDecoded
    ELSE Forney(n, r, syn, st.loc, positions, nerr)

\* Errors only: at most t of them, in unknown places.
WithErrors(n, t, r, syn, st) ==
    IF st.len > t THEN NotDecoded ELSE IfAllFound(n, r, syn, st, Chien(n, st.loc), st.len)

ErrorsFrom(n, t, r, syn) ==
    IF AllZero(syn) THEN [ok |-> TRUE, word |-> r, nerr |-> 0]
    ELSE WithErrors(n, t, r, syn,
             BerlekampMassey([loc |-> One, b |-> One, len |-> 0], syn, 0))

rsDecodeGenericN(n, k, t, r) == ErrorsFrom(n, t, r, Syndromes(n, 2 * t, r))

\* The product of (1 + alpha^p x) for p in the erased positions.
ErasureLocator(erased) ==
    FoldSet(LAMBDA p, g : Table([i \in 0..Degree(g)+1 |->
                Plus[Coeff(g, i)][gfMul(Coeff(g, i-1), AlphaTo(p))]]), One, erased)

\* What the parity pays for: two for an error, one for an erasure.
WithinBudget(nerr, nu, twoT) == nerr >= 0 /\ 2 * nerr + nu <= twoT

\* Errors and erasures: Berlekamp-Massey starts from the erasure locator.
WithErasures(n, twoT, nu, r, syn, st) ==
    IF ~WithinBudget(st.len - nu, nu, twoT) THEN NotDecoded
    ELSE IfAllFound(n, r, syn, st, Chien(n, st.loc), st.len - nu)

ErasuresFrom(n, twoT, nu, r, syn, gamma) ==
    IF nu = 0 /\ AllZero(syn) THEN [ok |-> TRUE, word |-> r, nerr |-> 0]
    ELSE WithErasures(n, twoT, nu, r, syn,
             BerlekampMassey([loc |-> gamma, b |-> gamma, len |-> nu], syn, nu))

RSDecodeWithErasures(n, k, r, erasures) ==
    LET twoT   == 2 * ((n - k) \div 2)
        erased == erasures \cap 0..n-1
    IN  ErasuresFrom(n, twoT, Cardinality(erased), r, Syndromes(n, twoT, r), ErasureLocator(erased))

\* The k data symbols, the highest coefficient first.
DataSymbols(n, k, d) ==
    IF d.ok THEN [ok |-> TRUE, data |-> Table([i \in 0..k-1 |-> d.word[n-1-i]])] ELSE d

rsDecodeGeneric(n, k, t, r) == DataSymbols(n, k, rsDecodeGenericN(n, k, t, r))

rsEncodeGeneric(n, k, data) ==
    Systematic(n, k, [i \in 0..n-1 |-> IF i >= n-k THEN data[n-1-i] ELSE 0])

rsDecode(r)       == rsDecodeGeneric(24, 12, 6, r)
rsEncode(data)    == rsEncodeGeneric(24, 12, data)
rsDecodeHDU(r)    == rsDecodeGeneric(36, 20, 8, r)
rsEncodeHDU(data) == rsEncodeGeneric(36, 20, data)

\* A shortened code: the symbols sent, in reverse, are the low coefficients of a
\* codeword of full length, and the rest of it is known to be zero.  A decoder
\* that put a correction there has decoded something else.
PaddingAny(word, sent) == TRUE   \* for comparison: it is not looked at

PaddingClean(word, sent) == \A i \in sent..Ord-1 : word[i] = 0

Unshortened(d, sent) ==
    IF d.ok /\ PaddingClean(d.word, sent)
    THEN [ok |-> TRUE, word |-> [i \in 0..sent-1 |-> d.word[sent-1-i]], nerr |-> d.nerr]
    ELSE NotDecoded

rsDecode63(hb, parity, sent) ==
    LET cw == Table([i \in 0..Ord-1 |-> IF i < sent THEN hb[sent-1-i] ELSE 0])
    IN  Unshortened(rsDecodeGenericN(Ord, Ord - parity, parity \div 2, cw), sent)

rsEncode63(hb, parity, sent) ==
    LET cw == Systematic(Ord, Ord - parity,
                [i \in 0..Ord-1 |-> IF i \in parity..sent-1 THEN hb[sent-1-i] ELSE 0])
    IN  [i \in 0..sent-1 |-> cw[sent-1-i]]

\* The full length code of the Phase 2 signalling.
RSEncode63x35(cw) == Systematic(63, 35, cw)
=============================================================================
