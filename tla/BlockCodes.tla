----------------------------- MODULE BlockCodes -----------------------------
(***************************************************************************)
(* The binary block codes and checksums: BCH(63,16) of the network         *)
(* identifier (bch.go), Golay(23,12) and (24,12) (golay.go, mbe/ecc.go),   *)
(* Hamming(10,6) (hamming.go) and (15,11) (mbe/ecc.go), the CRC-9 of a     *)
(* confirmed data block (crc9.go), and the voice frames they protect       *)
(* (mbe/imbe.go, mbe/ambe3600.go).                                         *)
(*                                                                         *)
(* A word, and a polynomial over GF(2), is the set of the positions of its *)
(* ones: exclusive or is SymDiff and a weight is a cardinality.            *)
(***************************************************************************)
EXTENDS ReedSolomon, FiniteSets, Sequences, Functions

Shift(word, n) == {i + n : i \in word}

\* word with position i, if it is a one, cleared by a multiple of gen, whose degree is deg.
ReducedAt(word, gen, deg, i) ==
    IF i \in word THEN SymDiff(word, Shift(gen, i - deg)) ELSE word

\* What is left of word once n positions, from first down, have been.
Reduced(word, gen, deg, first, n) ==
    LET left[k \in 0..n] == IF k = 0 THEN word ELSE ReducedAt(left[k-1], gen, deg, first + 1 - k)
    IN  left[n]

\* What is left of word after dividing by gen from position top down; in two halves, so that
\* TLC's recursion stays shallow.
Reduce(word, gen, deg, top) ==
    LET half  == (top + 1 - deg) \div 2
        upper == Reduced(word, gen, deg, top, half)
    IN  IF upper = {} THEN {} ELSE Reduced(upper, gen, deg, top - half, top + 1 - deg - half)

OddWeight(word) == Cardinality(word) % 2 = 1

\* The exclusive or of the rows, of that many bits, that the ones choose.
XorOf(rows, width, ones) == {b \in 0..width-1 : OddWeight({i \in ones : b \in rows[i]})}

-----------------------------------------------------------------------------
(* The network identifier.                                                 *)

\* The cyclotomic cosets of alpha^1 to alpha^22.
Cosets == {{1, 2, 4, 8, 16, 32}, {3, 6, 12, 24, 48, 33}, {5, 10, 20, 40, 17, 34},
           {7, 14, 28, 56, 49, 35}, {9, 18, 36}, {11, 22, 44, 25, 50, 37},
           {13, 26, 52, 41, 19, 38}, {15, 30, 60, 57, 51, 39}, {21, 42}}

minPoly(coset) == LET p == RootPoly(coset) IN {i \in DOMAIN p : p[i] = 1}

gf2PolyMul(a, b) == FoldSet(LAMBDA i, acc : SymDiff(Shift(a, i), acc), {}, b)

genPoly == FoldSet(LAMBDA coset, acc : gf2PolyMul(acc, minPoly(coset)), {0}, Cosets)

\* 16 bits of message, 47 of remainder, and a bit that makes the weight even.
bchEncode(msg) ==
    LET cw   == Shift(msg, 47)
        full == cw \cup Reduce(cw, genPoly, 47, 62)
    IN  Shift(full, 1) \cup (IF OddWeight(full) THEN {0} ELSE {})

BitsOf(n, width) == {i \in 0..width-1 : Bit(n, i) = 1}

validDUIDs == {0, 3, 5, 7, 10, 12, 15}

\* A valid identifier as sent.
NIDWord(nid) == bchEncode(BitsOf(nid.nac * 16 + nid.duid, 16))

NIDs(nacs) == [nac : nacs, duid : validDUIDs]

\* The nearest of the words, of which it is one.
NearestNID(received, nids, words) ==
    CHOOSE nid \in nids : \A other \in nids :
        Cardinality(SymDiff(received, words[nid])) <= Cardinality(SymDiff(received, words[other]))

CorrectsTo == 11   \* bit errors

DecodesTo(received, nid, words) ==
    Cardinality(SymDiff(received, words[nid])) <= CorrectsTo

\* Every valid identifier is tried; nacs stands for the 4096 of the code.
decodeNID(received, words) ==
    LET nid == NearestNID(received, DOMAIN words, words)
    IN  IF DecodesTo(received, nid, words) THEN [ok |-> TRUE, nid |-> nid] ELSE NotDecoded

\* Those of the hinted NAC first.
decodeNIDWithHintDist(received, hint, words) ==
    LET nid == NearestNID(received, {n \in DOMAIN words : n.nac = hint}, words)
    IN  IF DecodesTo(received, nid, words) THEN [ok |-> TRUE, nid |-> nid]
        ELSE decodeNID(received, words)

-----------------------------------------------------------------------------
(* Golay.                                                                  *)

golayPoly == {11, 10, 6, 5, 4, 2, 0}

golaySyndrome(received) == Reduce(received, golayPoly, 11, 22)

golayEncode(msg) ==
    LET shifted == Shift(msg, 11)
    IN  shifted \cup Reduce(shifted, golayPoly, 11, 22)

\* Every pattern of up to three errors, by syndrome: enumErrors, and the table.
ErrorEntry(pattern) == [syndrome |-> golaySyndrome(pattern), pattern |-> pattern]

golayTable == {ErrorEntry({at[1], at[2], at[3]}) : at \in [1..3 -> 0..22]}

\* The code is perfect: every syndrome but none is that of just one such pattern
\* (golay.go:12).
ASSUME GolayPerfect ==
    /\ {e.syndrome : e \in golayTable} = (SUBSET (0..10)) \ {{}}
    /\ \A d, e \in golayTable : d.syndrome = e.syndrome => d = e

DataOf(word) == {i - 11 : i \in {j \in word : j >= 11}}

golayDecode(received) ==
    LET s == golaySyndrome(received)
        pattern == (CHOOSE e \in golayTable : e.syndrome = s).pattern
    IN  IF s = {} THEN [ok |-> TRUE, data |-> DataOf(received), nerr |-> 0]
        ELSE [ok |-> TRUE, data |-> DataOf(SymDiff(received, pattern)),
              nerr |-> Cardinality(pattern)]

\* The parity bit, in position 0, is dropped.
Golay24Decode(received) == golayDecode({i - 1 : i \in received \ {0}})

\* What the parity bit tells of a word the perfect code cannot refuse.
Golay24DetectUncorrectable(received) ==
    LET rx23    == {i - 1 : i \in received \ {0}}
        clean23 == golayEncode(golayDecode(rx23).data)
    IN  Cardinality(SymDiff(rx23, clean23))
          + (IF OddWeight(clean23) # (0 \in received) THEN 1 ELSE 0) >= 4

\* What mbe keeps of that table: the data bits to turn, by syndrome.
golayMatrix(s) == UNION {DataOf(e.pattern) : e \in {d \in golayTable : d.syndrome = s}}

\* mbe.Golay2312 corrects the twelve data bits and leaves the others as received;
\* it counts the data bits it changed.
Golay2312(in) ==
    LET data == SymDiff(DataOf(in), golayMatrix(golaySyndrome(in)))
    IN  [out |-> Shift(data, 11) \cup {i \in in : i < 11},
         nerr |-> Cardinality(SymDiff(data, DataOf(in)))]

-----------------------------------------------------------------------------
(* Hamming.                                                                *)

\* The parity of each data bit, 12, 3, 7, 11, 13 and 14: hmg1063EncTbl is the sum of these.
ParityRow == [i \in 0..5 |->
                <<{3, 2}, {1, 0}, {2, 1, 0}, {3, 1, 0}, {3, 2, 0}, {3, 2, 1}>>[i + 1]]

hamming1063Encode(data) == XorOf(ParityRow, 4, data)

\* The data bit whose row is the syndrome, if one is, is turned.
hamming1063Decode(data, parity) ==
    LET s == SymDiff(hamming1063Encode(data), parity)
    IN  SymDiff(data, {i \in 0..5 : ParityRow[i] = s})

\* 0x7f08, 0x78e4, 0x66d2 and 0x55b1.
hammingGenerator == <<{14, 13, 12, 11, 10, 9, 8, 3}, {14, 13, 12, 11, 7, 6, 5, 2},
                      {14, 13, 10, 9, 7, 6, 4, 1}, {14, 12, 10, 8, 7, 5, 4, 0}>>

HammingSyndrome(word) == {g \in 1..4 : OddWeight(word \cap hammingGenerator[g])}

\* hammingMatrix: every syndrome but none is that of one position.
Hamming1511(in) ==
    LET s == HammingSyndrome(in)
    IN  [out  |-> SymDiff(in, {p \in 0..14 : s # {} /\ HammingSyndrome({p}) = s}),
         nerr |-> IF s = {} THEN 0 ELSE 1]

-----------------------------------------------------------------------------
(* Where the 24 hexbits of a link control or encryption sync are in a logical *)
(* data unit; status symbols are the last dibit of every 36.                  *)

Span(first, last) == [i \in 1..last-first+1 |-> first + i - 1]

lduLCBitPositions ==
    Span(410, 429) \o Span(432, 451) \o Span(600, 639) \o Span(788, 789) \o Span(792, 829)
      \o Span(978, 1005) \o Span(1008, 1019) \o Span(1168, 1207) \o Span(1356, 1365)
      \o Span(1368, 1397)

FullFrameOffset == 114   \* of the payload, in bits

\* Bit b, from the left, of hexbit h's ten.
PayloadBit(h, b) == lduLCBitPositions[h * 10 + b + 1] - FullFrameOffset

\* payload: the positions of its ones; dibits: how long it is.
extractLDUHexbits(payload, dibits) ==
    LET ten(h) == {9 - b : b \in {c \in 0..9 : PayloadBit(h, c) \in payload}}
        six(h) == hamming1063Decode({i - 4 : i \in {j \in ten(h) : j >= 4}},
                                    {j \in ten(h) : j < 4})
    IN  IF \E h \in 0..23, b \in 0..9 : PayloadBit(h, b) \div 2 >= dibits THEN NotDecoded
        ELSE [ok |-> TRUE, hb |-> Table([h \in 0..23 |-> MapThenSumSet(LAMBDA i : 2^i, six(h))])]

-----------------------------------------------------------------------------
(* CRC-9.                                                                  *)

\* The entry before: one more step of the division, and the all-ones start.
crc9Before(entry) == ReducedAt(SymDiff(Shift(entry, 1), {6, 4, 3}), {9, 6, 4, 3, 0}, 9, 9)

crc9Checksums ==
    LET from[i \in 0..134] ==
            IF i = 134 THEN {8, 7, 5, 2, 1}
            ELSE LET next == from[i + 1] IN CASE next \subseteq 0..8 -> crc9Before(next)
    IN  Table(from)

\* A bit that counts in the checksum changes some bits of it, and not all.
ASSUME CRC9Entries ==
    \A i \in 0..134 : crc9Checksums[i] \subseteq 0..8 /\ crc9Checksums[i] \notin {{}, 0..8}

\* The serial number is bits 0 to 6, the checksum 7 to 15, the data 16 to 143.
checkCRC9(block) ==
    LET calc == XorOf(crc9Checksums, 9, {IF i < 7 THEN i ELSE i - 9 : i \in block \ 7..15})
        residual == SymDiff(calc, {15 - i : i \in block \cap 7..15})
    IN  residual \in {{}, 0..8}

-----------------------------------------------------------------------------
(* Voice frames: rows of bits, of which the first seeds a sequence that     *)
(* scrambles the ones after it.                                             *)

\* pr[k] / 32768, for k in 1..n.
PseudoRandom(seed, n) ==
    LET pr[k \in 0..n] == IF k = 0 THEN (16 * seed) % 65536
                          ELSE (173 * pr[k-1] + 13849) % 65536
    IN  {k \in 1..n : pr[k] >= 32768}

SeedOf(data) == MapThenSumSet(LAMBDA i : 2^i, data)

\* The part of the sequence that falls on a row of the given width, from the left.
OnRow(ones, first, width) == {width - 1 - k : k \in {j \in 0..width-1 : first + j \in ones}}

\* Rows 0 to 3 are Golay words, 4 to 6 Hamming words, 7 is not protected.
IMBERowStart == [i \in 1..6 |-> IF i < 4 THEN 1 + 23 * (i - 1) ELSE 70 + 15 * (i - 4)]

demodulateImbe7200x4400Data(fr) ==
    LET ones == PseudoRandom(SeedOf(DataOf(fr[0])), 114)
    IN  [i \in 0..7 |-> IF i \in {0, 7} THEN fr[i]
                        ELSE SymDiff(fr[i], OnRow(ones, IMBERowStart[i], IF i < 4 THEN 23 ELSE 15))]

IMBEFECDecode(fr) ==
    LET c0   == Golay2312(fr[0])
        rows == Table(demodulateImbe7200x4400Data([fr EXCEPT ![0] = c0.out]))
        code == [i \in 1..6 |-> IF i < 4 THEN Golay2312(rows[i]) ELSE Hamming1511(rows[i])]
    IN  [data |-> [i \in 0..7 |-> IF i = 0 THEN DataOf(c0.out)
                                  ELSE IF i < 4 THEN DataOf(code[i].out)
                                  ELSE IF i < 7 THEN {j - 4 : j \in {b \in code[i].out : b >= 4}}
                                  ELSE rows[7]],
         errs |-> c0.nerr + SumFunction([i \in 1..6 |-> code[i].nerr])]

\* Rows 0 and 1 are Golay words, the first with a parity bit that is not looked
\* at, 2 and 3 are not protected.
demodulateAmbe3600x2450Data(fr) ==
    [fr EXCEPT ![1] = SymDiff(@, OnRow(PseudoRandom(SeedOf(DataOf({i - 1 : i \in fr[0] \ {0}})),
                                                    23), 1, 23))]

ProcessAMBE3600x2450Frame(fr) ==
    LET c0   == Golay2312({i - 1 : i \in fr[0] \ {0}})
        rows == demodulateAmbe3600x2450Data([fr EXCEPT ![0] = Shift(c0.out, 1)])
        c1   == Golay2312(rows[1])
    IN  [data |-> <<DataOf(c0.out), DataOf(c1.out), rows[2], rows[3]>>,
         errs |-> c0.nerr, errs2 |-> c0.nerr + c1.nerr]
=============================================================================
