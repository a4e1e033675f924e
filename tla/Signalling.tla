----------------------------- MODULE Signalling -----------------------------
(***************************************************************************)
(* What is sent along with voice, from the bits of a burst or data unit to *)
(* the fields: the link control and encryption sync of Phase 1 (frame.go,  *)
(* control.go), the ACCH, MAC messages, ESS and voice codewords of Phase 2 *)
(* (phase2/acch.go, ess.go, voice.go), and the ADP keystream's offsets     *)
(* (adp.go).  Dibits are a function from 0, each 0..3; bytes a sequence.   *)
(***************************************************************************)
EXTENDS BlockCodes, SequencesExt

BytesOf(bits, n) ==   \* bits, 1..8*n to 0..1, packed from the left
    [b \in 1..n |-> SumFunction([i \in 0..7 |-> bits[8 * b - 7 + i] * 2^(7 - i)])]

\* Hexbits, from 0, as a sequence of bits from the left.
HexBits(hb, first, last) ==
    [b \in 1..6 * (last - first + 1) |-> Bit(hb[first + (b - 1) \div 6], 5 - ((b - 1) % 6))]

Int2(bytes, i) == bytes[i] * 256 + bytes[i + 1]
Int3(bytes, i) == Int2(bytes, i) * 256 + bytes[i + 2]

-----------------------------------------------------------------------------
(* Phase 1: the link control word, nine bytes.                             *)

LinkControl(bytes, lco) ==
    [ok |-> TRUE, raw |-> bytes,
     tg   |-> IF lco = 0 THEN Int2(bytes, 5) ELSE 0,
     dest |-> IF lco = 3 THEN Int3(bytes, 4) ELSE 0,
     unit |-> IF lco \in {0, 3} THEN Int3(bytes, 7) ELSE 0]

\* From 24 hexbits, of which twelve are parity.  An LDU1 goes by the whole of the first
\* byte, a terminator leaves out its two flags.
LinkControlOf(bytes, flags) == LinkControl(bytes, IF flags THEN bytes[1] ELSE bytes[1] % 64)

DecodedLC(d, flags) ==
    IF d.ok THEN LinkControlOf(BytesOf(HexBits(d.word, 0, 11), 9), flags) ELSE NotDecoded

LinkControlFrom(hb, flags) == DecodedLC(rsDecode63(hb, 12, 24), flags)

LCFrom(h) == IF h.ok THEN LinkControlFrom(h.hb, TRUE) ELSE NotDecoded

extractLC(payload, dibits) == LCFrom(extractLDUHexbits(payload, dibits))

\* An LDU2 has a sync of 16 hexbits there, with eight of parity.
EncryptionSync(bytes) ==
    [ok |-> TRUE, mi |-> SubSeq(bytes, 1, 9), alg |-> bytes[10], key |-> Int2(bytes, 11)]

DecodedES(d) == IF d.ok THEN EncryptionSync(BytesOf(HexBits(d.word, 0, 15), 12)) ELSE NotDecoded

ESFrom(h) == IF h.ok THEN DecodedES(rsDecode63(h.hb, 8, 24)) ELSE NotDecoded

extractES(payload, dibits) == ESFrom(extractLDUHexbits(payload, dibits))

GolayData(word) == MapThenSumSet(LAMBDA i : 2^i, Golay24Decode(word).data)

\* Twelve Golay words, each of two hexbits; words is from 0.
TerminatorHexbits(words) ==
    Table([h \in 0..23 |-> LET data == GolayData(words[h \div 2])
                           IN  IF h % 2 = 0 THEN data \div 64 ELSE data % 64])

parseTDUlc(words) == LinkControlFrom(TerminatorHexbits(words), FALSE)

\* 36 words that are shortened by six bits, of a hexbit each.
HeaderHexbits(words) == Table([h \in 0..35 |-> GolayData(words[h]) % 64])

HeaderData(msg) ==
    [ok |-> TRUE, mi |-> SubSeq(msg, 1, 9), mfid |-> msg[10], alg |-> msg[11],
     key |-> Int2(msg, 12), tg |-> Int2(msg, 14)]

DecodedHDU(d) == IF d.ok THEN HeaderData(BytesOf(HexBits(d.data, 0, 19), 15)) ELSE NotDecoded

parseHDU(words) ==
    LET hb == HeaderHexbits(words)
    IN  DecodedHDU(rsDecodeHDU(Table([i \in 0..35 |-> hb[35 - i]])))

-----------------------------------------------------------------------------
(* ACCH.                                                                   *)

BurstDibits   == 180
PayloadOffset == 10

\* ranges: [start, count] in dibits; the parity in the lowest positions is not sent.
acchSpecFor ==
    [FACCH |-> [ranges |-> <<<<11, 36>>, <<48, 31>>, <<100, 32>>, <<133, 36>>>>, rsStart |-> 9,
                dataBits |-> 144, punctured |-> 9, crc16 |-> FALSE, olen |-> 18],
     SACCH |-> [ranges |-> <<<<11, 36>>, <<48, 84>>, <<133, 36>>>>, rsStart |-> 5,
                dataBits |-> 168, punctured |-> 6, crc16 |-> FALSE, olen |-> 21],
     LCCH  |-> [ranges |-> <<<<11, 36>>, <<48, 84>>, <<133, 36>>>>, rsStart |-> 5,
                dataBits |-> 180, punctured |-> 6, crc16 |-> TRUE, olen |-> 23]]

\* The dibits of a burst that are the ACCH's, in order.
Carries(spec) ==
    FlattenSeq([r \in DOMAIN spec.ranges |->
        LET start == spec.ranges[r][1] + PayloadOffset
        IN  Span(start, start + spec.ranges[r][2] - 1)])

Hexbit(dibits, where, h) ==
    dibits[where[3*h + 1]] * 16 + dibits[where[3*h + 2]] * 4 + dibits[where[3*h + 3]]

\* Data and checksum, as a polynomial, leave all ones.
Ones(bits, n) == {n - b : b \in {i \in 1..n : bits[i] = 1}}
ChecksOut(bits, n, gen, deg) == Reduce(Ones(bits, n), gen, deg, n - 1) = 0..deg-1

crc12Poly == {12, 11, 7, 4, 2, 1, 0}
crc16Poly == {16, 12, 5, 0}

crc12OK(bits, n)      == ChecksOut(bits, n, crc12Poly, 12)
crc16CCITTOK(bits, n) == ChecksOut(bits, n, crc16Poly, 16)

\* Only the parity that was not sent is erased: the data that was not is zero.
Erased(spec) == 0..spec.punctured-1

IfChecked(spec, bits) ==
    IF IF spec.crc16 THEN crc16CCITTOK(bits, spec.dataBits) ELSE crc12OK(bits, spec.dataBits)
    THEN [ok |-> TRUE, bytes |-> BytesOf(bits, spec.olen)] ELSE NotDecoded

Unpacked(spec, d) ==
    IF ~d.ok THEN NotDecoded
    ELSE IfChecked(spec, [b \in 1..spec.olen*8 |->
             IF b > spec.dataBits THEN 0
             ELSE Bit(d.word[62 - spec.rsStart - (b - 1) \div 6], 5 - ((b - 1) % 6))])

decodeACCHBytes(dibits, typ) ==
    LET spec  == acchSpecFor[typ]
        where == Carries(spec)
        hexes == Len(where) \div 3
        hb(j) == IF j \in spec.rsStart..spec.rsStart+hexes-1
                 THEN Hexbit(dibits, where, j - spec.rsStart) ELSE 0
    IN  Unpacked(spec, RSDecodeWithErasures(63, 35, Table([i \in 0..62 |-> hb(62 - i)]), Erased(spec)))

-----------------------------------------------------------------------------
(* MAC messages.                                                           *)

\* By op \div 16 and op % 16; 0 is variable or unknown.
macMsgLenTable == <<
    <<0, 7, 8, 7, 0, 16, 0, 0, 0, 0, 0, 0, 0, 0, 0, 0>>,
    <<0, 0, 0, 0, 0, 0, 0, 0, 0, 0, 0, 0, 0, 0, 0, 0>>,
    <<0, 14, 15, 0, 0, 15, 0, 0, 0, 0, 0, 0, 0, 0, 0, 0>>,
    <<5, 7, 0, 0, 0, 0, 0, 0, 0, 0, 0, 0, 0, 0, 0, 0>>,
    <<9, 7, 9, 0, 9, 8, 9, 0, 10, 10, 9, 0, 10, 0, 0, 0>>,
    <<0, 0, 0, 0, 9, 7, 0, 0, 10, 0, 7, 0, 10, 8, 14, 7>>,
    <<9, 9, 0, 0, 9, 0, 0, 9, 10, 0, 7, 10, 10, 7, 0, 9>>,
    <<9, 29, 9, 9, 9, 9, 10, 13, 9, 9, 9, 11, 9, 9, 0, 0>>,
    <<8, 0, 0, 7, 11, 0, 0, 0, 0, 0, 0, 0, 0, 0, 0, 0>>,
    <<0, 0, 0, 0, 0, 0, 0, 0, 0, 0, 0, 0, 0, 0, 0, 0>>,
    <<16, 0, 0, 11, 13, 11, 11, 11, 10, 0, 0, 0, 0, 0, 0, 0>>,
    <<0, 0, 0, 0, 0, 0, 0, 0, 0, 0, 0, 0, 0, 0, 0, 0>>,
    <<11, 0, 0, 8, 15, 12, 15, 32, 12, 12, 0, 27, 14, 29, 29, 32>>,
    <<0, 0, 0, 0, 0, 0, 9, 0, 14, 29, 11, 27, 14, 0, 40, 11>>,
    <<28, 0, 0, 14, 17, 14, 0, 0, 16, 8, 11, 0, 13, 19, 0, 0>>,
    <<0, 0, 16, 14, 0, 0, 12, 0, 22, 0, 11, 13, 11, 0, 15, 0>> >>

Vendor(op) == op \div 64 = 2

\* The length said in the message, or 0, if it says none or is cut short before that.
SaidLen(rest) ==
    LET op == rest[1]
        at == IF Vendor(op) THEN 3 ELSE 2
    IN  IF at > Len(rest) THEN 0
        ELSE CASE op = 8 \/ Vendor(op) -> rest[at] % 64
               [] op = 17 -> ((rest[2] % 4) + 1) * 2 + 2
               [] op = 18 -> ((rest[2] % 4) + 1) * 3 + 2
               [] OTHER -> 0

\* Some vendors leave it zero.
TableLen(rest) == macMsgLenTable[rest[1] \div 16 + 1][(rest[1] % 16) + 1]

MsgLen(rest) ==
    LET op == rest[1]
    IN  IF op = 0 THEN Len(rest)
        ELSE IF \/ op \in {8, 17, 18} \/ SaidLen(rest) > 0
                \/ (Vendor(op) /\ Len(rest) < 3)
        THEN SaidLen(rest) ELSE TableLen(rest)

\* The Harris position field: a coordinate is degrees, minutes and ten thousandths of one,
\* here all in the last; the time is in seconds, doubled by a flag.
harrisCoord(field, i) ==
    (IF field[i + 2] >= 128 THEN -1 ELSE 1)
      * (field[i + 3] * 600000 + (field[i + 2] % 128) * 10000 + Int2(field, i))

InRange(lat, lon) == lat \in -90*600000..90*600000 /\ lon \in -180*600000..180*600000

DecodeHarrisGPS(field) ==
    LET lat == harrisCoord(field, 1)
        lon == harrisCoord(field, 5)
    IN  IF ~InRange(lat, lon) THEN NotDecoded
        ELSE [ok |-> TRUE, lat |-> lat, lon |-> lon,
              heading |-> (field[12] % 2) * 256 + field[13],
              time |-> Int2(field, 9) * (IF field[11] >= 128 THEN 2 ELSE 1)]

\* What a PDU that names no one says.
NoIdentity == [has |-> FALSE, tg |-> 0, source |-> 0]

Walked == [identity |-> NoIdentity, aliases |-> <<>>, position |-> NotDecoded]

\* One message: rest begins with it and goes on to the end of the PDU.  A Harris
\* position is read as its fourteen bytes whatever its length.
Dispatch(found, rest, n) ==
    LET op == rest[1]
    IN  CASE op = 1 ->
               [found EXCEPT !.identity = [has |-> TRUE, tg |-> Int2(rest, 3), source |-> Int3(rest, 5)]]
          [] op = 170 /\ rest[2] = 164 /\ Len(rest) >= 17 ->
               LET fix == DecodeHarrisGPS(SubSeq(rest, 4, 17))
               IN  IF fix.ok THEN [found EXCEPT !.position = fix] ELSE found
          [] op \in {145, 149, 168} /\ Len(rest) >= 2 ->
               [found EXCEPT !.aliases = Append(@, SubSeq(rest, 1, n))]
          [] OTHER -> found

\* One message further, unless there is none or it runs past the end.
Walk(w) ==
    LET n == MsgLen(w.rest)
    IN  IF w.rest = <<>> THEN w
        ELSE IF n = 0 \/ n > Len(w.rest) THEN w
        ELSE [found |-> Dispatch(w.found, w.rest, n), rest |-> SubSeq(w.rest, n + 1, Len(w.rest))]

\* There are no more messages than bytes.
walkMACSubMessages(bytes) ==
    LET walk[n \in 0..Len(bytes)] ==
            IF n = 0 THEN [found |-> Walked, rest |-> Tail(bytes)] ELSE Walk(walk[n-1])
    IN  walk[Len(bytes)].found

\* The identity, or all that a MAC_PTT or MAC_END_PTT says of the call.
MACPDU(bytes) ==
    LET op == bytes[1] \div 32
    IN  CASE op \in {1, 2} ->
               [op |-> op, mi |-> SubSeq(bytes, 2, 10), alg |-> bytes[11], key |-> Int2(bytes, 12),
                encrypted |-> bytes[11] \notin {0, 128},
                identity  |-> [has |-> TRUE, tg |-> Int2(bytes, 17), source |-> Int3(bytes, 14)]]
          [] op \in {3, 4} -> [op |-> op] @@ walkMACSubMessages(bytes)
          [] OTHER -> [op |-> op]

WithPDU(d) == IF d.ok THEN d @@ [pdu |-> MACPDU(d.bytes)] ELSE d

DecodeACCH(dibits, typ) == WithPDU(decodeACCHBytes(dibits, typ))

-----------------------------------------------------------------------------
(* ESS: 28 hexbits of parity in the 2V, four of data in each 4V.           *)

\* A dibit of the burst type is in the way after the sixteenth.
HexbitAt(dibits, at) == dibits[at] * 16 + dibits[at + 1] * 4 + dibits[at + 2]

extract2V(dibits) == [h \in 0..27 |-> HexbitAt(dibits, 3 * h + (IF h > 15 THEN 1 ELSE 0))]
extract4V(dibits) == [h \in 0..3 |-> HexbitAt(dibits, 3 * h)]

EssCorrects == 14

EncryptionSyncOf(bytes) ==
    [ok |-> TRUE, alg |-> bytes[1], key |-> Int2(bytes, 2), mi |-> SubSeq(bytes, 4, 12)]

DecodedESS(d) ==
    IF d.ok /\ PaddingClean(d.word, 44)
    THEN EncryptionSyncOf(BytesOf(HexBits([i \in 0..15 |-> d.word[43 - i]], 0, 15), 12))
    ELSE NotDecoded

decodeESS(essA, essB) ==
    LET cw == Table([i \in 0..62 |-> IF i < 28 THEN essA[27 - i]
                                     ELSE IF i < 44 THEN essB[43 - i] ELSE 0])
    IN  DecodedESS(rsDecodeGenericN(63, 35, EssCorrects, cw))

-----------------------------------------------------------------------------
(* Voice codewords: a Golay word with parity, one that it masks, and bits    *)
(* that are not protected.                                                   *)

\* Bit 4q+c of the 72 is bit 23-q, 5-q, 10-q or 3-q of word c, and where that runs out,
\* goes on with the word after it.
vcwDeinterleave(bit) ==
    LET q == bit \div 4
    IN  <<<<0, 23 - q>>,
          IF q <= 5 THEN <<0, 5 - q>> ELSE <<1, 28 - q>>,
          IF q <= 10 THEN <<1, 10 - q>> ELSE <<2, 21 - q>>,
          IF q <= 3 THEN <<2, 3 - q>> ELSE <<3, 17 - q>> >>[(bit % 4) + 1]

\* The ones among the 72 bits, to the four words.
extractVCW(ones) ==
    [cw \in 0..3 |-> {vcwDeinterleave(bit)[2] : bit \in {o \in ones : vcwDeinterleave(o)[1] = cw}}]

generatePRMask(u0) == OnRow(PseudoRandom(SeedOf(u0), 23), 1, 23)

DecodeVoiceCW(ones) ==
    LET c  == extractVCW(ones)
        d0 == Golay24Decode(c[0])
        d1 == golayDecode(SymDiff(c[1], generatePRMask(d0.data)))
    IN  [u |-> <<d0.data, d1.data, c[2], c[3]>>, errs |-> d0.nerr + d1.nerr,
         uncorrectable |-> Golay24DetectUncorrectable(c[0])]

\* The 49 bits of the four, from the left, in seven bytes: as the set of their places.
PackCW(u) == {11 - i : i \in u[1]} \cup {23 - i : i \in u[2]}
               \cup {34 - i : i \in u[3]} \cup {48 - i : i \in u[4]}

UnpackCW(packed) == <<{11 - p : p \in packed \cap 0..11},  {23 - p : p \in packed \cap 12..23},
                      {34 - p : p \in packed \cap 24..34}, {48 - p : p \in packed \cap 35..48}>>

-----------------------------------------------------------------------------
(* ADP: RC4 with a 13 byte key, and which bytes of it are for a codeword.    *)

ADPKeystreamLen == 469

Swap(s, i, j) == [s EXCEPT ![i] = s[j], ![j] = s[i]]

\* A step of the key schedule, or, with no key, one that gives a byte.
RC4Step(st, k, key) ==
    LET i == k % 256
        j == (st.j + st.s[i] + (IF key = <<>> THEN 0 ELSE key[(i % 13) + 1])) % 256
        s == Swap(st.s, i, j)
    IN  [s |-> s, j |-> j,
         out |-> IF key = <<>> THEN Append(st.out, s[(s[i] + s[j]) % 256]) ELSE st.out]

\* A few steps.
RC4Few(st, first, last, key) ==
    LET after[k \in first-1..last] == IF k < first THEN st ELSE RC4Step(after[k-1], k, key)
    IN  after[last]

\* The steps from first to last; sixteen at a time, each row evaluated before the next, so
\* that TLC's recursion stays shallow.
RC4Steps(st, first, last, key) ==
    LET rows == (last - first) \div 16 + 1
        after[r \in 0..rows] ==
            IF r = 0 THEN st
            ELSE LET before == after[r-1]
                     start  == first + 16 * (r-1)
                 IN  CASE before.j \in 0..255 -> RC4Few(before, start, Min({start + 15, last}), key)
    IN  after[rows]

\* Zeros, the key, and the first eight bytes of the indicator.
Prepare(key, mi) ==
    LET effective == [i \in 1..5 - Len(key) |-> 0] \o key \o SubSeq(mi, 1, 8)
        start     == [s |-> Table([i \in 0..255 |-> i]), j |-> 0, out |-> <<>>]
        scheduled == RC4Steps(start, 0, 255, effective)
    IN  IF Len(key) > 5 THEN NotDecoded
        ELSE [ok |-> TRUE,
              bytes |-> RC4Steps([scheduled EXCEPT !.j = 0], 1, ADPKeystreamLen, <<>>).out]

\* A packed codeword is the set of the places, from the left, of its ones.
StreamOnes(stream, offset, places) ==
    {p \in places : Bit(stream[offset + (p \div 8) + 1], 7 - (p % 8)) = 1}

CodewordOffset(position, isLDU2) ==
    (IF isLDU2 THEN 101 ELSE 0) + position * 11 + 267 + (IF position >= 8 THEN 2 ELSE 0)

\* Codeword 0..8 of an LDU, eleven bytes.
XORCodeword(stream, packed, position, isLDU2) ==
    SymDiff(packed, StreamOnes(stream, CodewordOffset(position, isLDU2), 0..87))

CodewordOffsetP2(burstID, cwIndex) == 256 + 7 * (cwIndex + burstID * 4)

\* A codeword of a Phase 2 burst, seven bytes of which the last has one bit.
XORCodewordP2(stream, packed, burstID, cwIndex) ==
    SymDiff(packed, StreamOnes(stream, CodewordOffsetP2(burstID, cwIndex), 0..55)) \cap 0..48
=============================================================================
