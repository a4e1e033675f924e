------------------------------- MODULE Codecs -------------------------------
(***************************************************************************)
(* The codes at work: something is sent, the channel changes some of it,   *)
(* and the receiver makes of it what it can.  What is sent and what is     *)
(* changed are chosen from an instance's jobs; the rest is the operators   *)
(* of ReedSolomon, BlockCodes, Trellis, Signalling and Packets.            *)
(*                                                                         *)
(* The transmitter is not in the code; where the code has an encoder, for  *)
(* its tests, that is the one used here.                                   *)
(***************************************************************************)
EXTENDS Signalling, Trellis, Packets

CONSTANTS Jobs,   \* sets of [code, data, noise]
          Key,    \* the ADP key that both ends have
          Nacs    \* the network access codes there are

VARIABLES job, sent, received, result

vars == <<job, sent, received, result>>

Nothing == <<>>

-----------------------------------------------------------------------------
(* The transmitter.                                                        *)

HexbitsOf(bytes, n) ==
    LET bits == FlattenSeq([b \in DOMAIN bytes |-> [i \in 1..8 |-> Bit(bytes[b], 8 - i)]])
        bit(i) == IF i \in DOMAIN bits THEN bits[i] ELSE 0
    IN  Table([h \in 0..n-1 |-> SumFunction([i \in 0..5 |-> bit(6 * h + i + 1) * 2^(5 - i)])])

\* 24 hexbits, of which some are parity, as the ones of an LDU's payload.
HammingSent(six) == Shift(six, 4) \cup hamming1063Encode(six)

AsPayload(hb) ==
    UNION {{PayloadBit(h, 9 - i) : i \in HammingSent(BitsOf(hb[h], 6))} : h \in DOMAIN hb}

SendLDU(bytes, parity) == AsPayload(rsEncode63(HexbitsOf(bytes, 24), parity, 24))

\* Twelve Golay words with parity.
WithParity(word) == Shift(word, 1) \cup (IF OddWeight(word) THEN {0} ELSE {})

AsTerminator(hb) ==
    Table([c \in 0..11 |-> WithParity(golayEncode(BitsOf(hb[2*c] * 64 + hb[2*c + 1], 12)))])

SendTDUlc(bytes) == AsTerminator(rsEncode63(HexbitsOf(bytes, 24), 12, 24))

AsHeader(word) == Table([i \in 0..35 |-> WithParity(golayEncode(BitsOf(word[35 - i], 6)))])

SendHDU(bytes) == AsHeader(rsEncodeHDU(HexbitsOf(bytes, 20)))

\* The checksum that makes the whole leave all ones.
Checked(bits, n, gen, deg) ==
    LET crc == SymDiff(Reduce(Shift(Ones(bits, n - deg), deg), gen, deg, n - 1), 0..deg-1)
    IN  [b \in 1..n |-> IF b <= n - deg THEN bits[b] ELSE IF n - b \in crc THEN 1 ELSE 0]

SendACCH(bytes, typ) ==
    LET spec  == acchSpecFor[typ]
        where == Carries(spec)
        plain == HexBits(HexbitsOf(bytes, 31), 0, 30)
        bits  == IF spec.crc16 THEN Checked(plain, spec.dataBits, crc16Poly, 16)
                               ELSE Checked(plain, spec.dataBits, crc12Poly, 12)
        data(h) == SumFunction([i \in 0..5 |-> bits[6 * h + i + 1] * 2^(5 - i)])
        cw    == RSEncode63x35(Table([i \in 0..62 |->
                    LET h == 62 - i - spec.rsStart
                    IN  IF h \in 0..spec.dataBits \div 6 - 1 THEN data(h) ELSE 0]))
        at(d) == CHOOSE w \in DOMAIN where : where[w] = d
    IN  Table([d \in 0..BurstDibits-1 |->
            IF d \notin ToSet(where) THEN 0
            ELSE LET w == at(d) - 1
                 IN  (cw[62 - spec.rsStart - w \div 3] \div 4^(2 - (w % 3))) % 4])

\* The parity of the 2V, with the burst type in the way, and the data of four 4V.
OnAir(hb) ==
    LET dibit(h, part) == (hb[h] \div 4^(2 - part)) % 4
    IN  Table([d \in 0..132 |->
            IF d >= 85 THEN dibit((d - 85) \div 3, (d - 85) % 3)
            ELSE IF d = 48 THEN 0
            ELSE LET at == IF d < 48 THEN d ELSE d - 1
                 IN  dibit(16 + (at \div 3), at % 3)])

EssB(w) == [h \in 0..15 |-> extract4V([d \in 0..11 |-> w[85 + 12 * (h \div 4) + d]])[h % 4]]

\* 16 hexbits of data and 28 of parity.
SendESS(bytes) ==
    LET hb == HexbitsOf(bytes, 16)
        cw == RSEncode63x35(Table([i \in 0..62 |-> IF i \in 28..43 THEN hb[43 - i] ELSE 0]))
    IN  OnAir([i \in 0..43 |-> cw[43 - i]])

\* u, as sets; the second word is masked by what the first says.
SendVoice(u) ==
    LET c == [cw \in 0..3 |-> IF cw = 0 THEN WithParity(golayEncode(u[1]))
                              ELSE IF cw = 1 THEN SymDiff(golayEncode(u[2]), generatePRMask(u[1]))
                              ELSE u[cw + 1]]
    IN  {bit \in 0..71 : vcwDeinterleave(bit)[2] \in c[vcwDeinterleave(bit)[1]]}

\* Eight rows; those of the Hamming code end in the parity that leaves no syndrome.
HammingWord(data) ==
    CHOOSE w \in {Shift(data, 4) \cup p : p \in SUBSET (0..3)} : HammingSyndrome(w) = {}

SendIMBE(u) ==
    LET plain == [r \in 0..7 |-> IF r < 4 THEN golayEncode(u[r + 1])
                                 ELSE IF r < 7 THEN HammingWord(u[r + 1]) ELSE u[8]]
    IN  Table(demodulateImbe7200x4400Data(plain))

\* A confirmed block: the checksum is the one that is accepted.
SendCRC9(data) ==
    Shift(data, 16) \cup {7 + b : b \in CHOOSE c \in SUBSET (0..8) :
                            LET block == Shift(data, 16) \cup {7 + b : b \in c}
                            IN  checkCRC9(block)}

\* Four rows, of which the first two are Golay words.
SendAMBE(u) ==
    Table(demodulateAmbe3600x2450Data(
        [r \in 0..3 |-> IF r = 0 THEN WithParity(golayEncode(u[1]))
                        ELSE IF r = 1 THEN golayEncode(u[2]) ELSE u[r + 1]]))

\* Two bits to a level, and four to a symbol of the trellis code.
Levels(symbols) ==
    LET level(two) == <<1, 3, -1, -3>>[two + 1]
    IN  [i \in 1..2 * Len(symbols) |->
            LET four == symbols[(i + 1) \div 2]
            IN  level(IF i % 2 = 1 THEN four \div 4 ELSE four % 4)]

\* The eighteen codewords of a superframe, of voice bursts or of two LDUs.
Ciphered(phase2, stream, cw) ==
    Table([w \in 0..17 |->
        IF phase2 THEN UnpackCW(XORCodewordP2(stream, PackCW(cw[w]), w \div 4, w % 4))
        ELSE XORCodeword(stream, cw[w], w % 9, w >= 9)])

WithADP(word) == [word EXCEPT !.cw = Ciphered(word.phase2, Prepare(Key, word.mi).bytes, word.cw)]

\* Records of a token each, in a datagram for LRRP, in IP, in a packet of blocks of 16.
SendPDU(tokens) ==
    LET records == FlattenSeq([t \in DOMAIN tokens |->
                       <<13, Len(tokens[t].raw) + 1, tokens[t].id>> \o tokens[t].raw])
        two(n)  == <<n \div 256, n % 256>>
        zeros(n) == [i \in 1..n |-> 0]
        udp     == <<0, 0>> \o two(LRRPPort) \o two(8 + Len(records)) \o <<0, 0>> \o records
        ip      == <<69, 0>> \o two(20 + Len(udp)) \o zeros(5) \o <<17>> \o zeros(10) \o udp
        size    == (Len(ip) + 6 + 15) \div 16
        pad     == 16 * size - 6 - Len(ip)
        body    == <<0, 0>> \o ip \o zeros(pad)
        payload == body \o AsBytes(crc32P25(body))
        header  == <<64 + PACKET_DATA, 4, 0, 0, 0, 0, size, pad, 0, 2, 0, 0>>
    IN  [b \in 1..size + 1 |->
            [data |-> IF b = 1 THEN header ELSE SubSeq(payload, 16 * b - 31, 16 * b - 16),
             crc  |-> TRUE]]

Encode(code, data) ==
    CASE code = "RS"        -> rsEncodeGeneric(8, 4, data)
      [] code = "RS24"      -> rsEncode(data)
      [] code = "Erasures"  -> rsEncodeGeneric(10, 4, data)
      [] code = "LC"        -> SendLDU(data, 12)
      [] code = "ES"        -> SendLDU(data, 8)
      [] code = "TDUlc"     -> SendTDUlc(data)
      [] code = "HDU"       -> SendHDU(data)
      [] code \in DOMAIN acchSpecFor -> SendACCH(data, code)
      [] code = "ESS"       -> SendESS(data)
      [] code = "Voice"     -> SendVoice(data)
      [] code = "IMBE"      -> SendIMBE(data)
      [] code = "NID"       -> NIDWord(data)
      [] code = "Golay"     -> WithParity(golayEncode(data))
      [] code = "Hamming10" -> Shift(data, 4) \cup hamming1063Encode(data)
      [] code = "CRC9"      -> SendCRC9(data)
      [] code = "Half"      -> trellisDibitEncode(trellisNext, data)
      [] code = "ThreeQuarters" -> trellisDibitEncode(trellis34Transition, data)
      [] code = "SoftHalf"  -> Levels(trellisDibitEncode(trellisNext, data))
      [] code = "SoftThreeQuarters" -> Levels(trellisDibitEncode(trellis34Transition, data))
      [] code = "Block"     -> Table(trellisEncode(data))
      [] code = "BlockThreeQuarters" -> Table(trellis34Encode(data))
      [] code = "AMBE"      -> SendAMBE(data)
      [] code = "ADP"       -> WithADP(data)
      [] code = "TSDU"      -> data
      [] code = "MAC"       -> <<4 * 32>> \o FlattenSeq(data)
      [] code = "PDU"       -> SendPDU(data)

-----------------------------------------------------------------------------
(* The channel.                                                            *)

ByBlock == {"PDU", "MAC", "TSDU"}
ByWord  == {"TDUlc", "HDU", "IMBE", "AMBE"}
Soft    == {"SoftHalf", "SoftThreeQuarters"}
ByBit   == {"LC", "ES", "Voice", "NID", "Golay", "Hamming10", "CRC9"}

\* Blocks are replaced, bits are turned, levels are moved, an indicator is another one,
\* and to a symbol another is added.
Disturbed(code, word, noise) ==
    LET by(Change(_, _)) == [i \in DOMAIN word |-> IF i \in DOMAIN noise THEN Change(word[i], noise[i])
                                                 ELSE word[i]]
    IN  CASE code \in ByBlock -> by(LAMBDA block, other : other)
          [] code \in ByWord  -> Table(by(SymDiff))
          [] code \in ByBit   -> SymDiff(word, noise)
          [] code \in Soft    -> Table(by(LAMBDA level, other : level + other))
          [] code = "ADP"     -> [word EXCEPT !.mi = IF noise = Nothing THEN @ ELSE noise]
          [] OTHER -> Table(by(LAMBDA symbol, other : Plus[symbol][other]))

-----------------------------------------------------------------------------
(* The receiver.                                                           *)

Hint == CHOOSE nac \in Nacs : TRUE   \* the NAC a synchroniser is locked to

NIDWords == [nid \in NIDs(Nacs) |-> NIDWord(nid)]

Punctured == 0..1   \* the parity that is not sent, of the code with erasures

\* A level's soft bits, two levels to a symbol.
Softened(levels) == [t \in 1..Len(levels) \div 2 |-> SoftSymbol(levels[2*t - 1], levels[2*t])]

\* The user data of the packet, to the application it is for and to the dissector.
Received(pdu) ==
    [ok |-> pdu.headerOK /\ pdu.payloadOK, lrrp |-> Deliver(pdu).data,
     left |-> Last(Dissect(parseSNDCP(pdu).user)).undecoded]

ReceivePDU(blocks) ==
    Received(parsePDU([data |-> blocks[1].data, crc |-> blocks[1].crc], Tail(blocks)))

Decode(code, w) ==
    CASE code = "RS"        -> rsDecodeGeneric(8, 4, 2, w)
      [] code = "RS24"      -> rsDecode(w)
      [] code = "Erasures"  -> RSDecodeWithErasures(10, 4, w, Punctured)
      [] code = "LC"        -> extractLC(w, 750)
      [] code = "ES"        -> extractES(w, 750)
      [] code = "TDUlc"     -> parseTDUlc(w)
      [] code = "HDU"       -> parseHDU(w)
      [] code \in DOMAIN acchSpecFor -> DecodeACCH(w, code)
      [] code = "ESS"       -> decodeESS(extract2V(w), EssB(w))
      [] code = "Voice"     -> [ok |-> TRUE, frame |-> DecodeVoiceCW(w)]
      [] code = "IMBE"      -> [ok |-> TRUE, frame |-> IMBEFECDecode(w)]
      [] code = "NID"       -> decodeNIDWithHintDist(w, Hint, NIDWords)
      [] code = "Golay"     -> Golay24Decode(w)
      [] code = "Hamming10" -> [ok |-> TRUE, data |-> hamming1063Decode({i - 4 : i \in w \ 0..3}, w \cap 0..3)]
      [] code = "CRC9"      -> [ok |-> checkCRC9(w), data |-> {i - 16 : i \in w \ 0..15}]
      [] code = "Half"      -> [ok |-> TRUE, data |-> trellisDibitDecode(w)]
      [] code = "ThreeQuarters" -> [ok |-> TRUE, data |-> trellis34DibitDecode(w)]
      [] code = "SoftHalf"  -> [ok |-> TRUE, data |-> trellisSoftDecode(Softened(w))]
      [] code = "SoftThreeQuarters" -> [ok |-> TRUE, data |-> trellis34SoftDecode(Softened(w))]
      [] code = "Block"     -> [ok |-> TRUE, data |-> viterbiDecodeRaw(w)]
      [] code = "BlockThreeQuarters" -> [ok |-> TRUE, data |-> viterbi34DecodeRaw(w)]
      [] code = "AMBE"      -> [ok |-> TRUE, frame |-> ProcessAMBE3600x2450Frame(w)]
      [] code = "ADP"       -> [ok |-> TRUE, data |-> WithADP(w)]
      [] code = "TSDU"      -> [ok |-> TRUE, data |-> parseTSBKs(w)]
      [] code = "MAC"       -> [ok |-> TRUE, walked |-> MACPDU(w)]
      [] code = "PDU"       -> ReceivePDU(w)

\* What was decoded, as it would have been given to the encoder.
DataIn(code, d) ==
    CASE code = "Erasures"         -> [i \in 0..3 |-> d.word[9 - i]]
      [] code \in {"LC", "TDUlc"}  -> d.raw
      [] code = "ES"               -> d.mi \o <<d.alg>> \o <<d.key \div 256, d.key % 256>>
      [] code = "ESS"              -> <<d.alg>> \o <<d.key \div 256, d.key % 256>> \o d.mi
      [] code = "HDU"              -> d.mi \o <<d.mfid, d.alg, d.key \div 256, d.key % 256,
                                               d.tg \div 256, d.tg % 256>>
      [] code \in DOMAIN acchSpecFor -> SubSeq(d.bytes, 1, (acchSpecFor[code].dataBits - 16) \div 8)
      [] code = "Voice"            -> d.frame.u
      [] code = "IMBE"             -> [r \in 1..8 |-> d.frame.data[r - 1]]
      [] code = "AMBE"             -> d.frame.data
      [] code = "NID"              -> d.nid
      [] code = "MAC"              -> d.walked.aliases
      [] code = "PDU"              -> d.lrrp.tokens
      [] OTHER                     -> d.data

-----------------------------------------------------------------------------
(* What the jobs are of.                                                   *)

VoiceWords == (SUBSET (0..11)) \X (SUBSET (0..11)) \X (SUBSET (0..10)) \X (SUBSET (0..13))

IMBEWords == {u \in [1..8 -> SUBSET (0..11)] : (\A r \in 5..7 : u[r] \subseteq 0..10) /\ u[8] \subseteq 0..6}

\* The words of the codes that are chosen by bit, row or level, and the errors in them; of
\* the others nothing is assumed.
WellFormed(j) ==
    CASE j.code = "NID"       -> j.data \in NIDs(Nacs) /\ j.noise \subseteq 0..63
      [] j.code = "Golay"     -> j.data \subseteq 0..11 /\ j.noise \subseteq 0..23
      [] j.code = "Hamming10" -> j.data \subseteq 0..5 /\ j.noise \subseteq 0..9
      [] j.code = "Voice"     -> j.data \in VoiceWords /\ j.noise \subseteq 0..71
      [] j.code = "AMBE"      ->
           j.data \in VoiceWords /\ \A r \in DOMAIN j.noise : j.noise[r] \subseteq 0..(IF r = 0 THEN 23 ELSE 22)
      [] j.code = "IMBE"      ->
           /\ j.data \in IMBEWords
           /\ \A r \in DOMAIN j.noise : j.noise[r] \subseteq 0..(IF r < 4 THEN 22 ELSE 14)
      [] j.code = "CRC9"      -> j.data \subseteq 0..127
      [] j.code = "ADP"       ->
           \E phase2 \in BOOLEAN :
               j.data \in [phase2 : {phase2}, mi : Seq(0..255),
                           cw : [0..17 -> IF phase2 THEN VoiceWords ELSE SUBSET (0..87)]]
      [] j.code \in {"Half", "SoftHalf"} ->
           j.data \in Seq(0..3) /\ \A i \in DOMAIN j.noise : j.noise[i] \in Int
      [] j.code \in {"ThreeQuarters", "SoftThreeQuarters"} ->
           j.data \in Seq(0..7) /\ \A i \in DOMAIN j.noise : j.noise[i] \in Int
      [] j.code \in {"Block", "BlockThreeQuarters"} ->
           /\ j.data \in Seq(0..IF j.code = "Block" THEN 3 ELSE 7) /\ Len(j.data) = 48
           /\ \A i \in DOMAIN j.noise : \A bit \in 0..1 : Plus[bit][j.noise[i]] \in 0..1
      [] OTHER -> TRUE

ASSUME JobsAssumption == \A j \in Jobs : WellFormed(j)

BitsDiffer(a, b) == Cardinality(SymDiff(a, b))

\* Those of the network access codes there are, of the 4096, are apart as far as the code
\* was made for, which is twice what decodeNID corrects and one (bch.go:143).
ASSUME NIDsApart ==
    \A m, n \in NIDs(Nacs) :
        NIDWords[m] \subseteq 0..63 /\ (m # n => BitsDiffer(NIDWords[m], NIDWords[n]) >= 2 * CorrectsTo + 1)

-----------------------------------------------------------------------------

CInit == job = Nothing /\ sent = Nothing /\ received = Nothing /\ result = Nothing

Send ==
    /\ job = Nothing
    /\ job' \in Jobs
    /\ sent' = Encode(job'.code, job'.data)
    /\ received' = Disturbed(job'.code, sent', job'.noise)
    /\ UNCHANGED result

Receive ==
    /\ job # Nothing
    /\ result = Nothing
    /\ result' = Decode(job.code, received)
    /\ UNCHANGED <<job, sent, received>>

Forget ==
    /\ result # Nothing
    /\ job' = Nothing
    /\ sent' = Nothing
    /\ received' = Nothing
    /\ result' = Nothing

CNext == Send \/ Receive \/ Forget

CSpec == CInit /\ [][CNext]_vars

-----------------------------------------------------------------------------
(* Properties.                                                             *)

\* A word as the symbols the code proper corrects, the inner code off.
Symbols(code, w) ==
    CASE code \in {"LC", "ES"} -> extractLDUHexbits(w, 750).hb
      [] code = "TDUlc"        -> TerminatorHexbits(w)
      [] code = "HDU"          -> HeaderHexbits(w)
      [] code = "ESS"          -> [h \in 0..43 |-> IF h < 16 THEN EssB(w)[h] ELSE extract2V(w)[h - 16]]
      [] code \in DOMAIN acchSpecFor ->
           LET where == Carries(acchSpecFor[code])
           IN  [h \in 0..Len(where) \div 3 - 1 |-> Hexbit(w, where, h)]
      [] code = "Erasures"     -> [i \in DOMAIN w \ Punctured |-> w[i]]
      [] OTHER                 -> w

\* How many symbols may be wrong, by the code's minimum distance.
Radius ==
    [RS |-> 2, RS24 |-> 6, Erasures |-> 2, LC |-> 6, ES |-> 4, TDUlc |-> 6, HDU |-> 8, FACCH |-> 9,
     SACCH |-> 11, LCCH |-> 11, ESS |-> 14]

\* b could be a, with no more errors than the code is made for.
Near(code, a, b) ==
    CASE code \in DOMAIN Radius ->
           LET x == Symbols(code, a)
               y == Symbols(code, b)
           IN  Cardinality({i \in DOMAIN x : x[i] # y[i]}) <= Radius[code]
      [] code = "NID"       -> BitsDiffer(a, b) <= 11
      [] code = "Golay"     -> BitsDiffer(a \ {0}, b \ {0}) <= 3
      [] code = "Hamming10" -> BitsDiffer(a, b) <= 1
      [] code = "Voice"     ->
           LET x == extractVCW(a)
               y == extractVCW(b)
           IN  /\ BitsDiffer(x[0] \ {0}, y[0] \ {0}) <= 3
               /\ BitsDiffer(x[1], y[1]) <= 3
               /\ x[2] = y[2] /\ x[3] = y[3]
      [] code = "IMBE"      ->
           \A r \in 0..7 : BitsDiffer(a[r], b[r]) <= (IF r < 4 THEN 3 ELSE IF r < 7 THEN 1 ELSE 0)
      [] code = "AMBE"      ->
           /\ BitsDiffer(a[0] \ {0}, b[0] \ {0}) <= 3
           /\ BitsDiffer(a[1], b[1]) <= 3
           /\ a[2] = b[2] /\ a[3] = b[3]
      [] code \in {"Half", "ThreeQuarters"} ->
           Spent(HardPrices(b), a)[Len(a)] <= (IF code = "Half" THEN 2 ELSE 1)
      [] code \in {"Block", "BlockThreeQuarters"} ->
           Cardinality({i \in DOMAIN a : a[i] # b[i]}) <= (IF code = "Block" THEN 2 ELSE 1)
      [] OTHER              -> a = b

\* What there is to find in the data: of MAC messages, those that are part of an alias; of
\* signalling blocks, all.
Meant(code, data) ==
    CASE code = "MAC"  -> SelectSeq(data, LAMBDA msg : msg[1] \in {145, 149, 168})
      [] code = "TSDU" -> [b \in DOMAIN data |-> data[b].data]
      [] OTHER -> data

\* The tokens there is something to ask for, and what the questions find.
Asked == {102, 105, 81, 85, 108, 86, 54, RESPONSE}

Answers(lrrp) ==
    {answer.token : answer \in {a \in {Position(lrrp), Circle(lrrp), Speed(lrrp), Heading(lrrp),
                                     Version(lrrp), Response(lrrp)} : a.ok}}

\* The bytes of the keystream, from 0, for the w-th codeword of a superframe.
UsedFor(phase2, w) ==
    LET at == IF phase2 THEN CodewordOffsetP2(w \div 4, w % 4) ELSE CodewordOffset(w % 9, w >= 9)
    IN  at .. at + (IF phase2 THEN 6 ELSE 10)

Decoded == result # Nothing

\* With no more errors than the code is made for, what was sent is what comes out, and
\* of a datagram no byte is left over and each token is found (frame.go:527, control.go:180, phase2/acch.go:82,
\* phase2/ess.go:105, phase2/voice.go:98, dissect.go:30).
Corrected ==
    Decoded /\ Near(job.code, sent, received) =>
        /\ result.ok
        /\ DataIn(job.code, result) = Meant(job.code, job.data)
        /\ job.code = "PDU" =>
             /\ result.left = <<>>
             /\ \A t \in DOMAIN job.data :
                    job.data[t].id \in Asked => job.data[t] \in Answers(result.lrrp)

\* A decoder that says it has succeeded has found a codeword, of the length that is
\* sent, no farther away than it may correct: with more errors it may be the wrong one,
\* but never something that is no codeword (rs.go:295, rs.go:442, phase2/ess.go:105).
\* Of a voice frame it says so when its first word is as far as four bits from any
\* (golay.go:99); a checksum lets nothing pass that these jobs changed (crc9.go:36,
\* pdu.go:202).  What ADP has deciphered is the voice only under the same indicator, and
\* no byte of its keystream is used for two codewords (adp.go:98, adp.go:150).
Honest ==
    Decoded /\ result.ok =>
        CASE job.code \in DOMAIN Radius \cup {"NID", "Golay"} ->
               Near(job.code, Encode(job.code, DataIn(job.code, result)), received)
          [] job.code = "Voice" ->
               LET c0 == extractVCW(received)[0]
               IN  result.frame.uncorrectable
                     <=> BitsDiffer(WithParity(golayEncode(result.frame.u[1])), c0) >= 4
          [] job.code \in {"CRC9", "PDU"} -> DataIn(job.code, result) = job.data
          [] job.code = "ADP" ->
               /\ result.data.cw = job.data.cw <=> received.mi = job.data.mi
               /\ \A w \in 0..17 : UsedFor(job.data.phase2, w) \subseteq 0..ADPKeystreamLen-1
               /\ \A v, w \in 0..17 : v # w =>
                      UsedFor(job.data.phase2, v) \cap UsedFor(job.data.phase2, w) = {}
          [] OTHER -> TRUE

\* No other data of that length is closer to what was received than what the Viterbi
\* search returns, of hard decisions and of soft ones (trellis.go:77, trellis.go:188,
\* trellis34.go:59, trellis34.go:178).
MostLikely ==
    Decoded /\ job.code \in {"Half", "ThreeQuarters"} \cup Soft =>
        LET table  == IF job.code \in {"Half", "SoftHalf"} THEN trellisNext ELSE trellis34Transition
            prices == IF job.code \in Soft THEN SoftPrices(Softened(received)) ELSE HardPrices(received)
        IN  \A other \in [DOMAIN job.data -> States(table)] :
                Cost(table, prices, result.data) <= Cost(table, prices, other)
=============================================================================
