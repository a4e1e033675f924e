------------------------------ MODULE Packets ------------------------------
(***************************************************************************)
(* Signalling and data blocks once the trellis code is off them: the       *)
(* blocks of a TSDU (control.go), those of a packet data unit (pdu.go),    *)
(* and the layers that are parsed out of its payload (sndcp.go, ipv4.go,   *)
(* udp.go, icmp.go, lrrp.go, ars.go), as processFrame (frame.go) and       *)
(* Dissect (dissect.go) do it.  A byte string is a sequence of 0..255; a   *)
(* block is what the decoder gives for its 196 bits, and whether the       *)
(* block's own checksum holds.  Text and units of measure are left out.    *)
(***************************************************************************)
EXTENDS Integers, Sequences, SequencesExt, FiniteSets, FiniteSetsExt

Absent == [ok |-> FALSE]

From(bytes, first) == SubSeq(bytes, first, Len(bytes))
Word(bytes, i)     == bytes[i] * 256 + bytes[i + 1]

-----------------------------------------------------------------------------
(* TSDU: blocks one after another until one says that it is the last.  One  *)
(* whose checksum fails is passed over.                                     *)

LastBlock(block) == block.data[1] >= 128

\* Whether block b is still looked at.
Reached(blocks, b) == \A a \in 1..b-1 : ~(blocks[a].crc /\ LastBlock(blocks[a]))

parseTSBKs(blocks) ==
    LET kept[n \in 0..Len(blocks)] ==
            IF n = 0 THEN <<>>
            ELSE IF Reached(blocks, n) /\ blocks[n].crc THEN Append(kept[n-1], blocks[n].data)
            ELSE kept[n-1]
    IN  kept[Len(blocks)]

-----------------------------------------------------------------------------
(* Packet data unit: a header of twelve bytes and as many blocks as it says. *)

Header(data) ==
    [format |-> data[1] % 32, confirmed |-> (data[1] \div 64) % 2 = 1, sap |-> data[2] % 64,
     blocks |-> data[7] % 128, pad |-> data[8] % 32, offset |-> data[10] % 64]

\* P25's CRC-32, of the bits of bytes, as the set of the positions of its ones.
crc32Poly == {32, 26, 23, 22, 16, 12, 11, 10, 8, 7, 5, 4, 2, 1, 0}

Flip(a, b) == (a \ b) \cup (b \ a)

BitsOfByte(byte) == {i \in 0..7 : (byte \div 2^i) % 2 = 1}

\* A bit shifted out of the top is replaced by what the polynomial makes of it.
DivideAt(crc, i) == IF i \in crc THEN Flip(crc, {e + i - 32 : e \in crc32Poly}) ELSE crc

\* The remainder so far, times x^8, with one more byte added at the top.
AddByte(crc, byte) ==
    LET whole == Flip({i + 8 : i \in crc}, {i + 32 : i \in BitsOfByte(byte)})
        left[k \in 0..8] == IF k = 0 THEN whole ELSE DivideAt(left[k-1], 40 - k)
    IN  IF whole = {} THEN {} ELSE left[8]

crc32P25(bytes) ==
    LET crc[n \in 0..Len(bytes)] ==
            IF n = 0 THEN {}
            ELSE LET before == crc[n-1] IN CASE before \subseteq 0..31 -> AddByte(before, bytes[n])
    IN  Flip(crc[Len(bytes)], 0..31)

\* The four bytes that the set stands for.
AsBytes(crc) == [b \in 1..4 |-> MapThenSumSet(LAMBDA i : 2^(i - 8 * (4 - b)),
                                              {i \in crc : i \div 8 = 4 - b})]

EndsInCRC(payload) == From(payload, Len(payload) - 3) = AsBytes(crc32P25(SubSeq(payload, 1, Len(payload) - 4)))

\* Blocks are taken as they are, whether their own checksum holds or not.  The checksum
\* of the whole is looked at only if all of it is there.
parsePDU(header, blocks) ==
    LET h       == Header(header.data)
        taken   == SubSeq(blocks, 1, Min({h.blocks, Len(blocks)}))
        payload == FlattenSeq([b \in DOMAIN taken |-> taken[b].data])
    IN  [headerOK |-> header.crc, header |-> h, payload |-> payload,
         crc9OK |-> IF h.confirmed THEN Cardinality({b \in DOMAIN taken : taken[b].crc}) ELSE 0,
         payloadOK |-> Len(taken) = h.blocks /\ Len(payload) >= 4 /\ EndsInCRC(payload)]

-----------------------------------------------------------------------------
(* The layers.                                                             *)

PACKET_DATA == 22   \* the format of packet data

parseSNDCP(pdu) ==
    LET off == pdu.header.offset
        end == Len(pdu.payload) - 4 - pdu.header.pad
    IN  IF pdu.header.format # PACKET_DATA \/ end < off THEN Absent
        ELSE [ok |-> TRUE, hasHeader |-> off = 2,
              ipCompression |-> IF off = 2 THEN pdu.payload[2] \div 16 ELSE 0,
              user |-> SubSeq(pdu.payload, off + 1, end)]

\* Version, header length and total length have to agree with each other and the buffer.
HeaderFits(buf)  == Len(buf) >= 20 /\ buf[1] \div 16 = 4 /\ (buf[1] % 16) * 4 \in 20..Len(buf)
LengthFits(buf)  == Word(buf, 3) \in (buf[1] % 16) * 4 .. Len(buf)

parseIPv4(buf) ==
    IF ~HeaderFits(buf) THEN Absent
    ELSE IF ~LengthFits(buf) THEN Absent
    ELSE [ok |-> TRUE, protocol |-> buf[10], src |-> SubSeq(buf, 13, 16), dst |-> SubSeq(buf, 17, 20),
          payload |-> SubSeq(buf, (buf[1] % 16) * 4 + 1, Word(buf, 3))]

parseUDP(buf) ==
    IF Len(buf) < 8 THEN Absent
    ELSE IF Word(buf, 5) \notin 8..Len(buf) THEN Absent
    ELSE [ok |-> TRUE, dstPort |-> Word(buf, 3), payload |-> SubSeq(buf, 9, Word(buf, 5))]

\* The port of the datagram that could not be delivered, if enough of it is quoted.
parseICMP(buf) ==
    LET ihl == (buf[9] % 16) * 4
    IN  IF Len(buf) < 2 THEN Absent
        ELSE [ok |-> TRUE, type |-> buf[1], code |-> buf[2],
              origPort |-> IF buf[1] = 3 /\ Len(buf) >= 28
                           THEN IF ihl >= 20 /\ Len(buf) - 8 >= ihl + 4 THEN <<Word(buf, ihl + 11)>>
                                ELSE <<>>
                           ELSE <<>>]

parseARS(buf) ==
    LET raw == SubSeq(buf, 4, 2 + Word(buf, 1))
    IN  IF Len(buf) < 3 THEN Absent
        ELSE IF Word(buf, 1) < 1 \/ 2 + Word(buf, 1) > Len(buf) THEN Absent
        ELSE [ok |-> TRUE, type |-> buf[3] % 16, raw |-> raw,
              timestamp |-> IF buf[3] < 128 \/ Len(raw) < 6 THEN <<>>
                            ELSE IF raw[2] = 4 THEN SubSeq(raw, 3, 6) ELSE <<>>]

-----------------------------------------------------------------------------
(* LRRP: records of a type, a length and tokens, one after another.         *)

\* Tokens by length, the id included; two say theirs, and the others are not known.
TokensOf(length) ==
    CASE length = 1  -> {56, 58, 66, 80, 82, 84, 87, 98, 100}
      [] length = 2  -> {35, 49, 54, 74, 86, 97, 115, 120}
      [] length = 3  -> {108}
      [] length = 6  -> {52}
      [] length = 9  -> {102}
      [] length = 11 -> {81}
      [] length = 12 -> {105}
      [] length = 16 -> {85}

FixedLengths == {1, 2, 3, 6, 9, 11, 12, 16}

IDENTITY == 34
RESPONSE == 55

lrrpTokenLength(rest) ==
    LET fixed == {n \in FixedLengths : rest[1] \in TokensOf(n)}
    IN  IF fixed # {} THEN CHOOSE n \in fixed : TRUE
        ELSE IF rest[1] \notin {IDENTITY, RESPONSE} \/ Len(rest) < 2 THEN 0
        ELSE IF rest[1] = IDENTITY THEN rest[2] + 2
        ELSE IF rest[2] >= 128 THEN 3 ELSE 2

Token(rest, n) == [id |-> rest[1], raw |-> SubSeq(rest, IF rest[1] = IDENTITY THEN 3 ELSE 2, n)]

\* One token further, unless it is not known or is cut short.
TokenAfter(t) ==
    LET n == IF t.trailing = <<>> THEN 0 ELSE lrrpTokenLength(t.trailing)
    IN  IF n = 0 \/ n > Len(t.trailing) THEN t
        ELSE [tokens |-> Append(t.tokens, Token(t.trailing, n)), trailing |-> From(t.trailing, n + 1)]

\* The tokens of one record, and what is left.
Tokens(record) ==
    LET after[n \in 0..Len(record)] ==
            IF n = 0 THEN [tokens |-> <<>>, trailing |-> record] ELSE TokenAfter(after[n-1])
    IN  after[Len(record)]

\* One record further.  A last byte on its own, after the records, is not kept.
RecordAfter(r) ==
    LET end == 2 + r.rest[2]
        t   == Tokens(SubSeq(r.rest, 3, end))
    IN  IF Len(r.rest) < 2 THEN r
        ELSE IF end > Len(r.rest) THEN [r EXCEPT !.trailing = @ \o r.rest, !.rest = <<>>]
        ELSE [tokens |-> r.tokens \o t.tokens, trailing |-> r.trailing \o t.trailing,
              rest |-> From(r.rest, end + 1)]

Records(buf) ==
    LET after[n \in 0..Len(buf)] ==
            IF n = 0 THEN [tokens |-> <<>>, trailing |-> <<>>, rest |-> buf] ELSE RecordAfter(after[n-1])
    IN  after[Len(buf)]

parseLRRP(buf) ==
    LET r == Records(buf)
    IN  IF Len(buf) < 2 THEN Absent
        ELSE IF 2 + buf[2] > Len(buf) THEN Absent
        ELSE [ok |-> TRUE, type |-> buf[1], tokens |-> r.tokens, trailing |-> r.trailing]

\* The first token of one of the ids in needs, and of at least the length it needs.
FirstOf(lrrp, needs) ==
    LET which == {t \in DOMAIN lrrp.tokens :
                     /\ lrrp.tokens[t].id \in DOMAIN needs
                     /\ Len(lrrp.tokens[t].raw) >= needs[lrrp.tokens[t].id]}
    IN  IF which = {} THEN Absent ELSE [ok |-> TRUE, token |-> lrrp.tokens[Min(which)]]

Position(lrrp) == FirstOf(lrrp, 102 :> 8 @@ 105 :> 11 @@ 81 :> 8 @@ 85 :> 12)
Circle(lrrp)   == FirstOf(lrrp, 81 :> 10 @@ 85 :> 10)
Speed(lrrp)    == FirstOf(lrrp, 108 :> 2)
Heading(lrrp)  == FirstOf(lrrp, 86 :> 1)
Version(lrrp)  == FirstOf(lrrp, 54 :> 1)

\* The longer form of a response needs a second byte.
Response(lrrp) ==
    LET long(token) == token.id = RESPONSE /\ token.raw # <<>> /\ token.raw[1] >= 128
        whole == SelectSeq(lrrp.tokens, LAMBDA token : ~long(token) \/ Len(token.raw) >= 2)
    IN  FirstOf([lrrp EXCEPT !.tokens = whole], RESPONSE :> 1)

-----------------------------------------------------------------------------
(* What becomes of a packet.                                               *)

LRRPPort == 4001
ARSPort  == 4005

Application(udp) ==
    CASE udp.dstPort = LRRPPort -> [layer |-> "LRRP", data |-> parseLRRP(udp.payload)]
      [] udp.dstPort = ARSPort  -> [layer |-> "ARS", data |-> parseARS(udp.payload)]
      [] OTHER -> [layer |-> "none", data |-> Absent]

\* As processFrame: the header has to be good, and IP not compressed.  The checksum of the
\* payload is not asked for.
Deliver(pdu) ==
    LET sn  == parseSNDCP(pdu)
        ip  == parseIPv4(sn.user)
        udp == parseUDP(ip.payload)
        none == [layer |-> "none", data |-> Absent]
    IN  IF ~pdu.headerOK THEN none
        ELSE IF ~sn.ok THEN none
        ELSE IF sn.hasHeader /\ sn.ipCompression # 0 THEN none
        ELSE IF ~ip.ok THEN none
        ELSE IF ip.protocol # 17 \/ ~udp.ok THEN none
        ELSE Application(udp)

\* The layers of a datagram, the last with what it could not make out of its bytes.
dissectLRRP(buf) ==
    LET l == parseLRRP(buf)
    IN  <<[name |-> "LRRP", undecoded |-> IF l.ok THEN l.trailing ELSE buf]>>

dissectARS(buf) == <<[name |-> "ARS", undecoded |-> IF parseARS(buf).ok THEN <<>> ELSE buf]>>

dissectICMP(buf) == <<[name |-> "ICMP", undecoded |-> IF parseICMP(buf).ok THEN <<>> ELSE buf]>>

dissectUDP(buf) ==
    LET udp == parseUDP(buf)
        layer(undecoded) == <<[name |-> "UDP", undecoded |-> undecoded]>>
    IN  IF ~udp.ok THEN layer(buf)
        ELSE CASE udp.dstPort = LRRPPort -> layer(<<>>) \o dissectLRRP(udp.payload)
               [] udp.dstPort = ARSPort  -> layer(<<>>) \o dissectARS(udp.payload)
               [] OTHER -> layer(udp.payload)

Dissect(raw) ==
    LET ip == parseIPv4(raw)
        layer(undecoded) == <<[name |-> "IPv4", undecoded |-> undecoded]>>
    IN  IF ~ip.ok THEN <<[name |-> "raw", undecoded |-> raw]>>
        ELSE CASE ip.protocol = 17 -> layer(<<>>) \o dissectUDP(ip.payload)
               [] ip.protocol = 1  -> layer(<<>>) \o dissectICMP(ip.payload)
               [] OTHER -> layer(ip.payload)
=============================================================================
