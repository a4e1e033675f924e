------------------------------ MODULE MCCodecs ------------------------------
(***************************************************************************)
(* Jobs for Codecs: for each code some data, undisturbed, with as many     *)
(* errors as the code is made for, and with more.  The errors that are     *)
(* more than that are chosen, where it matters, as a part of another       *)
(* codeword, the case in which a decoder could be led astray.              *)
(***************************************************************************)
EXTENDS Codecs

Job(code, data, noise) == [code |-> code, data |-> data, noise |-> noise]

For(code, datas, noises) == {Job(code, data, noise) : data \in datas, noise \in noises}

None == <<>>

\* Errors of value v in the positions of set s.
Errors(s, v) == [i \in s |-> v]

\* A word of parity symbols that is part of a codeword whose only data is padding: the
\* shortest error that makes one of the shortened code into one that is not.
Padding(parity, at) == Systematic(Ord, Ord - parity, [i \in 0..Ord-1 |-> IF i = at THEN 1 ELSE 0])

-----------------------------------------------------------------------------

RS ==
    For("RS", {0 :> 1 @@ 1 :> 2 @@ 2 :> 3 @@ 3 :> 4, 0 :> 63 @@ 1 :> 17 @@ 2 :> 0 @@ 3 :> 5},
        {None, Errors({0}, 1), Errors({7}, 63), Errors({0, 1}, 9), Errors({3, 6}, 33),
         Errors({2, 3, 4}, 1), Errors({0, 1, 7}, 21), Errors({0, 2, 4, 6}, 2)})

RS24 ==
    For("RS24", {[i \in 0..11 |-> (5 * i * i + 7) % 64]},
        {None, Errors(0..5, 9), Errors({0, 5, 9, 12, 20, 23}, 1), Errors(0..6, 9)})

Erasures ==
    For("Erasures", {0 :> 63 @@ 1 :> 17 @@ 2 :> 0 @@ 3 :> 5},
        {None, Errors({0, 1}, 5), Errors({0, 1, 2, 3}, 7), Errors({0, 1, 8, 9}, 7), Errors({1, 4}, 3),
         Errors({0, 1, 2, 3, 4}, 7), Errors({0, 5, 6, 7}, 1)})

LCBytes  == <<0, 0, 4, 0, 4, 87, 1, 226, 64>>
LCBytes2 == <<68, 0, 4, 17, 200, 33, 1, 226, 64>>
ESBytes  == <<107, 16, 192, 149, 79, 119, 33, 104, 0, 170, 18, 52>>
HDUBytes == <<107, 16, 192, 149, 79, 119, 33, 104, 0, 0, 170, 18, 52, 4, 87>>

\* Bits of a payload that change the hexbits by f, none of them seen by the Hamming code.
HexNoise(f) == AsPayload(f)

LinkControls ==
    For("LC", {LCBytes}, {{}, HexNoise(Errors(0..5, 9)), HexNoise(Errors({0, 5, 9, 12, 20, 23}, 1)),
                          HexNoise(Errors(0..6, 9)), {PayloadBit(h, h % 10) : h \in 0..23}})
    \cup For("ES", {ESBytes}, {{}, HexNoise(Errors({0, 15, 16, 23}, 40)),
              HexNoise([h \in 19..23 |-> Padding(8, 30)[23 - h]])})
    \cup For("TDUlc", {LCBytes, LCBytes2}, {None, Errors(0..11, {1, 5, 23}), Errors({0, 4, 11}, {0, 12, 13, 20, 22}),
              Errors(0..3, {12, 14, 16, 18, 20})})
    \cup For("HDU", {HDUBytes}, {None, Errors(0..35, {3, 14}), Errors(4..11, {12, 13, 14, 15, 16})})

-----------------------------------------------------------------------------

ACCHBytes(n) == SubSeq(<<96, 1, 4, 4, 87, 1, 226, 64, 145, 144, 4, 17, 170, 164, 17, 0, 9, 3, 44, 7>>, 1, n)

HexbitNoise(f) == OnAir([h \in 0..43 |-> IF h \in DOMAIN f THEN f[h] ELSE 0])

ACCH ==
    For("FACCH", {ACCHBytes(16)}, {None, Errors({30 * i + 25 : i \in 0..3} \cup {32, 41, 63, 113, 117}, 1)})
    \cup For("SACCH", {ACCHBytes(19)}, {None, Errors({12 * i + 24 : i \in 0..10}, 2),
                                         Errors({6 * i + 24 : i \in 0..20}, 2)})
    \cup For("LCCH", {ACCHBytes(20)}, {None, Errors({12 * i + 24 : i \in 0..10}, 3)})
    \cup For("ESS", {ESBytes}, {None, HexbitNoise(Errors({3 * i : i \in 0..13}, 5)),
              HexbitNoise(Errors(0..13, 1)), HexbitNoise([h \in 29..43 |-> Padding(28, 50)[43 - h]])})

\* A group voice user, an alias in two parts, and a length that is not in the table.
Messages ==
    <<<<1, 4, 4, 87, 1, 226, 64>>, <<145, 144, 6, 1, 2, 3>>, <<8, 3, 0>>, <<149, 144, 5, 9, 9>>>>

MAC ==
    For("MAC", {Messages, <<Messages[2], Messages[1]>>, <<Messages[4], <<17, 1, 0, 0, 0, 0>>, Messages[2], <<0, 0>> >>},
        {None})

-----------------------------------------------------------------------------

Words == {{}, {0, 3, 7, 11}}

Bits ==
    For("NID", {[nac |-> 1, duid |-> 5], [nac |-> 2, duid |-> 15]},
        {{}, 0..10, {6 * i : i \in 0..10}, 20..31, {7 * i : i \in 0..9}, 0..29})
    \cup For("Golay", Words, {{}, {0}, {1, 9, 23}, {2, 13, 14}, {0, 3, 4, 5}, {20, 21, 22, 23}})
    \cup For("Hamming10", {{0, 2, 5}}, {{b} : b \in 0..9} \cup {{}})
    \cup For("CRC9", {{0, 64, 127}, 1..50}, {{}, {16}, {143}, {7}, {0}, 100..108, {7, 143}})
    \cup For("Voice", {<<{0, 11}, {3, 4, 5}, {0, 10}, {13}>>},
             {{}, {0, 4, 8}, {1, 2, 3}, {0, 4, 8, 12}, {25, 29, 33}, {0, 24, 48, 68}, {21, 0, 4, 8}})
    \cup For("IMBE", {<<{0, 11}, {3, 4, 5}, {}, 0..11, {0, 10}, {5}, {}, {0, 6}>>},
             {None, Errors({0, 1, 2, 3}, {0, 11, 22}), Errors({4, 5, 6}, {14}), Errors({0, 5}, {3}),
              Errors({1}, {1, 2, 3, 20})})
    \cup For("AMBE", {<<{0, 11}, {3, 4, 5}, {0, 10}, {13}>>},
             {None, 0 :> {1, 13, 23} @@ 1 :> {0, 12, 22}, 0 :> {0}, 1 :> {2, 3}, 2 :> {4}})

Long(n, states) == [i \in 1..n |-> (i * i + (i \div 3)) % states]

Trellises ==
    For("Half", {<<1, 2, 3, 0>>, <<0, 3, 3, 1>>, <<3, 0, 1, 2>>},
        {None, Errors({2}, 1), Errors({1, 4}, 8), Errors({2}, 15), Errors({2, 3}, 6)})
    \cup For("ThreeQuarters", {<<1, 7, 3>>, <<6, 0, 5>>}, {None, Errors({2}, 1), Errors({3}, 12), Errors({1, 2}, 3)})
    \cup For("SoftHalf", {<<1, 2, 3, 0>>, <<0, 3, 3, 1>>},
             {None, Errors({2, 3}, 2), Errors({1, 5, 8}, -3), Errors({4}, 1)})
    \cup For("SoftThreeQuarters", {<<1, 7, 3>>}, {None, Errors({2, 6}, -2), Errors({3, 4, 5}, 1)})
    \cup For("Block", {Long(48, 4)}, {None, Errors({0, 195}, 1), Errors({40, 41}, 1)})
    \cup For("BlockThreeQuarters", {Long(48, 8)}, {None, Errors({100}, 1), Errors({195}, 1)})

-----------------------------------------------------------------------------

\* A heading, an identity and a time, and a heading on its own.
Tokens1 == <<[id |-> 86, raw |-> <<45>>], [id |-> 52, raw |-> <<100, 66, 156, 16, 98>>]>>
Tokens2 == <<[id |-> 86, raw |-> <<45>>]>>

\* A position and all that goes with it, and one of each other kind with a response.
Tokens3 == <<[id |-> RESPONSE, raw |-> <<129, 5>>], [id |-> 54, raw |-> <<1>>],
             [id |-> 102, raw |-> <<64, 1, 2, 3, 160, 5, 6, 7>>], [id |-> 108, raw |-> <<0, 44>>]>>
Tokens4 == <<[id |-> RESPONSE, raw |-> <<16>>], [id |-> 81, raw |-> <<1, 2, 3, 4, 5, 6, 7, 8, 0, 9>>]>>
Tokens5 == <<[id |-> 105, raw |-> <<1, 2, 3, 4, 5, 6, 7, 8, 9, 10, 11>>]>>

Block(data) == [data |-> data, crc |-> TRUE]
Lost        == [data |-> [b \in 1..16 |-> 5], crc |-> FALSE]

Packet ==
    For("PDU", {Tokens1, Tokens2, Tokens3, Tokens4, Tokens5}, {None, 2 :> Lost, 4 :> Lost})
    \cup For("TSDU", {<<Block(<<0, 1>>), Block(<<0, 2>>), Block(<<128, 3>>)>>, <<Block(<<131, 7>>)>>},
             {None, 1 :> [data |-> <<130, 1>>, crc |-> FALSE]})

\* A superframe of voice bursts and one of two LDUs, under one indicator and another.
Indicator(last) == <<107, 16, 192, 149, 79, 119, 33, last, 0>>

AKey == <<18, 52, 86>>

ADP ==
    For("ADP", {[phase2 |-> TRUE, mi |-> Indicator(104), cw |-> [w \in 0..17 |-> <<{w % 12, 11}, {3}, {}, {0, 13}>>]],
                [phase2 |-> FALSE, mi |-> Indicator(104), cw |-> [w \in 0..17 |-> {w, 70 + w}]]},
        {None, Indicator(105)})

CodecJobs == RS \cup RS24 \cup ADP \cup Erasures \cup LinkControls \cup ACCH \cup MAC \cup Bits \cup Trellises \cup Packet
=============================================================================
