------------------------------ MODULE Trellis ------------------------------
(***************************************************************************)
(* The trellis codes of the control channel and of packet data             *)
(* (trellis.go, trellis34.go), and the soft bits their soft decoders take  *)
(* (softbit.go).  A code is a table: for a state and the next one, which   *)
(* is the data, the four bits sent, as a number.  The two rates, and hard  *)
(* and soft decisions, share the Viterbi search: they differ in the table  *)
(* and in what a step costs.                                               *)
(***************************************************************************)
EXTENDS Integers, Sequences, FiniteSets, FiniteSetsExt

trellisNext == <<<<2, 12, 1, 15>>, <<14, 0, 13, 3>>, <<9, 7, 10, 4>>, <<5, 11, 6, 8>>>>

trellis34Transition ==
    <<<<2, 13, 14, 1, 7, 8, 11, 4>>, <<14, 1, 7, 8, 11, 4, 2, 13>>,
      <<10, 5, 6, 9, 15, 0, 3, 12>>, <<6, 9, 15, 0, 3, 12, 10, 5>>,
      <<15, 0, 3, 12, 10, 5, 6, 9>>, <<3, 12, 10, 5, 6, 9, 15, 0>>,
      <<7, 8, 11, 4, 2, 13, 14, 1>>, <<11, 4, 2, 13, 14, 1, 7, 8>>>>

States(table)      == 0 .. Len(table) - 1
Sent(table, s, ns) == table[s + 1][ns + 1]

\* The data, then a zero that takes the encoder back to state 0.
Flushed(data) == Append(data, 0)

trellisDibitEncode(table, data) ==
    LET path == <<0>> \o Flushed(data)
    IN  [t \in 1..Len(data) + 1 |-> Sent(table, path[t], path[t + 1])]

-----------------------------------------------------------------------------
(* What it costs to take a step for one that sent cw.                      *)

BitOf(a, i) == (a \div 2^i) % 2

OnesCount(a, b) == Cardinality({i \in 0..3 : BitOf(a, i) # BitOf(b, i)})

\* How many of the bits differ that are sent for two steps.
Differ(table, s, ns, t, nt) == OnesCount(Sent(table, s, ns), Sent(table, t, nt))

\* So many do as two ways part, so many as they meet, and so many on every step between.
ApartBy(table, part, apart, meet) ==
    \A s, t, ns, nt \in States(table) :
        /\ ns # nt          => Differ(table, s, ns, s, nt) >= part
        /\ s # t            => Differ(table, s, ns, t, ns) >= meet
        /\ s # t /\ ns # nt => Differ(table, s, ns, t, nt) >= apart

\* Ways that part and meet again differ in d bits, be it at once or later.
DetourOf(table, d) ==
    /\ \A s, a, b, ns \in States(table) :
           a # b => Differ(table, s, a, s, b) + Differ(table, a, ns, b, ns) >= d
    /\ \E part, apart, meet \in 0..4 : ApartBy(table, part, apart, meet) /\ part + apart + meet >= d

\* Five bits apart two errors leave a word nearest, and three apart one.
ASSUME CodesApart == DetourOf(trellisNext, 5) /\ DetourOf(trellis34Transition, 3)

\* A soft bit has a cost for zero and one for one.
branchCost(soft, cw) ==
    LET cost(j) == soft[j + 1][BitOf(cw, 3 - j) + 1]
    IN  cost(0) + cost(1) + cost(2) + cost(3)

\* The squared distance of x to the nearest level with that bit: softDemapSymbol.
\* The levels are 1 and 3 for 00 and 01, -1 and -3 for 10 and 11.
Nearest(x, levels) == Min({(x - v) * (x - v) : v \in levels})

softDemapSymbol(x) == <<<<Nearest(x, {1, 3}),  Nearest(x, {-1, -3})>>,
                        <<Nearest(x, {1, -1}), Nearest(x, {3, -3})>>>>

\* Four soft bits, from two symbols.
SoftSymbol(x, y) == softDemapSymbol(x) \o softDemapSymbol(y)

-----------------------------------------------------------------------------
(* The search.  It keeps one way to every state that has been reached: its *)
(* cost, and the states on it.  Of ways that cost the same, the one through *)
(* the lowest state, which was tried first, is kept.                       *)

Start == [at |-> 0, cost |-> 0, path |-> <<>>]

Via(table, way, price, ns) == way.cost + price[Sent(table, way.at, ns)]

\* For comparison: the first, whatever it costs.
FirstReached(table, ways, price, ns) ==
    CHOOSE way \in ways : \A other \in ways : way.at <= other.at

\* The way that is continued to ns: the cheapest then, and of those the first.
CameFrom(table, ways, price, ns) ==
    CHOOSE way \in ways : \A other \in ways :
        IF other.at < way.at THEN Via(table, way, price, ns) <  Via(table, other, price, ns)
                             ELSE Via(table, way, price, ns) <= Via(table, other, price, ns)

Step(table, ways, price, ns) ==
    LET from == CameFrom(table, ways, price, ns)
    IN  [at |-> ns, cost |-> Via(table, from, price, ns), path |-> Append(from.path, ns)]

After(table, ways, price) == {Step(table, ways, price, ns) : ns \in States(table)}

\* The ways there are after each symbol.
Search(table, prices) ==
    LET ways[t \in 0..Len(prices)] ==
            IF t = 0 THEN {Start} ELSE After(table, ways[t - 1], prices[t])
    IN  ways

\* The way that ends in state 0, without the flush.
Viterbi(table, prices) ==
    LET best == CHOOSE way \in Search(table, prices)[Len(prices)] : way.at = 0
    IN  SubSeq(best.path, 1, Len(prices) - 1)

\* What a word costs, symbol by symbol.
Spent(prices, word) ==
    LET upTo[t \in 0..Len(word)] == IF t = 0 THEN 0 ELSE upTo[t - 1] + prices[t][word[t]]
    IN  upTo

\* The cost of having sent data, which the search is to keep low.
Cost(table, prices, data) ==
    LET word == trellisDibitEncode(table, data)
    IN  Spent(prices, word)[Len(word)]

\* What each symbol costs as each codeword.
HardPrices(received) ==
    [t \in DOMAIN received |-> [cw \in 0..15 |-> OnesCount(received[t], cw)]]
SoftPrices(soft) ==
    [t \in DOMAIN soft |-> [cw \in 0..15 |-> branchCost(soft[t], cw)]]

trellisDibitDecode(received)   == Viterbi(trellisNext, HardPrices(received))
trellisSoftDecode(soft)        == Viterbi(trellisNext, SoftPrices(soft))
trellis34DibitDecode(received) == Viterbi(trellis34Transition, HardPrices(received))
trellis34SoftDecode(soft)      == Viterbi(trellis34Transition, SoftPrices(soft))

-----------------------------------------------------------------------------
(* The block interleaver: where bit i of the code is on the air.           *)

tsbkDeinterleaveTab ==
    [i \in 0..195 |-> IF i >= 192 THEN 48 + (i - 192)
                      ELSE 4 * (i \div 16) + <<0, 52, 100, 148>>[((i % 16) \div 4) + 1] + (i % 4)]

\* No two bits are in the same place.
ASSUME Interleaves ==
    \A i, j \in 0..195 :
        tsbkDeinterleaveTab[i] \in 0..195 /\ (i # j => tsbkDeinterleaveTab[i] # tsbkDeinterleaveTab[j])

tsbkDeinterleave(in) == [i \in 0..195 |-> in[tsbkDeinterleaveTab[i]]]

tsbkInterleave(in) ==
    [j \in 0..195 |-> in[CHOOSE i \in 0..195 : tsbkDeinterleaveTab[i] = j]]

\* Bits 4t-4 to 4t-1 are symbol t.
ToSymbols(bits) ==
    LET bit(t, j) == bits[4 * t - 4 + j]
    IN  [t \in 1..49 |-> 8 * bit(t, 0) + 4 * bit(t, 1) + 2 * bit(t, 2) + bit(t, 3)]
ToBits(symbols) == [i \in 0..195 |-> BitOf(symbols[(i \div 4) + 1], 3 - (i % 4))]

trellisEncode(data)   == tsbkInterleave(ToBits(trellisDibitEncode(trellisNext, data)))
trellis34Encode(data) == tsbkInterleave(ToBits(trellisDibitEncode(trellis34Transition, data)))

viterbiDecodeRaw(received)   == trellisDibitDecode(ToSymbols(tsbkDeinterleave(received)))
viterbi34DecodeRaw(received) == trellis34DibitDecode(ToSymbols(tsbkDeinterleave(received)))
=============================================================================
