--------------------------- MODULE CodecsProofs ----------------------------
(***************************************************************************)
(* That the codes correct the errors they promise to, for every word that  *)
(* is sent and every error within the promise, with TLAPS proofs:          *)
(*   - the Viterbi search of the trellis codes, for every length and all   *)
(*     prices, and the errors each trellis code therefore corrects;        *)
(*   - the searches of the Reed-Solomon decoders, for every pattern;       *)
(*   - the network identifier, the Golay and the Hamming codes, and the    *)
(*     voice frames they carry;                                            *)
(*   - the CRC-9 of a data block and the keystream of a voice call.        *)
(***************************************************************************)
EXTENDS Codecs, FiniteSetTheorems, SequenceTheorems, TLAPS

-----------------------------------------------------------------------------
(* Recursion.                                                              *)

\* A set of naturals that is not empty has a least element.
LEMMA LeastIn ==
  ASSUME NEW A \in SUBSET Nat, A # {}
  PROVE  \E n \in A : \A m \in A : n <= m
<1> DEFINE T == {0..n : n \in A}
<1>1. \A n \in Nat : 0..n \in FiniteSubsetsOf(Nat)
  <2> SUFFICES ASSUME NEW n \in Nat PROVE 0..n \in FiniteSubsetsOf(Nat)
    OBVIOUS
  <2>1. IsFiniteSet(0..n)
    BY FS_Interval
  <2> QED
    BY <2>1 DEF FiniteSubsetsOf
<1>2. T \subseteq FiniteSubsetsOf(Nat) /\ T # {}
  BY <1>1
<1>3. IsWellFoundedOn(StrictSubsetOrdering(Nat), FiniteSubsetsOf(Nat))
  BY FS_StrictSubsetOrderingWellFounded
<1>4. PICK x \in T : \A y \in T : <<y, x>> \notin StrictSubsetOrdering(Nat)
  <2> HIDE DEF T
  <2> QED
    BY <1>2, <1>3, WFMin
<1>5. PICK n \in A : x = 0..n
  BY <1>4
<1>6. ASSUME NEW m \in A PROVE n <= m
  <2>1. <<0..m, 0..n>> \notin StrictSubsetOrdering(Nat)
    BY <1>4, <1>5
  <2>2. CASE m < n
    <3>1. 0..m \subseteq 0..n /\ n \in 0..n /\ n \notin 0..m
      BY <2>2
    <3>2. <<0..m, 0..n>> \in StrictSubsetOrdering(Nat)
      BY <3>1, <1>1 DEF StrictSubsetOrdering, FiniteSubsetsOf
    <3> QED
      BY <2>1, <3>2
  <2> QED
    BY <2>2
<1> QED
  BY <1>6

\* A function on 0..n whose every value is made of the one before.
IsMade(n, V, b, G) == \E f \in [0..n -> V] : f[0] = b /\ \A t \in 1..n : f[t] = G[t][f[t-1]]

\* There is one.
LEMMA Recursion ==
  ASSUME NEW n \in Nat, NEW V, NEW b \in V, NEW G \in [1..n -> [V -> V]]
  PROVE  IsMade(n, V, b, G)
<1> DEFINE Good(k) == \E f \in [0..k -> V] : f[0] = b /\ \A t \in 1..k : f[t] = G[t][f[t-1]]
           Bad == {k \in 0..n : ~Good(k)}
<1>1. Good(0)
  <2>1. [t \in 0..0 |-> b] \in [0..0 -> V] /\ [t \in 0..0 |-> b][0] = b
    OBVIOUS
  <2>2. \A t \in 1..0 : FALSE
    OBVIOUS
  <2> QED
    BY <2>1, <2>2
<1>2. ASSUME NEW k \in 1..n, Good(k - 1) PROVE Good(k)
  <2>1. PICK f \in [0..k-1 -> V] : f[0] = b /\ \A t \in 1..k-1 : f[t] = G[t][f[t-1]]
    BY <1>2
  <2>2. PICK v : v = G[k][f[k-1]]
    OBVIOUS
  <2>3. v \in V
    <3>1. k - 1 \in 0..k-1
      OBVIOUS
    <3>2. f[k-1] \in V
      BY <2>1, <3>1
    <3>3. G[k] \in [V -> V]
      OBVIOUS
    <3> QED
      BY <2>2, <3>2, <3>3
  <2>4. PICK g : g = [t \in 0..k |-> IF t = k THEN v ELSE f[t]]
    OBVIOUS
  <2>5. g \in [0..k -> V]
    <3>1. ASSUME NEW t \in 0..k, t # k PROVE f[t] \in V
      <4>1. t \in 0..k-1
        BY <3>1
      <4> QED
        BY <2>1, <4>1
    <3> QED
      BY <2>3, <2>4, <3>1
  <2>6. g[0] = b
    <3>1. 0 \in 0..k /\ 0 # k
      OBVIOUS
    <3> QED
      BY <2>1, <2>4, <3>1
  <2>7. ASSUME NEW t \in 1..k PROVE g[t] = G[t][g[t-1]]
    <3>0. t \in 0..k /\ t - 1 \in 0..k /\ t - 1 # k
      OBVIOUS
    <3>1. CASE t = k
      <4>1. g[t] = v /\ g[t-1] = f[k-1]
        BY <2>4, <3>0, <3>1
      <4> QED
        BY <2>2, <3>1, <4>1
    <3>2. CASE t # k
      <4>1. t \in 1..k-1
        BY <3>2
      <4>2. g[t] = f[t] /\ g[t-1] = f[t-1]
        BY <2>4, <3>0, <3>2
      <4> QED
        BY <2>1, <4>1, <4>2
    <3> QED
      BY <3>1, <3>2
  <2> QED
    BY <2>5, <2>6, <2>7
<1> HIDE DEF Good
<1>3. Bad = {}
  <2> SUFFICES ASSUME Bad # {} PROVE FALSE
    OBVIOUS
  <2>1. Bad \in SUBSET Nat
    OBVIOUS
  <2>2. PICK k \in Bad : \A m \in Bad : k <= m
    BY <2>1, LeastIn
  <2>3. k \in 1..n
    BY <1>1
  <2>4. k - 1 \in 0..n /\ k - 1 \notin Bad
    BY <2>2, <2>3
  <2>5. Good(k - 1)
    BY <2>4
  <2> QED
    BY <1>2, <2>3, <2>5
<1>4. Good(n)
  BY <1>3
<1> QED
  BY <1>4 DEF Good, IsMade

\* Two functions that agree at first, and go on agreeing, agree.
GoOnAgreeing(n, f, g) == f[0] = g[0] /\ \A t \in 1..n : f[t-1] = g[t-1] => f[t] = g[t]

AgreeUpTo(n, f, g) == \A t \in 0..n : f[t] = g[t]

LEMMA Agree ==
  ASSUME NEW n \in Nat, NEW f, NEW g, GoOnAgreeing(n, f, g)
  PROVE  AgreeUpTo(n, f, g)
<1> DEFINE Bad == {t \in 0..n : f[t] # g[t]}
<1> SUFFICES ASSUME Bad # {} PROVE FALSE
  BY DEF AgreeUpTo
<1>1. Bad \in SUBSET Nat
  OBVIOUS
<1>2. PICK t \in Bad : \A m \in Bad : t <= m
  BY <1>1, LeastIn
<1>3. t \in 1..n
  BY DEF GoOnAgreeing
<1>4. t - 1 \in 0..n /\ t - 1 \notin Bad
  BY <1>2, <1>3
<1> QED
  BY <1>3, <1>4 DEF GoOnAgreeing

-----------------------------------------------------------------------------
(* What a word costs.                                                      *)

\* A table that says, for every step between its states, what is sent.
IsCode(table) ==
    /\ Len(table) \in Nat \ {0}
    /\ \A s, ns \in States(table) : Sent(table, s, ns) \in 0..15

\* The state before the first symbol, and after the t-th.
Was(q, t) == IF t = 0 THEN 0 ELSE q[t]

\* What the states q are sent as.
WordOf(table, q) == [t \in 1..Len(q) |-> Sent(table, Was(q, t - 1), q[t])]

LEMMA WordType ==
  ASSUME NEW table, IsCode(table), NEW q \in Seq(States(table))
  PROVE  /\ WordOf(table, q) \in Seq(0..15) /\ Len(WordOf(table, q)) = Len(q)
         /\ \A t \in 0..Len(q) : Was(q, t) \in States(table)
<1>1. \A t \in 0..Len(q) : Was(q, t) \in States(table)
  <2> TAKE t \in 0..Len(q)
  <2>1. CASE t = 0
    BY <2>1 DEF Was, IsCode, States
  <2>2. CASE t # 0
    <3>1. t \in 1..Len(q)
      BY <2>2
    <3> QED
      BY <2>2, <3>1 DEF Was
  <2> QED
    BY <2>1, <2>2
<1>2. ASSUME NEW t \in 1..Len(q) PROVE Sent(table, Was(q, t - 1), q[t]) \in 0..15
  <2>1. t - 1 \in 0..Len(q) /\ q[t] \in States(table)
    OBVIOUS
  <2>2. Was(q, t - 1) \in States(table)
    BY <1>1, <2>1
  <2> QED
    BY <2>1, <2>2 DEF IsCode
<1>3. WordOf(table, q) \in [1..Len(q) -> 0..15]
  BY <1>2 DEF WordOf
<1>4. Len(q) \in Nat
  OBVIOUS
<1> QED
  BY <1>1, <1>3, <1>4

\* What is spent on a word is spent symbol by symbol.
LEMMA SpentIs ==
  ASSUME NEW prices \in Seq([0..15 -> Nat]), NEW word \in Seq(0..15), Len(word) <= Len(prices)
  PROVE  /\ Spent(prices, word) \in [0..Len(word) -> Nat] /\ Spent(prices, word)[0] = 0
         /\ \A t \in 1..Len(word) :
              /\ prices[t][word[t]] \in Nat
              /\ Spent(prices, word)[t] = Spent(prices, word)[t - 1] + prices[t][word[t]]
<1>1. PICK n \in Nat : n = Len(word)
  OBVIOUS
<1>2. ASSUME NEW t \in 1..n PROVE prices[t][word[t]] \in Nat
  <2>1. Len(prices) \in Nat /\ n <= Len(prices)
    BY <1>1
  <2>2. t \in 1..Len(prices)
    BY <2>1
  <2>3. word[t] \in 0..15
    BY <1>1
  <2>4. prices[t] \in [0..15 -> Nat]
    BY <2>2
  <2> QED
    BY <2>3, <2>4
<1>3. PICK price \in [1..n -> Nat] : \A t \in 1..n : price[t] = prices[t][word[t]]
  <2>1. [t \in 1..n |-> prices[t][word[t]]] \in [1..n -> Nat]
    BY <1>2
  <2> QED
    BY <2>1
<1>4. PICK G \in [1..n -> [Nat -> Nat]] : \A t \in 1..n, c \in Nat : G[t][c] = c + price[t]
  <2>1. [t \in 1..n |-> [c \in Nat |-> c + price[t]]] \in [1..n -> [Nat -> Nat]]
    BY <1>3
  <2> QED
    BY <2>1
<1>5. \A t \in 1..n, c \in Nat : G[t][c] = c + prices[t][word[t]]
  BY <1>3, <1>4
<1>6. IsMade(n, Nat, 0, G)
  BY <1>1, <1>4, Recursion
<1>7. PICK f \in [0..n -> Nat] : f[0] = 0 /\ \A t \in 1..n : f[t] = G[t][f[t-1]]
  BY <1>6 DEF IsMade
<1>8. ASSUME NEW t \in 1..n PROVE f[t] = f[t-1] + prices[t][word[t]]
  <2>1. t - 1 \in 0..n
    OBVIOUS
  <2>2. f[t-1] \in Nat
    BY <1>7, <2>1
  <2> QED
    BY <1>5, <1>7, <2>2
<1>9. PICK h : h = [t \in 0..n |-> IF t = 0 THEN 0 ELSE f[t - 1] + prices[t][word[t]]]
  OBVIOUS
<1>10. \A t \in 0..n : h[t] = f[t]
  <2> TAKE t \in 0..n
  <2>1. CASE t = 0
    BY <1>7, <1>9, <2>1
  <2>2. CASE t # 0
    <3>1. t \in 1..n
      BY <2>2
    <3> QED
      BY <1>8, <1>9, <2>2, <3>1
  <2> QED
    BY <2>1, <2>2
<1>11. f = h
  BY <1>9, <1>10
<1>12. f = [t \in 0..n |-> IF t = 0 THEN 0 ELSE f[t - 1] + prices[t][word[t]]]
  BY <1>9, <1>11
<1>13. PICK upTo : upTo = Spent(prices, word)
  OBVIOUS
<1>14. upTo = [t \in 0..n |-> IF t = 0 THEN 0 ELSE upTo[t - 1] + prices[t][word[t]]]
  BY <1>1, <1>12, <1>13 DEF Spent
<1>15. DOMAIN upTo = 0..n /\ upTo[0] = 0
  BY <1>1, <1>14
<1>16. ASSUME NEW t \in 1..n PROVE upTo[t] = upTo[t - 1] + prices[t][word[t]]
  <2>1. t \in 0..n /\ t # 0
    OBVIOUS
  <2> QED
    BY <1>14, <2>1
<1>17. \A t \in 0..n : upTo[t] = f[t]
  <2>1. upTo[0] = f[0]
    BY <1>7, <1>15
  <2>2. \A t \in 1..n : upTo[t-1] = f[t-1] => upTo[t] = f[t]
    BY <1>8, <1>16
  <2>3. AgreeUpTo(n, upTo, f)
    BY <2>1, <2>2, Agree DEF GoOnAgreeing
  <2> QED
    BY <2>3 DEF AgreeUpTo
<1>18. upTo \in [0..n -> Nat]
  <2>1. upTo = [t \in 0..n |-> upTo[t]]
    BY <1>14, <1>15
  <2> QED
    BY <1>7, <1>17, <2>1
<1> QED
  BY <1>1, <1>2, <1>13, <1>15, <1>16, <1>18

-----------------------------------------------------------------------------
(* A step of the search.                                                   *)

WaysOf(table) == [at : States(table), cost : Nat, path : Seq(States(table))]

\* What is sent has a price.
LEMMA ViaType ==
  ASSUME NEW table, IsCode(table), NEW way \in WaysOf(table), NEW price \in [0..15 -> Nat],
         NEW ns \in States(table)
  PROVE  Via(table, way, price, ns) \in Nat
<1>1. way.at \in States(table) /\ way.cost \in Nat
  BY DEF WaysOf
<1>2. Sent(table, way.at, ns) \in 0..15
  BY <1>1 DEF IsCode
<1>3. PICK p \in Nat : p = price[Sent(table, way.at, ns)]
  BY <1>2
<1>4. way.cost + p \in Nat
  BY <1>1
<1> QED
  BY <1>3, <1>4 DEF Via

\* Some way is the cheapest, and of those the first.
LEMMA CameFromIs ==
  ASSUME NEW table, IsCode(table), NEW ways \in SUBSET WaysOf(table), ways # {},
         NEW price \in [0..15 -> Nat], NEW ns \in States(table)
  PROVE  LET from == CameFrom(table, ways, price, ns)
         IN  /\ from \in ways
             /\ \A other \in ways : Via(table, from, price, ns) <= Via(table, other, price, ns)
<1> DEFINE V(way) == Via(table, way, price, ns)
<1>0. \A way \in ways : V(way) \in Nat /\ way.at \in Nat
  <2> TAKE way \in ways
  <2>1. V(way) \in Nat
    BY ViaType
  <2>2. way.at \in States(table)
    BY DEF WaysOf
  <2> QED
    BY <2>1, <2>2 DEF States, IsCode
<1> HIDE DEF V
<1> DEFINE Costs == {V(way) : way \in ways}
<1>1. Costs \in SUBSET Nat /\ Costs # {}
  BY <1>0
<1>2. PICK c \in Costs : \A d \in Costs : c <= d
  BY <1>1, LeastIn
<1> DEFINE Places == {way.at : way \in {w \in ways : V(w) = c}}
<1>3. Places \in SUBSET Nat /\ Places # {}
  BY <1>0, <1>2
<1>4. PICK a \in Places : \A b \in Places : a <= b
  BY <1>3, LeastIn
<1>5. PICK best \in ways : V(best) = c /\ best.at = a
  BY <1>4
<1>6. \A other \in ways : IF other.at < best.at THEN V(best) < V(other) ELSE V(best) <= V(other)
  <2> TAKE other \in ways
  <2>1. c <= V(other) /\ c \in Nat /\ V(other) \in Nat /\ a \in Nat /\ other.at \in Nat
    BY <1>0, <1>1, <1>2, <1>3
  <2>2. V(other) = c => a <= other.at
    BY <1>4
  <2> QED
    BY <1>5, <2>1, <2>2
<1>7. PICK from : from = CameFrom(table, ways, price, ns)
  OBVIOUS
<1>8. from \in ways /\ \A other \in ways : IF other.at < from.at THEN V(from) < V(other)
                                                                  ELSE V(from) <= V(other)
  BY <1>5, <1>6, <1>7 DEF CameFrom, V
<1>9. \A other \in ways : V(from) <= V(other)
  <2> TAKE other \in ways
  <2>1. V(from) \in Nat /\ V(other) \in Nat
    BY <1>0, <1>8
  <2> QED
    BY <1>8, <2>1
<1> QED
  BY <1>7, <1>8, <1>9 DEF V

\* A step leads from one of the ways, and is no dearer than from any other.
LEMMA StepIs ==
  ASSUME NEW table, IsCode(table), NEW ways \in SUBSET WaysOf(table), ways # {},
         NEW price \in [0..15 -> Nat], NEW ns \in States(table)
  PROVE  /\ Step(table, ways, price, ns) \in WaysOf(table)
         /\ \E from \in ways :
              Step(table, ways, price, ns) = [at   |-> ns,
                                              cost |-> Via(table, from, price, ns),
                                              path |-> Append(from.path, ns)]
         /\ \A other \in ways : Step(table, ways, price, ns).cost <= Via(table, other, price, ns)
<1>1. PICK from \in ways :
        /\ from = CameFrom(table, ways, price, ns)
        /\ \A other \in ways : Via(table, from, price, ns) <= Via(table, other, price, ns)
  BY CameFromIs
<1>2. Via(table, from, price, ns) \in Nat
  BY ViaType
<1>3. from.path \in Seq(States(table))
  BY DEF WaysOf
<1>4. Append(from.path, ns) \in Seq(States(table))
  BY <1>3
<1>5. Step(table, ways, price, ns) = [at   |-> ns,
                                      cost |-> Via(table, from, price, ns),
                                      path |-> Append(from.path, ns)]
  BY <1>1 DEF Step
<1>6. Step(table, ways, price, ns) \in WaysOf(table)
  BY <1>2, <1>4, <1>5 DEF WaysOf
<1>7. Step(table, ways, price, ns).cost = Via(table, from, price, ns)
  BY <1>5
<1> QED
  BY <1>1, <1>5, <1>6, <1>7

\* The ways after a symbol are the steps from those before it.
LEMMA SearchIs ==
  ASSUME NEW table, IsCode(table), NEW prices \in Seq([0..15 -> Nat])
  PROVE  LET ways == Search(table, prices)
         IN  /\ ways[0] = {Start}
             /\ \A t \in 0..Len(prices) : ways[t] \in SUBSET WaysOf(table) /\ ways[t] # {}
             /\ \A t \in 1..Len(prices) :
                  ways[t] = After(table, ways[t - 1], prices[t])
<1>1. PICK N \in Nat : N = Len(prices)
  OBVIOUS
<1>2. PICK V : V = (SUBSET WaysOf(table)) \ {{}}
  OBVIOUS
<1>3. {Start} \in V
  <2>1. 0 \in States(table) /\ <<>> \in Seq(States(table))
    BY DEF States, IsCode
  <2>2. Start \in WaysOf(table)
    BY <2>1 DEF Start, WaysOf
  <2> QED
    BY <1>2, <2>2
<1> DEFINE Next(t, w) == After(table, w, prices[t])
<1>4. ASSUME NEW t \in 1..N, NEW w \in V PROVE Next(t, w) \in V
  <2>1. prices[t] \in [0..15 -> Nat]
    BY <1>1
  <2>2. w \in SUBSET WaysOf(table) /\ w # {}
    BY <1>2
  <2>3. \A ns \in States(table) : Step(table, w, prices[t], ns) \in WaysOf(table)
    BY <2>1, <2>2, StepIs
  <2>4. 0 \in States(table)
    BY DEF States, IsCode
  <2>5. Next(t, w) \in SUBSET WaysOf(table) /\ Next(t, w) # {}
    BY <2>3, <2>4 DEF After
  <2> QED
    BY <1>2, <2>5
<1> HIDE DEF Next
<1>5. PICK G \in [1..N -> [V -> V]] : \A t \in 1..N, w \in V : G[t][w] = Next(t, w)
  <2>1. [t \in 1..N |-> [w \in V |-> Next(t, w)]] \in [1..N -> [V -> V]]
    BY <1>4
  <2> QED
    BY <2>1
<1>6. IsMade(N, V, {Start}, G)
  BY <1>1, <1>3, <1>5, Recursion
<1>7. PICK f \in [0..N -> V] : f[0] = {Start} /\ \A t \in 1..N : f[t] = G[t][f[t-1]]
  BY <1>6 DEF IsMade
<1>8. ASSUME NEW t \in 1..N PROVE f[t] = Next(t, f[t-1])
  <2>1. t - 1 \in 0..N
    OBVIOUS
  <2>2. f[t-1] \in V
    BY <1>7, <2>1
  <2> QED
    BY <1>5, <1>7, <2>2
<1>9. PICK h : h = [t \in 0..N |-> IF t = 0 THEN {Start} ELSE Next(t, f[t-1])]
  OBVIOUS
<1>10. \A t \in 0..N : h[t] = f[t]
  <2> TAKE t \in 0..N
  <2>1. CASE t = 0
    BY <1>7, <1>9, <2>1
  <2>2. CASE t # 0
    <3>1. t \in 1..N
      BY <2>2
    <3> QED
      BY <1>8, <1>9, <2>2, <3>1
  <2> QED
    BY <2>1, <2>2
<1>11. f = h
  BY <1>9, <1>10
<1>12. f = [t \in 0..N |-> IF t = 0 THEN {Start} ELSE Next(t, f[t-1])]
  BY <1>9, <1>11
<1>13. PICK ways : ways = Search(table, prices)
  OBVIOUS
<1>14. ways = [t \in 0..N |-> IF t = 0 THEN {Start} ELSE Next(t, ways[t-1])]
  BY <1>1, <1>12, <1>13 DEF Search, Next
<1>15. ways[0] = {Start}
  BY <1>1, <1>14
<1>16. ASSUME NEW t \in 1..N PROVE ways[t] = Next(t, ways[t-1])
  <2>1. t \in 0..N /\ t # 0
    OBVIOUS
  <2> QED
    BY <1>14, <2>1
<1>17. \A t \in 0..N : ways[t] = f[t]
  <2>1. ways[0] = f[0]
    BY <1>7, <1>15
  <2>2. \A t \in 1..N : ways[t-1] = f[t-1] => ways[t] = f[t]
    BY <1>8, <1>16
  <2>3. AgreeUpTo(N, ways, f)
    BY <2>1, <2>2, Agree DEF GoOnAgreeing
  <2> QED
    BY <2>3 DEF AgreeUpTo
<1>18. \A t \in 0..N : ways[t] \in SUBSET WaysOf(table) /\ ways[t] # {}
  BY <1>2, <1>7, <1>17
<1> QED
  BY <1>1, <1>13, <1>15, <1>16, <1>18 DEF Next

-----------------------------------------------------------------------------
(* The search keeps the cheapest ways.                                     *)

SameUpTo(k, word, other) == \A t \in 1..k : word[t] = other[t]

\* What is spent on the first k symbols of a word depends on these only.
LEMMA SameSpent ==
  ASSUME NEW prices \in Seq([0..15 -> Nat]),
         NEW word \in Seq(0..15), Len(word) <= Len(prices),
         NEW other \in Seq(0..15), Len(other) <= Len(prices),
         NEW k \in Nat, k <= Len(word), k <= Len(other), SameUpTo(k, word, other)
  PROVE  Spent(prices, word)[k] = Spent(prices, other)[k]
<1>1. PICK u : u = Spent(prices, word)
  OBVIOUS
<1>2. PICK v : v = Spent(prices, other)
  OBVIOUS
<1>3. u[0] = 0 /\ \A t \in 1..Len(word) : u[t] = u[t - 1] + prices[t][word[t]]
  BY <1>1, SpentIs
<1>4. v[0] = 0 /\ \A t \in 1..Len(other) : v[t] = v[t - 1] + prices[t][other[t]]
  BY <1>2, SpentIs
<1>5. ASSUME NEW t \in 1..k, u[t-1] = v[t-1] PROVE u[t] = v[t]
  <2>1. PICK m \in Nat : m = Len(word)
    OBVIOUS
  <2>2. PICK n \in Nat : n = Len(other)
    OBVIOUS
  <2>3. k <= m /\ k <= n
    BY <2>1, <2>2
  <2>4. t \in 1..m /\ t \in 1..n
    BY <2>3
  <2>5. u[t] = u[t - 1] + prices[t][word[t]] /\ v[t] = v[t - 1] + prices[t][other[t]]
    BY <1>3, <1>4, <2>1, <2>2, <2>4
  <2>6. word[t] = other[t]
    BY DEF SameUpTo
  <2> QED
    BY <1>5, <2>5, <2>6
<1>6. AgreeUpTo(k, u, v)
  BY <1>3, <1>4, <1>5, Agree DEF GoOnAgreeing
<1>7. k \in 0..k
  OBVIOUS
<1> QED
  BY <1>1, <1>2, <1>6, <1>7 DEF AgreeUpTo

\* A step adds one symbol to the word, and its price to what was spent.
LEMMA SpentFurther ==
  ASSUME NEW table, IsCode(table), NEW prices \in Seq([0..15 -> Nat]),
         NEW path \in Seq(States(table)), Len(path) < Len(prices), NEW ns \in States(table)
  PROVE  LET longer == Append(path, ns)
             n      == Len(path)
         IN  Spent(prices, WordOf(table, longer))[n + 1]
               = Spent(prices, WordOf(table, path))[n]
                   + prices[n + 1][Sent(table, Was(path, n), ns)]
<1>1. PICK longer : longer = Append(path, ns)
  OBVIOUS
<1>2. PICK n \in Nat : n = Len(path)
  OBVIOUS
<1>3. longer \in Seq(States(table)) /\ Len(longer) = n + 1 /\ longer[n + 1] = ns
      /\ \A t \in 1..n : longer[t] = path[t]
  BY <1>1, <1>2
<1>4. PICK word : word = WordOf(table, path)
  OBVIOUS
<1>5. PICK more : more = WordOf(table, longer)
  OBVIOUS
<1>6. word \in Seq(0..15) /\ Len(word) = n
  BY <1>2, <1>4, WordType
<1>7. more \in Seq(0..15) /\ Len(more) = n + 1
  BY <1>3, <1>5, WordType
<1>8. \A t \in 0..n : Was(longer, t) = Was(path, t)
  <2> TAKE t \in 0..n
  <2>1. CASE t = 0
    BY <2>1 DEF Was
  <2>2. CASE t # 0
    <3>1. t \in 1..n
      BY <2>2
    <3> QED
      BY <1>3, <2>2, <3>1 DEF Was
  <2> QED
    BY <2>1, <2>2
<1>9. ASSUME NEW t \in 1..n PROVE more[t] = word[t]
  <2>1. t - 1 \in 0..n /\ t \in 1..n + 1
    OBVIOUS
  <2>2. Was(longer, t - 1) = Was(path, t - 1) /\ longer[t] = path[t]
    BY <1>3, <1>8, <2>1
  <2>3. more[t] = Sent(table, Was(longer, t - 1), longer[t])
    BY <1>3, <1>5, <2>1 DEF WordOf
  <2>4. word[t] = Sent(table, Was(path, t - 1), path[t])
    BY <1>2, <1>4 DEF WordOf
  <2> QED
    BY <2>2, <2>3, <2>4
<1>10. more[n + 1] = Sent(table, Was(path, n), ns)
  <2>1. n \in 0..n /\ n + 1 \in 1..n + 1 /\ (n + 1) - 1 = n
    OBVIOUS
  <2>2. Was(longer, n) = Was(path, n)
    BY <1>8, <2>1
  <2>3. more[n + 1] = Sent(table, Was(longer, (n + 1) - 1), longer[n + 1])
    BY <1>3, <1>5, <2>1 DEF WordOf
  <2> QED
    BY <1>3, <2>1, <2>2, <2>3
<1>11. n + 1 <= Len(prices) /\ n <= Len(prices) /\ n <= n + 1 /\ n <= n
  <2>1. PICK m \in Nat : m = Len(prices)
    OBVIOUS
  <2>2. n < m
    BY <1>2, <2>1
  <2>3. n + 1 <= m /\ n <= m /\ n <= n + 1
    BY <2>2
  <2> QED
    BY <2>1, <2>3
<1>12. Spent(prices, more)[n] = Spent(prices, word)[n]
  <2>1. SameUpTo(n, more, word)
    BY <1>9 DEF SameUpTo
  <2>2. Len(more) <= Len(prices) /\ Len(word) <= Len(prices) /\ n <= Len(more) /\ n <= Len(word)
    BY <1>6, <1>7, <1>11
  <2> QED
    BY <1>6, <1>7, <2>1, <2>2, SameSpent
<1>13. \A t \in 1..n + 1 :
         Spent(prices, more)[t] = Spent(prices, more)[t - 1] + prices[t][more[t]]
  BY <1>7, <1>11, SpentIs
<1>14. n + 1 \in 1..n + 1 /\ (n + 1) - 1 = n
  OBVIOUS
<1>15. Spent(prices, more)[n + 1] = Spent(prices, more)[n] + prices[n + 1][more[n + 1]]
  BY <1>13, <1>14
<1>16. Spent(prices, more)[n + 1]
         = Spent(prices, word)[n] + prices[n + 1][Sent(table, Was(path, n), ns)]
  BY <1>10, <1>12, <1>15
<1> QED
  BY <1>1, <1>2, <1>4, <1>5, <1>16

\* What the ways after t symbols are, next to any other way that could be taken.
WayOK(table, prices, way, t) ==
    /\ Len(way.path) = t
    /\ way.at = Was(way.path, t)
    /\ way.cost = Spent(prices, WordOf(table, way.path))[t]

Beats(table, prices, way, other, t) ==
    way.at = Was(other, t) => way.cost <= Spent(prices, WordOf(table, other))[t]

Cheapest(table, prices, ways, other, t) ==
    /\ \A way \in ways : WayOK(table, prices, way, t) /\ Beats(table, prices, way, other, t)
    /\ \E way \in ways : way.at = Was(other, t)

\* At first there is one way, of no symbols.
LEMMA CheapestAtFirst ==
  ASSUME NEW table, IsCode(table), NEW prices \in Seq([0..15 -> Nat]),
         NEW other \in Seq(States(table)), Len(other) <= Len(prices)
  PROVE  Cheapest(table, prices, {Start}, other, 0)
<1>1. Start.at = 0 /\ Start.cost = 0 /\ Start.path = <<>>
  BY DEF Start
<1>2. <<>> \in Seq(States(table)) /\ Len(<<>>) = 0
  OBVIOUS
<1>3. WordOf(table, <<>>) \in Seq(0..15) /\ Len(WordOf(table, <<>>)) = 0
  BY <1>2, WordType
<1>4. PICK m \in Nat : m = Len(prices)
  OBVIOUS
<1>5. Spent(prices, WordOf(table, <<>>))[0] = 0
  <2>1. Len(WordOf(table, <<>>)) <= Len(prices)
    BY <1>3, <1>4
  <2> QED
    BY <1>3, <2>1, SpentIs
<1>6. Spent(prices, WordOf(table, other))[0] = 0
  BY WordType, SpentIs
<1>7. WayOK(table, prices, Start, 0)
  BY <1>1, <1>2, <1>5 DEF WayOK, Was
<1>8. Beats(table, prices, Start, other, 0)
  BY <1>1, <1>6 DEF Beats
<1>9. Start.at = Was(other, 0)
  BY <1>1 DEF Was
<1> QED
  BY <1>7, <1>8, <1>9 DEF Cheapest

\* A symbol later they are the cheapest still.
LEMMA CheapestAfter ==
  ASSUME NEW table, IsCode(table), NEW prices \in Seq([0..15 -> Nat]),
         NEW other \in Seq(States(table)), Len(other) <= Len(prices),
         NEW t \in 1..Len(other), NEW ways \in SUBSET WaysOf(table),
         Cheapest(table, prices, ways, other, t - 1)
  PROVE  Cheapest(table, prices, After(table, ways, prices[t]), other, t)
<1>1. PICK n \in Nat : n = t - 1 /\ t = n + 1
  <2>1. t - 1 \in Nat /\ t = (t - 1) + 1
    OBVIOUS
  <2> QED
    BY <2>1
<1>2. PICK m \in Nat : m = Len(prices)
  OBVIOUS
<1>3. PICK k \in Nat : k = Len(other)
  OBVIOUS
<1>4. t <= k /\ k <= m /\ t \in 1..m /\ n < m /\ n < k
  <2>1. k <= m
    BY <1>2, <1>3
  <2>2. t \in 1..k
    BY <1>3
  <2>3. t <= k /\ t \in 1..m
    BY <2>1, <2>2
  <2> QED
    BY <1>1, <2>1, <2>2, <2>3
<1>5. prices[t] \in [0..15 -> Nat]
  BY <1>2, <1>4
<1>6. ways # {}
  BY DEF Cheapest
<1>7. PICK was \in ways : was.at = Was(other, n)
  BY <1>1 DEF Cheapest
<1>8. other[t] \in States(table) /\ Was(other, t) = other[t]
  <2>1. t # 0 /\ t \in 1..Len(other)
    OBVIOUS
  <2> QED
    BY <2>1 DEF Was
<1>9. PICK word : word = WordOf(table, other)
  OBVIOUS
<1>10. word \in Seq(0..15) /\ Len(word) = k
  BY <1>3, <1>9, WordType
<1>11. word[t] = Sent(table, Was(other, n), other[t])
  BY <1>1, <1>9 DEF WordOf
<1>12. /\ prices[t][word[t]] \in Nat
       /\ Spent(prices, word)[t] = Spent(prices, word)[n] + prices[t][word[t]]
       /\ Spent(prices, word) \in [0..k -> Nat]
  <2>1. Len(word) <= Len(prices) /\ t \in 1..Len(word)
    BY <1>2, <1>3, <1>4, <1>10
  <2> QED
    BY <1>1, <1>10, <2>1, SpentIs
<1>13. ASSUME NEW ns \in States(table)
       PROVE  /\ WayOK(table, prices, Step(table, ways, prices[t], ns), t)
              /\ Beats(table, prices, Step(table, ways, prices[t], ns), other, t)
  <2>1. PICK step \in WaysOf(table) : step = Step(table, ways, prices[t], ns)
    BY <1>5, <1>6, StepIs
  <2>2. PICK from \in ways : step = [at   |-> ns,
                                     cost |-> Via(table, from, prices[t], ns),
                                     path |-> Append(from.path, ns)]
    BY <1>5, <1>6, <2>1, StepIs
  <2>3. step.cost <= Via(table, was, prices[t], ns)
    BY <1>5, <1>6, <1>7, <2>1, StepIs
  <2>4. PICK path \in Seq(States(table)) : path = from.path
    BY DEF WaysOf
  <2>5. Len(path) = n /\ from.at = Was(path, n)
        /\ from.cost = Spent(prices, WordOf(table, path))[n]
    BY <1>1, <2>4 DEF Cheapest, WayOK
  <2>6. PICK longer : longer = Append(path, ns)
    OBVIOUS
  <2>7. step.at = ns /\ step.path = longer
        /\ step.cost = from.cost + prices[t][Sent(table, from.at, ns)]
    BY <2>2, <2>4, <2>6 DEF Via
  <2>8. longer \in Seq(States(table)) /\ Len(longer) = n + 1 /\ longer[n + 1] = ns
    <3>1. Len(path) = n
      BY <2>5
    <3>2. Append(path, ns) \in Seq(States(table)) /\ Len(Append(path, ns)) = Len(path) + 1
          /\ Append(path, ns)[Len(path) + 1] = ns
      BY <2>4, AppendProperties
    <3> QED
      BY <2>6, <3>1, <3>2
  <2>9. Spent(prices, WordOf(table, longer))[n + 1]
          = Spent(prices, WordOf(table, path))[n] + prices[n + 1][Sent(table, Was(path, n), ns)]
    BY <1>2, <1>4, <2>5, <2>6, SpentFurther
  <2>10. WayOK(table, prices, step, t)
    <3>1. Was(longer, t) = ns
      BY <1>1, <2>8 DEF Was
    <3>2. step.cost = Spent(prices, WordOf(table, longer))[t]
      BY <1>1, <2>5, <2>7, <2>9
    <3> QED
      BY <1>1, <2>7, <2>8, <3>1, <3>2 DEF WayOK
  <2>11. Beats(table, prices, step, other, t)
    <3> SUFFICES ASSUME step.at = Was(other, t)
                 PROVE  step.cost <= Spent(prices, word)[t]
      BY <1>9 DEF Beats
    <3>1. ns = other[t]
      BY <1>8, <2>7
    <3>2. was.cost <= Spent(prices, word)[n]
      BY <1>1, <1>7, <1>9 DEF Cheapest, Beats
    <3>3. PICK price \in Nat : price = prices[t][word[t]]
      BY <1>12
    <3>4. Via(table, was, prices[t], ns) = was.cost + price
      BY <1>7, <1>11, <3>1, <3>3 DEF Via
    <3>5. step.cost \in Nat /\ was.cost \in Nat
      BY DEF WaysOf
    <3>6. PICK spent \in Nat : spent = Spent(prices, word)[n]
      <4>1. n \in 0..k
        BY <1>4
      <4> QED
        BY <1>12, <4>1
    <3>7. Spent(prices, word)[t] = spent + price
      BY <1>12, <3>3, <3>6
    <3>8. step.cost <= was.cost + price /\ was.cost <= spent
      BY <2>3, <3>2, <3>4, <3>6
    <3>9. step.cost <= spent + price
      <4>1. PICK a \in Nat : a = step.cost
        BY <3>5
      <4>2. PICK b \in Nat : b = was.cost
        BY <3>5
      <4>3. a <= b + price /\ b <= spent
        BY <3>8, <4>1, <4>2
      <4>4. a <= spent + price
        BY <4>3
      <4> QED
        BY <4>1, <4>4
    <3> QED
      BY <3>7, <3>9
  <2> QED
    BY <2>1, <2>10, <2>11
<1>14. Step(table, ways, prices[t], other[t]).at = Was(other, t)
  <2>1. PICK price \in [0..15 -> Nat] : price = prices[t]
    BY <1>5
  <2>2. PICK ns \in States(table) : ns = other[t]
    BY <1>8
  <2>3. PICK from \in ways : Step(table, ways, price, ns) = [at   |-> ns,
                                                            cost |-> Via(table, from, price, ns),
                                                            path |-> Append(from.path, ns)]
    BY <1>6, <2>1, <2>2, StepIs
  <2>4. Step(table, ways, price, ns).at = ns
    BY <2>3
  <2> QED
    BY <1>8, <2>1, <2>2, <2>4
<1> QED
  BY <1>8, <1>13, <1>14 DEF Cheapest, After

\* And so they are at the end.
LEMMA SearchCheapest ==
  ASSUME NEW table, IsCode(table), NEW prices \in Seq([0..15 -> Nat]),
         NEW other \in Seq(States(table)), Len(other) = Len(prices)
  PROVE  Cheapest(table, prices, Search(table, prices)[Len(prices)], other, Len(prices))
<1>1. PICK N \in Nat : N = Len(prices) /\ N = Len(other)
  OBVIOUS
<1>2. PICK ways : ways = Search(table, prices)
  OBVIOUS
<1> DEFINE Good(t) == Cheapest(table, prices, ways[t], other, t)
           Bad == {t \in 0..N : ~Good(t)}
<1>3. Good(0)
  <2>1. ways[0] = {Start}
    BY <1>2, SearchIs
  <2>2. Len(other) <= Len(prices)
    BY <1>1
  <2> QED
    BY <2>1, <2>2, CheapestAtFirst
<1>4. ASSUME NEW t \in 1..N, Good(t - 1) PROVE Good(t)
  <2>1. ways[t] = After(table, ways[t - 1], prices[t])
    BY <1>1, <1>2, SearchIs
  <2>2. t - 1 \in 0..N
    OBVIOUS
  <2>3. ways[t - 1] \in SUBSET WaysOf(table)
    BY <1>1, <1>2, <2>2, SearchIs
  <2>4. Len(other) <= Len(prices) /\ t \in 1..Len(other)
    BY <1>1
  <2>5. PICK before : before = ways[t - 1]
    OBVIOUS
  <2>6. Cheapest(table, prices, After(table, before, prices[t]), other, t)
    BY <1>4, <2>3, <2>4, <2>5, CheapestAfter
  <2> QED
    BY <2>1, <2>5, <2>6
<1> HIDE DEF Good
<1>5. Bad = {}
  <2> SUFFICES ASSUME Bad # {} PROVE FALSE
    OBVIOUS
  <2>1. Bad \in SUBSET Nat
    OBVIOUS
  <2>2. PICK t \in Bad : \A m \in Bad : t <= m
    BY <2>1, LeastIn
  <2>3. t \in 1..N
    BY <1>3
  <2>4. t - 1 \in 0..N /\ t - 1 \notin Bad
    BY <2>2, <2>3
  <2>5. Good(t - 1)
    BY <2>4
  <2> QED
    BY <1>4, <2>3, <2>5
<1>6. Good(N)
  <2>1. N \in 0..N
    OBVIOUS
  <2> QED
    BY <1>5, <2>1
<1> QED
  BY <1>1, <1>2, <1>6 DEF Good

-----------------------------------------------------------------------------
(* What is found.                                                          *)

\* The encoder sends the data and its flush as the states they lead through.
LEMMA EncodeIsWord ==
  ASSUME NEW table, IsCode(table), NEW data \in Seq(States(table))
  PROVE  /\ Flushed(data) \in Seq(States(table)) /\ Len(Flushed(data)) = Len(data) + 1
         /\ Flushed(data)[Len(data) + 1] = 0 /\ \A t \in 1..Len(data) : Flushed(data)[t] = data[t]
         /\ trellisDibitEncode(table, data) = WordOf(table, Flushed(data))
<1>1. 0 \in States(table)
  BY DEF States, IsCode
<1>2. PICK q \in Seq(States(table)) :
        /\ q = Flushed(data) /\ Len(q) = Len(data) + 1 /\ q[Len(data) + 1] = 0
        /\ \A t \in 1..Len(data) : q[t] = data[t]
  <2>1. PICK q : q = Append(data, 0)
    OBVIOUS
  <2>2. q \in Seq(States(table)) /\ Len(q) = Len(data) + 1 /\ q[Len(data) + 1] = 0
        /\ \A t \in 1..Len(data) : q[t] = data[t]
    BY <1>1, <2>1, AppendProperties
  <2> QED
    BY <2>1, <2>2 DEF Flushed
<1>3. PICK n \in Nat : n = Len(data)
  OBVIOUS
<1>4. <<0>> \in Seq(States(table)) /\ Len(<<0>>) = 1 /\ <<0>>[1] = 0
  BY <1>1
<1>5. PICK path : path = <<0>> \o q
  OBVIOUS
<1>6. \A i \in 1..(n + 2) : path[i] = IF i <= 1 THEN 0 ELSE q[i - 1]
  <2> TAKE i \in 1..(n + 2)
  <2>1. i \in 1..Len(<<0>>) + Len(q)
    BY <1>2, <1>3, <1>4
  <2>2. path[i] = IF i <= Len(<<0>>) THEN <<0>>[i] ELSE q[i - Len(<<0>>)]
    BY <1>4, <1>5, <2>1, ConcatProperties
  <2>3. i <= 1 => i = 1
    OBVIOUS
  <2> QED
    BY <1>4, <2>2, <2>3
<1>7. ASSUME NEW t \in 1..n + 1 PROVE path[t] = Was(q, t - 1) /\ path[t + 1] = q[t]
  <2>1. t \in 1..(n + 2) /\ t + 1 \in 1..(n + 2) /\ (t + 1) - 1 = t /\ ~(t + 1 <= 1)
        /\ (t <= 1 <=> t - 1 = 0)
    OBVIOUS
  <2> QED
    BY <1>6, <2>1 DEF Was
<1>8. [t \in 1..n + 1 |-> Sent(table, path[t], path[t + 1])]
        = [t \in 1..n + 1 |-> Sent(table, Was(q, t - 1), q[t])]
  BY <1>7
<1>9. trellisDibitEncode(table, data) = [t \in 1..n + 1 |-> Sent(table, path[t], path[t + 1])]
  BY <1>2, <1>3, <1>5 DEF trellisDibitEncode
<1>10. WordOf(table, q) = [t \in 1..n + 1 |-> Sent(table, Was(q, t - 1), q[t])]
  BY <1>2, <1>3 DEF WordOf
<1> QED
  BY <1>2, <1>8, <1>9, <1>10

\* Of all the data that could have been sent, the search finds the cheapest:
\* with costs that are the bits that differ, or the soft bits' own, the data
\* that is most likely to have been sent (trellis.go:77, trellis.go:188,
\* trellis34.go:59, trellis34.go:178).  For every code of this kind, every
\* length of data, and all prices.
THEOREM CheapestFound ==
  ASSUME NEW table, IsCode(table), NEW prices \in Seq([0..15 -> Nat]),
         NEW data \in Seq(States(table)), Len(prices) = Len(data) + 1
  PROVE  /\ Viterbi(table, prices) \in Seq(States(table))
         /\ Len(Viterbi(table, prices)) = Len(data)
         /\ Cost(table, prices, Viterbi(table, prices)) <= Cost(table, prices, data)
<1>1. PICK n \in Nat : n = Len(data)
  OBVIOUS
<1>2. PICK other \in Seq(States(table)) :
        other = Flushed(data) /\ Len(other) = n + 1 /\ other[n + 1] = 0
  BY <1>1, EncodeIsWord
<1>3. Len(prices) = n + 1
  BY <1>1
<1>4. PICK ways : ways = Search(table, prices)[n + 1]
  OBVIOUS
<1>5. Cheapest(table, prices, ways, other, n + 1)
  BY <1>2, <1>3, <1>4, SearchCheapest
<1>6. Was(other, n + 1) = 0
  BY <1>2 DEF Was
<1>7. PICK best \in ways : best = (CHOOSE way \in ways : way.at = 0) /\ best.at = 0
  BY <1>5, <1>6 DEF Cheapest
<1>8. ways \in SUBSET WaysOf(table)
  <2>1. n + 1 \in 0..n + 1
    OBVIOUS
  <2> QED
    BY <1>3, <1>4, <2>1, SearchIs
<1>9. PICK path \in Seq(States(table)) : path = best.path
  BY <1>7, <1>8 DEF WaysOf
<1>10. /\ Len(path) = n + 1 /\ Was(path, n + 1) = 0
       /\ best.cost = Spent(prices, WordOf(table, path))[n + 1]
       /\ best.cost <= Spent(prices, WordOf(table, other))[n + 1]
  BY <1>5, <1>6, <1>7, <1>9 DEF Cheapest, WayOK, Beats
<1>11. PICK found : found = SubSeq(path, 1, n)
  OBVIOUS
<1>12. Viterbi(table, prices) = found
  <2>1. (n + 1) - 1 = n
    OBVIOUS
  <2> QED
    BY <1>3, <1>4, <1>7, <1>9, <1>11, <2>1 DEF Viterbi
<1>13. found \in Seq(States(table)) /\ Len(found) = n /\ \A t \in 1..n : found[t] = path[t]
  <2>1. \A i \in 1..n : path[i] \in States(table)
    BY <1>10
  <2>2. 1 \in Int /\ n \in Int /\ n - 1 + 1 = n /\ (~(1 <= n) => n = 0)
    OBVIOUS
  <2>3. found \in Seq(States(table)) /\ Len(found) = IF 1 <= n THEN n ELSE 0
    BY <1>11, <2>1, <2>2, SubSeqProperties
  <2>4. \A i \in 1..n - 1 + 1 : found[i] = path[1 + i - 1]
    BY <1>11, <2>1, <2>2, SubSeqProperties
  <2> QED
    BY <2>2, <2>3, <2>4
<1>14. Flushed(found) = path
  <2>1. PICK q \in Seq(States(table)) :
          /\ q = Flushed(found) /\ Len(q) = n + 1 /\ q[n + 1] = 0
          /\ \A t \in 1..n : q[t] = found[t]
    <3>1. PICK q : q = Flushed(found)
      OBVIOUS
    <3>2. q \in Seq(States(table)) /\ Len(q) = n + 1 /\ q[n + 1] = 0
          /\ \A t \in 1..n : q[t] = found[t]
      BY <1>13, <3>1, EncodeIsWord
    <3> QED
      BY <3>1, <3>2
  <2>2. path[n + 1] = 0
    BY <1>10 DEF Was
  <2>3. \A t \in 1..n + 1 : q[t] = path[t]
    <3> TAKE t \in 1..n + 1
    <3>1. t \in 1..n \/ t = n + 1
      OBVIOUS
    <3> QED
      BY <1>13, <2>1, <2>2, <3>1
  <2>4. Len(q) = Len(path)
    BY <1>10, <2>1
  <2>5. q = path
    BY <1>10, <2>1, <2>3, <2>4, SeqEqual
  <2> QED
    BY <2>1, <2>5
<1>15. Cost(table, prices, data) = Spent(prices, WordOf(table, other))[n + 1]
  <2>1. trellisDibitEncode(table, data) = WordOf(table, other)
    BY <1>2, EncodeIsWord
  <2>2. Len(WordOf(table, other)) = n + 1
    BY <1>2, WordType
  <2> QED
    BY <2>1, <2>2 DEF Cost
<1>16. Cost(table, prices, found) = Spent(prices, WordOf(table, path))[n + 1]
  <2>1. trellisDibitEncode(table, found) = WordOf(table, path)
    BY <1>13, <1>14, EncodeIsWord
  <2>2. Len(WordOf(table, path)) = n + 1
    BY <1>10, WordType
  <2> QED
    BY <2>1, <2>2 DEF Cost
<1>17. Cost(table, prices, found) <= Cost(table, prices, data)
  BY <1>10, <1>15, <1>16
<1> QED
  BY <1>1, <1>12, <1>13, <1>17

\* The two tables are of that kind.
LEMMA HalfIsCode == IsCode(trellisNext) /\ States(trellisNext) = 0..3
<1>1. Len(trellisNext) = 4
  BY DEF trellisNext
<1>2. States(trellisNext) = 0..3
  BY <1>1 DEF States
<1>3. ASSUME NEW s \in 0..3 PROVE trellisNext[s + 1] \in [1..4 -> 0..15]
  BY DEF trellisNext
<1>4. ASSUME NEW s \in 0..3, NEW ns \in 0..3 PROVE Sent(trellisNext, s, ns) \in 0..15
  <2>1. ns + 1 \in 1..4
    OBVIOUS
  <2> QED
    BY <1>3, <2>1 DEF Sent
<1> QED
  BY <1>1, <1>2, <1>4 DEF IsCode

LEMMA ThreeQuartersIsCode == IsCode(trellis34Transition) /\ States(trellis34Transition) = 0..7
<1>1. Len(trellis34Transition) = 8
  BY DEF trellis34Transition
<1>2. States(trellis34Transition) = 0..7
  BY <1>1 DEF States
<1>3. ASSUME NEW s \in 0..7 PROVE trellis34Transition[s + 1] \in [1..8 -> 0..15]
  BY DEF trellis34Transition
<1>4. ASSUME NEW s \in 0..7, NEW ns \in 0..7 PROVE Sent(trellis34Transition, s, ns) \in 0..15
  <2>1. ns + 1 \in 1..8
    OBVIOUS
  <2> QED
    BY <1>3, <2>1 DEF Sent
<1> QED
  BY <1>1, <1>2, <1>4 DEF IsCode

\* Four received bits have a price as each codeword: the bits that differ.
LEMMA HardPricesOf ==
  ASSUME NEW n \in Nat, NEW w, DOMAIN w = 1..n
  PROVE  HardPrices(w) \in Seq([0..15 -> Nat]) /\ Len(HardPrices(w)) = n
<1>1. \A a, b : OnesCount(a, b) \in Nat
  <2> TAKE a, b
  <2>1. PICK D : D = {i \in 0..3 : BitOf(a, i) # BitOf(b, i)}
    OBVIOUS
  <2>2. IsFiniteSet(0..3) /\ D \subseteq 0..3
    <3>1. 0 \in Int /\ 3 \in Int
      OBVIOUS
    <3>2. IsFiniteSet(0..3)
      BY <3>1, FS_Interval
    <3> QED
      BY <2>1, <3>2
  <2>3. IsFiniteSet(D)
    BY <2>2, FS_Subset
  <2>4. Cardinality(D) \in Nat
    BY <2>3, FS_CardinalityType
  <2> QED
    BY <2>1, <2>4 DEF OnesCount
<1>2. \A t \in 1..n : [cw \in 0..15 |-> OnesCount(w[t], cw)] \in [0..15 -> Nat]
  BY <1>1
<1>3. HardPrices(w) \in [1..n -> [0..15 -> Nat]]
  BY <1>2 DEF HardPrices
<1> QED
  BY <1>3

\* The hard decoder of the half-rate code finds the data whose code word differs
\* least from what was received (trellis.go:77), for every length.
THEOREM HalfRateNearest ==
  ASSUME NEW got \in Seq(0..15), NEW data \in Seq(0..3), Len(got) = Len(data) + 1
  PROVE  /\ trellisDibitDecode(got) \in Seq(0..3)
         /\ Len(trellisDibitDecode(got)) = Len(data)
         /\ Cost(trellisNext, HardPrices(got), trellisDibitDecode(got))
              <= Cost(trellisNext, HardPrices(got), data)
<1>1. PICK prices \in Seq([0..15 -> Nat]) :
        prices = HardPrices(got) /\ Len(prices) = Len(data) + 1
  <2>1. PICK n \in Nat : n = Len(data) + 1 /\ DOMAIN got = 1..n
    BY LenProperties
  <2> QED
    BY <2>1, HardPricesOf
<1>2. PICK table : table = trellisNext /\ IsCode(table) /\ States(table) = 0..3
  BY HalfIsCode
<1>3. data \in Seq(States(table))
  BY <1>2
<1>4. /\ Viterbi(table, prices) \in Seq(States(table))
      /\ Len(Viterbi(table, prices)) = Len(data)
      /\ Cost(table, prices, Viterbi(table, prices)) <= Cost(table, prices, data)
  BY <1>1, <1>2, <1>3, CheapestFound
<1> QED
  BY <1>1, <1>2, <1>4 DEF trellisDibitDecode

\* And so does that of the three-quarter-rate code (trellis34.go:59).
THEOREM ThreeQuarterRateNearest ==
  ASSUME NEW got \in Seq(0..15), NEW data \in Seq(0..7), Len(got) = Len(data) + 1
  PROVE  /\ trellis34DibitDecode(got) \in Seq(0..7)
         /\ Len(trellis34DibitDecode(got)) = Len(data)
         /\ Cost(trellis34Transition, HardPrices(got), trellis34DibitDecode(got))
              <= Cost(trellis34Transition, HardPrices(got), data)
<1>1. PICK prices \in Seq([0..15 -> Nat]) :
        prices = HardPrices(got) /\ Len(prices) = Len(data) + 1
  <2>1. PICK n \in Nat : n = Len(data) + 1 /\ DOMAIN got = 1..n
    BY LenProperties
  <2> QED
    BY <2>1, HardPricesOf
<1>2. PICK table : table = trellis34Transition /\ IsCode(table) /\ States(table) = 0..7
  BY ThreeQuartersIsCode
<1>3. data \in Seq(States(table))
  BY <1>2
<1>4. /\ Viterbi(table, prices) \in Seq(States(table))
      /\ Len(Viterbi(table, prices)) = Len(data)
      /\ Cost(table, prices, Viterbi(table, prices)) <= Cost(table, prices, data)
  BY <1>1, <1>2, <1>3, CheapestFound
<1> QED
  BY <1>1, <1>2, <1>4 DEF trellis34DibitDecode

-----------------------------------------------------------------------------
(* A job from beginning to end.                                            *)

\* What was sent, what was received and the result are those of the job.
OfTheJob ==
    /\ job = Nothing => result = Nothing
    /\ job # Nothing => /\ job \in Jobs
                        /\ sent = Encode(job.code, job.data)
                        /\ received = Disturbed(job.code, sent, job.noise)
    /\ result # Nothing => result = Decode(job.code, received)

\* In every state of a job, from when it arrives until its answer is read, what was sent is the
\* encoding of the job's data, what was received is that with the job's errors, and the
\* result is what the decoder makes of it: decoding depends on nothing that came before
\* (rs.go:625, trellis.go:77, golay.go:84).
THEOREM JobSpec == CSpec => []OfTheJob
<1>1. CInit => OfTheJob
  BY DEF CInit, OfTheJob, Nothing
<1>2. OfTheJob /\ [CNext]_vars => OfTheJob'
  <2> SUFFICES ASSUME OfTheJob, [CNext]_vars PROVE OfTheJob'
    OBVIOUS
  <2>1. CASE Send
    <3>1. /\ job = Nothing /\ result = Nothing /\ result' = Nothing
          /\ job' \in Jobs /\ sent' = Encode(job'.code, job'.data)
          /\ received' = Disturbed(job'.code, sent', job'.noise)
      BY <2>1 DEF Send, OfTheJob
    <3> QED
      BY <3>1 DEF OfTheJob
  <2>2. CASE Receive
    <3>1. /\ job # Nothing /\ UNCHANGED <<job, sent, received>>
          /\ result' = Decode(job.code, received)
      BY <2>2 DEF Receive
    <3> QED
      BY <3>1 DEF OfTheJob
  <2>3. CASE Forget
    BY <2>3 DEF Forget, OfTheJob
  <2>4. CASE UNCHANGED vars
    BY <2>4 DEF vars, OfTheJob
  <2> QED
    BY <2>1, <2>2, <2>3, <2>4 DEF CNext
<1> QED
  BY <1>1, <1>2, PTL DEF CSpec

-----------------------------------------------------------------------------
(* Soft decisions.                                                         *)

\* The distance to the nearer of two levels is a natural number.
LEMMA NearestType ==
  ASSUME NEW x \in Int, NEW a \in Int, NEW b \in Int
  PROVE  Nearest(x, {a, b}) \in Nat
<1>1. PICK D : D = {(x - v) * (x - v) : v \in {a, b}}
  OBVIOUS
<1>2. D \in SUBSET Nat
  <2>1. ASSUME NEW v \in Int PROVE (x - v) * (x - v) \in Nat
    <3>1. PICK z \in Int : z = x - v
      OBVIOUS
    <3>2. z * z \in Nat
      OBVIOUS
    <3> QED
      BY <3>1, <3>2
  <2> QED
    BY <1>1, <2>1
<1>3. D # {}
  BY <1>1
<1>4. \E n \in D : \A m \in D : n <= m
  BY <1>2, <1>3, LeastIn
<1>5. Min(D) \in D
  BY <1>4 DEF Min
<1>6. Nearest(x, {a, b}) = Min(D)
  BY <1>1 DEF Nearest
<1> QED
  BY <1>2, <1>5, <1>6

\* Two levels are four soft bits, each with a cost for zero and one for one.
LEMMA SoftSymbolType ==
  ASSUME NEW x \in Int, NEW y \in Int
  PROVE  \A j \in 1..4, b \in 1..2 : SoftSymbol(x, y)[j][b] \in Nat
<1>1. PICK Bits : Bits = [1..2 -> Nat]
  OBVIOUS
<1>2. ASSUME NEW z \in Int PROVE softDemapSymbol(z) \in Seq(Bits) /\ Len(softDemapSymbol(z)) = 2
  <2>1. /\ Nearest(z, {1, 3}) \in Nat /\ Nearest(z, {-1, -3}) \in Nat
        /\ Nearest(z, {1, -1}) \in Nat /\ Nearest(z, {3, -3}) \in Nat
    BY NearestType
  <2>2. PICK c1, c2, c3, c4 \in Nat : softDemapSymbol(z) = <<<<c1, c2>>, <<c3, c4>>>>
    BY <2>1 DEF softDemapSymbol
  <2>3. PICK a, b : a = <<c1, c2>> /\ b = <<c3, c4>>
    OBVIOUS
  <2>4. a \in Bits /\ b \in Bits
    BY <1>1, <2>3
  <2> QED
    BY <2>2, <2>3, <2>4
<1>3. PICK p \in Seq(Bits) : p = softDemapSymbol(x) /\ Len(p) = 2
  BY <1>2
<1>4. PICK q \in Seq(Bits) : q = softDemapSymbol(y) /\ Len(q) = 2
  BY <1>2
<1>5. PICK r : r = p \o q
  OBVIOUS
<1>6. r \in Seq(Bits) /\ Len(r) = Len(p) + Len(q)
  BY <1>5, ConcatProperties
<1>7. Len(p) = 2 /\ Len(q) = 2
  BY <1>3, <1>4
<1>8. \A j \in 1..4 : r[j] \in Bits
  <2>1. Len(r) = 4
    BY <1>6, <1>7
  <2>2. r \in Seq(Bits)
    BY <1>6
  <2> QED
    BY <2>1, <2>2, ElementOfSeq
<1>9. r = SoftSymbol(x, y)
  BY <1>3, <1>4, <1>5 DEF SoftSymbol
<1> QED
  BY <1>1, <1>8, <1>9

\* So a symbol has a price as each codeword.
LEMMA BranchCostType ==
  ASSUME NEW soft, \A j \in 1..4, b \in 1..2 : soft[j][b] \in Nat, NEW cw \in 0..15
  PROVE  branchCost(soft, cw) \in Nat
<1>1. ASSUME NEW j \in 0..3 PROVE soft[j + 1][BitOf(cw, 3 - j) + 1] \in Nat
  <2>1. j + 1 \in 1..4
    OBVIOUS
  <2>2. BitOf(cw, 3 - j) \in 0..1
    BY DEF BitOf
  <2>3. BitOf(cw, 3 - j) + 1 \in 1..2
    BY <2>2
  <2> QED
    BY <2>1, <2>3
<1>2. PICK c0, c1, c2, c3 \in Nat : branchCost(soft, cw) = c0 + c1 + c2 + c3
  <2>1. /\ soft[0 + 1][BitOf(cw, 3 - 0) + 1] \in Nat /\ soft[1 + 1][BitOf(cw, 3 - 1) + 1] \in Nat
        /\ soft[2 + 1][BitOf(cw, 3 - 2) + 1] \in Nat /\ soft[3 + 1][BitOf(cw, 3 - 3) + 1] \in Nat
    BY <1>1
  <2> QED
    BY <2>1 DEF branchCost
<1> QED
  BY <1>2

\* Levels, two to a symbol of a word of n, that are whole numbers.
AreLevels(w, n) == DOMAIN w = 1..2*n /\ Len(w) = 2*n /\ \A i \in 1..2*n : w[i] \in Int

LEMMA SoftPricesType ==
  ASSUME NEW n \in Nat, NEW w, AreLevels(w, n)
  PROVE  /\ SoftPrices(Softened(w)) \in Seq([0..15 -> Nat])
         /\ Len(SoftPrices(Softened(w))) = n
<1>1. Softened(w) = [t \in 1..n |-> SoftSymbol(w[2*t - 1], w[2*t])]
  <2>1. (2*n) \div 2 = n
    OBVIOUS
  <2> QED
    BY <2>1 DEF Softened, AreLevels
<1>2. ASSUME NEW t \in 1..n PROVE [cw \in 0..15 |-> branchCost(Softened(w)[t], cw)] \in [0..15 -> Nat]
  <2>1. 2*t - 1 \in 1..2*n /\ 2*t \in 1..2*n
    OBVIOUS
  <2>2. w[2*t - 1] \in Int /\ w[2*t] \in Int
    BY <2>1 DEF AreLevels
  <2>3. PICK soft : soft = Softened(w)[t] /\ soft = SoftSymbol(w[2*t - 1], w[2*t])
    BY <1>1
  <2>4. \A j \in 1..4, b \in 1..2 : soft[j][b] \in Nat
    BY <2>2, <2>3, SoftSymbolType
  <2>5. \A cw \in 0..15 : branchCost(soft, cw) \in Nat
    BY <2>4, BranchCostType
  <2> QED
    BY <2>3, <2>5
<1>3. SoftPrices(Softened(w)) \in [1..n -> [0..15 -> Nat]]
  <2>1. DOMAIN Softened(w) = 1..n
    BY <1>1
  <2>2. SoftPrices(Softened(w)) = [t \in 1..n |-> [cw \in 0..15 |-> branchCost(Softened(w)[t], cw)]]
    BY <2>1 DEF SoftPrices
  <2> QED
    BY <1>2, <2>2
<1> QED
  BY <1>3

-----------------------------------------------------------------------------
\* The search has its way with every data of that length.
LEMMA NoneCheaper ==
  ASSUME NEW table, IsCode(table), NEW n \in Nat, NEW prices \in Seq([0..15 -> Nat]),
         Len(prices) = n + 1
  PROVE  \A other \in [1..n -> States(table)] :
             Cost(table, prices, Viterbi(table, prices)) <= Cost(table, prices, other)
<1> SUFFICES ASSUME NEW other \in [1..n -> States(table)]
             PROVE  Cost(table, prices, Viterbi(table, prices)) <= Cost(table, prices, other)
  OBVIOUS
<1>1. other \in Seq(States(table)) /\ Len(other) = n
  OBVIOUS
<1> QED
  BY <1>1, CheapestFound

\* A word that was encoded has a symbol more than the data, each of four bits.
LEMMA EncodedIs ==
  ASSUME NEW table, IsCode(table), NEW data \in Seq(States(table)), NEW n \in Nat, n = Len(data)
  PROVE  trellisDibitEncode(table, data) \in [1..n + 1 -> 0..15]
<1>1. PICK q \in Seq(States(table)) :
        Len(q) = n + 1 /\ trellisDibitEncode(table, data) = WordOf(table, q)
  BY EncodeIsWord
<1>2. WordOf(table, q) \in Seq(0..15) /\ Len(WordOf(table, q)) = n + 1
  BY <1>1, WordType
<1> QED
  BY <1>1, <1>2

-----------------------------------------------------------------------------
\* Four bits are two levels, which the channel moves.
LEMMA LevelsMoved ==
  ASSUME NEW n \in Nat, NEW word \in [1..n -> 0..15], NEW noise,
         \A i \in DOMAIN noise : noise[i] \in Int, NEW code \in Soft
  PROVE  AreLevels(Disturbed(code, Levels(word), noise), n)
<1>1. Len(word) = n
  OBVIOUS
<1>2. PICK w : w = Levels(word)
  OBVIOUS
<1>3. DOMAIN w = 1..2*n /\ \A i \in 1..2*n : w[i] \in Int
  <2>1. ASSUME NEW two \in 0..3 PROVE <<1, 3, -1, -3>>[two + 1] \in Int
    OBVIOUS
  <2>2. ASSUME NEW i \in 1..2*n
        PROVE  <<1, 3, -1, -3>>[(IF i % 2 = 1 THEN word[(i + 1) \div 2] \div 4 ELSE word[(i + 1) \div 2] % 4) + 1] \in Int
    <3>1. (i + 1) \div 2 \in 1..n
      OBVIOUS
    <3>2. PICK four \in 0..15 : four = word[(i + 1) \div 2]
      BY <3>1
    <3>3. four \div 4 \in 0..3 /\ four % 4 \in 0..3
      OBVIOUS
    <3> QED
      BY <2>1, <3>2, <3>3
  <2>3. w = [i \in 1..2*n |-> <<1, 3, -1, -3>>[(IF i % 2 = 1 THEN word[(i + 1) \div 2] \div 4 ELSE word[(i + 1) \div 2] % 4) + 1]]
    BY <1>1, <1>2 DEF Levels
  <2> QED
    BY <2>2, <2>3
<1>4. PICK v : v = Disturbed(code, w, noise)
  OBVIOUS
<1>5. v = [i \in DOMAIN w |-> IF i \in DOMAIN noise THEN w[i] + noise[i] ELSE w[i]]
  <2>1. CASE code = "SoftHalf"
    BY <1>4, <2>1 DEF Disturbed, Table, Soft, ByBlock, ByWord, ByBit
  <2>2. CASE code = "SoftThreeQuarters"
    BY <1>4, <2>2 DEF Disturbed, Table, Soft, ByBlock, ByWord, ByBit
  <2> QED
    BY <2>1, <2>2 DEF Soft
<1>6. DOMAIN v = 1..2*n /\ \A i \in 1..2*n : v[i] \in Int
  BY <1>3, <1>5
<1>7. 2*n \in Nat
  OBVIOUS
<1>8. PICK k \in Nat : k = 2*n
  BY <1>7
<1>9. v \in [1..k -> Int]
  BY <1>3, <1>5, <1>6, <1>8
<1>10. Len(v) = k
  BY <1>9
<1> QED
  BY <1>2, <1>4, <1>6, <1>8, <1>10 DEF AreLevels

-----------------------------------------------------------------------------
\* A search by hard decisions or soft ones: the table, the prices, and the result.
Searched(table, prices) ==
    /\ \A other \in [DOMAIN job.data -> States(table)] :
           Cost(table, prices, result.data) <= Cost(table, prices, other)

LEMMA HalfSearched ==
  ASSUME OfTheJob, Decoded, job.code = "Half"
  PROVE  Searched(trellisNext, HardPrices(received))
<1>1. /\ job \in Jobs /\ sent = Encode(job.code, job.data)
      /\ received = Disturbed(job.code, sent, job.noise) /\ result = Decode(job.code, received)
  BY DEF OfTheJob, Decoded
<1>2. job.data \in Seq(0..3)
  <2>1. WellFormed(job)
    BY <1>1, JobsAssumption
  <2> QED
    BY <2>1 DEF WellFormed
<1>3. PICK table : table = trellisNext /\ IsCode(table) /\ States(table) = 0..3
  BY HalfIsCode
<1>4. PICK n \in Nat : n = Len(job.data) /\ DOMAIN job.data = 1..n
  BY <1>2
<1>5. sent = trellisDibitEncode(trellisNext, job.data)
  BY <1>1 DEF Encode
<1>6. sent \in [1..n + 1 -> 0..15]
  BY <1>2, <1>3, <1>4, <1>5, EncodedIs
<1>7. DOMAIN received = 1..n + 1
  <2>1. received = [i \in DOMAIN sent |-> IF i \in DOMAIN job.noise THEN Plus[sent[i]][job.noise[i]]
                                                                   ELSE sent[i]]
    BY <1>1 DEF Disturbed, Table, Soft, ByBlock, ByWord, ByBit
  <2> QED
    BY <1>6, <2>1
<1>8. result.data = Viterbi(trellisNext, HardPrices(received))
  BY <1>1 DEF Decode, trellisDibitDecode
<1>9. PICK prices \in Seq([0..15 -> Nat]) : prices = HardPrices(received) /\ Len(prices) = n + 1
  <2>1. n + 1 \in Nat
    OBVIOUS
  <2> QED
    BY <1>7, <2>1, HardPricesOf
<1>10. \A other \in [1..n -> States(table)] :
           Cost(table, prices, Viterbi(table, prices)) <= Cost(table, prices, other)
  BY <1>3, <1>9, NoneCheaper
<1> QED
  BY <1>3, <1>4, <1>8, <1>9, <1>10 DEF Searched

LEMMA ThreeQuartersSearched ==
  ASSUME OfTheJob, Decoded, job.code = "ThreeQuarters"
  PROVE  Searched(trellis34Transition, HardPrices(received))
<1>1. /\ job \in Jobs /\ sent = Encode(job.code, job.data)
      /\ received = Disturbed(job.code, sent, job.noise) /\ result = Decode(job.code, received)
  BY DEF OfTheJob, Decoded
<1>2. job.data \in Seq(0..7)
  <2>1. WellFormed(job)
    BY <1>1, JobsAssumption
  <2> QED
    BY <2>1 DEF WellFormed
<1>3. PICK table : table = trellis34Transition /\ IsCode(table) /\ States(table) = 0..7
  BY ThreeQuartersIsCode
<1>4. PICK n \in Nat : n = Len(job.data) /\ DOMAIN job.data = 1..n
  BY <1>2
<1>5. sent = trellisDibitEncode(trellis34Transition, job.data)
  BY <1>1 DEF Encode
<1>6. sent \in [1..n + 1 -> 0..15]
  BY <1>2, <1>3, <1>4, <1>5, EncodedIs
<1>7. DOMAIN received = 1..n + 1
  <2>1. received = [i \in DOMAIN sent |-> IF i \in DOMAIN job.noise THEN Plus[sent[i]][job.noise[i]]
                                                                   ELSE sent[i]]
    BY <1>1 DEF Disturbed, Table, Soft, ByBlock, ByWord, ByBit
  <2> QED
    BY <1>6, <2>1
<1>8. result.data = Viterbi(trellis34Transition, HardPrices(received))
  BY <1>1 DEF Decode, trellis34DibitDecode
<1>9. PICK prices \in Seq([0..15 -> Nat]) : prices = HardPrices(received) /\ Len(prices) = n + 1
  <2>1. n + 1 \in Nat
    OBVIOUS
  <2> QED
    BY <1>7, <2>1, HardPricesOf
<1>10. \A other \in [1..n -> States(table)] :
           Cost(table, prices, Viterbi(table, prices)) <= Cost(table, prices, other)
  BY <1>3, <1>9, NoneCheaper
<1> QED
  BY <1>3, <1>4, <1>8, <1>9, <1>10 DEF Searched

LEMMA SoftHalfSearched ==
  ASSUME OfTheJob, Decoded, job.code = "SoftHalf"
  PROVE  Searched(trellisNext, SoftPrices(Softened(received)))
<1>1. /\ job \in Jobs /\ sent = Encode(job.code, job.data)
      /\ received = Disturbed(job.code, sent, job.noise) /\ result = Decode(job.code, received)
  BY DEF OfTheJob, Decoded
<1>2. job.data \in Seq(0..3) /\ \A i \in DOMAIN job.noise : job.noise[i] \in Int
  <2>1. WellFormed(job)
    BY <1>1, JobsAssumption
  <2> QED
    BY <2>1 DEF WellFormed
<1>3. PICK table : table = trellisNext /\ IsCode(table) /\ States(table) = 0..3
  BY HalfIsCode
<1>4. PICK n \in Nat : n = Len(job.data) /\ DOMAIN job.data = 1..n
  BY <1>2
<1>5. PICK word : word = trellisDibitEncode(trellisNext, job.data) /\ sent = Levels(word)
  BY <1>1 DEF Encode
<1>6. word \in [1..n + 1 -> 0..15]
  BY <1>2, <1>3, <1>4, <1>5, EncodedIs
<1>7. n + 1 \in Nat
  OBVIOUS
<1>8. AreLevels(received, n + 1)
  BY <1>1, <1>2, <1>5, <1>6, <1>7, LevelsMoved DEF Soft
<1>9. PICK prices \in Seq([0..15 -> Nat]) :
        prices = SoftPrices(Softened(received)) /\ Len(prices) = n + 1
  BY <1>7, <1>8, SoftPricesType
<1>10. result.data = Viterbi(trellisNext, prices)
  BY <1>1, <1>9 DEF Decode, trellisSoftDecode
<1>11. \A other \in [1..n -> States(table)] :
           Cost(table, prices, Viterbi(table, prices)) <= Cost(table, prices, other)
  BY <1>3, <1>9, NoneCheaper
<1> QED
  BY <1>3, <1>4, <1>9, <1>10, <1>11 DEF Searched

LEMMA SoftThreeQuartersSearched ==
  ASSUME OfTheJob, Decoded, job.code = "SoftThreeQuarters"
  PROVE  Searched(trellis34Transition, SoftPrices(Softened(received)))
<1>1. /\ job \in Jobs /\ sent = Encode(job.code, job.data)
      /\ received = Disturbed(job.code, sent, job.noise) /\ result = Decode(job.code, received)
  BY DEF OfTheJob, Decoded
<1>2. job.data \in Seq(0..7) /\ \A i \in DOMAIN job.noise : job.noise[i] \in Int
  <2>1. WellFormed(job)
    BY <1>1, JobsAssumption
  <2> QED
    BY <2>1 DEF WellFormed
<1>3. PICK table : table = trellis34Transition /\ IsCode(table) /\ States(table) = 0..7
  BY ThreeQuartersIsCode
<1>4. PICK n \in Nat : n = Len(job.data) /\ DOMAIN job.data = 1..n
  BY <1>2
<1>5. PICK word : word = trellisDibitEncode(trellis34Transition, job.data) /\ sent = Levels(word)
  BY <1>1 DEF Encode
<1>6. word \in [1..n + 1 -> 0..15]
  BY <1>2, <1>3, <1>4, <1>5, EncodedIs
<1>7. n + 1 \in Nat
  OBVIOUS
<1>8. AreLevels(received, n + 1)
  BY <1>1, <1>2, <1>5, <1>6, <1>7, LevelsMoved DEF Soft
<1>9. PICK prices \in Seq([0..15 -> Nat]) :
        prices = SoftPrices(Softened(received)) /\ Len(prices) = n + 1
  BY <1>7, <1>8, SoftPricesType
<1>10. result.data = Viterbi(trellis34Transition, prices)
  BY <1>1, <1>9 DEF Decode, trellis34SoftDecode
<1>11. \A other \in [1..n -> States(table)] :
           Cost(table, prices, Viterbi(table, prices)) <= Cost(table, prices, other)
  BY <1>3, <1>9, NoneCheaper
<1> QED
  BY <1>3, <1>4, <1>9, <1>10, <1>11 DEF Searched

\* Whatever was received, no data of that length would have cost less than what the four
\* trellis decoders find, be their costs the bits that differ or the soft bits' own
\* (trellis.go:77, trellis.go:188, trellis34.go:59, trellis34.go:178).
THEOREM NearestFound == CSpec => []MostLikely
<1>1. OfTheJob => MostLikely
  <2> SUFFICES ASSUME OfTheJob, Decoded, job.code \in {"Half", "ThreeQuarters"} \cup Soft
               PROVE  MostLikely
    BY DEF MostLikely
  <2>1. CASE job.code = "Half"
    BY <2>1, HalfSearched DEF MostLikely, Searched, Soft
  <2>2. CASE job.code = "ThreeQuarters"
    BY <2>2, ThreeQuartersSearched DEF MostLikely, Searched, Soft
  <2>3. CASE job.code = "SoftHalf"
    BY <2>3, SoftHalfSearched DEF MostLikely, Searched, Soft
  <2>4. CASE job.code = "SoftThreeQuarters"
    BY <2>4, SoftThreeQuartersSearched DEF MostLikely, Searched, Soft
  <2> QED
    BY <2>1, <2>2, <2>3, <2>4 DEF Soft
<1> QED
  BY <1>1, JobSpec, PTL

-----------------------------------------------------------------------------
(* How far apart the words of a trellis code are.                          *)

\* Bits that differ from here to there differ on the way.
LEMMA OnesTriangle ==
  ASSUME NEW w, NEW a, NEW b
  PROVE  /\ OnesCount(w, a) \in Nat /\ OnesCount(a, b) \in Nat
         /\ OnesCount(a, b) <= OnesCount(w, a) + OnesCount(w, b)
<1> DEFINE Bits(x, y) == {i \in 0..3 : BitOf(x, i) # BitOf(y, i)}
<1>1. ASSUME NEW x, NEW y PROVE IsFiniteSet(Bits(x, y)) /\ Cardinality(Bits(x, y)) \in Nat
  <2>1. 0 \in Int /\ 3 \in Int
    OBVIOUS
  <2>2. IsFiniteSet(0..3)
    BY <2>1, FS_Interval
  <2>3. Bits(x, y) \subseteq 0..3
    OBVIOUS
  <2>4. IsFiniteSet(Bits(x, y))
    BY <2>2, <2>3, FS_Subset
  <2> QED
    BY <2>4, FS_CardinalityType
<1>2. PICK A : A = Bits(w, a)
  OBVIOUS
<1>3. PICK B : B = Bits(w, b)
  OBVIOUS
<1>4. PICK C : C = Bits(a, b)
  OBVIOUS
<1>5. C \subseteq A \cup B
  BY <1>2, <1>3, <1>4
<1>6. /\ IsFiniteSet(A) /\ IsFiniteSet(B) /\ Cardinality(A) \in Nat /\ Cardinality(B) \in Nat
      /\ Cardinality(C) \in Nat
  BY <1>1, <1>2, <1>3, <1>4
<1>7. /\ IsFiniteSet(A \cup B)
      /\ Cardinality(A \cup B) = Cardinality(A) + Cardinality(B) - Cardinality(A \cap B)
  BY <1>6, FS_Union
<1>8. Cardinality(A \cap B) \in Nat
  BY <1>6, FS_Intersection, FS_CardinalityType
<1>9. Cardinality(C) <= Cardinality(A \cup B)
  BY <1>5, <1>7, FS_Subset
<1>10. Cardinality(A \cup B) \in Nat
  BY <1>7, FS_CardinalityType
<1>11. Cardinality(C) <= Cardinality(A) + Cardinality(B)
  BY <1>6, <1>7, <1>8, <1>9, <1>10
<1>12. /\ OnesCount(w, a) = Cardinality(A) /\ OnesCount(w, b) = Cardinality(B)
       /\ OnesCount(a, b) = Cardinality(C)
  BY <1>2, <1>3, <1>4 DEF OnesCount
<1> QED
  BY <1>6, <1>11, <1>12

\* What never falls has risen.
Rising(n, f) == \A t \in 1..n : f[t-1] <= f[t]

LEMMA Risen ==
  ASSUME NEW n \in Nat, NEW f \in [0..n -> Nat], Rising(n, f), NEW i \in 0..n, NEW j \in i..n
  PROVE  f[i] <= f[j]
<1> DEFINE Bad == {k \in i..n : f[k] < f[i]}
<1>1. Bad = {}
  <2> SUFFICES ASSUME Bad # {} PROVE FALSE
    OBVIOUS
  <2>1. Bad \in SUBSET Nat
    OBVIOUS
  <2>2. PICK k \in Bad : \A m \in Bad : k <= m
    BY <2>1, LeastIn
  <2>3. k \in 1..n /\ k - 1 \in i..n
    <3>1. k \in 0..n /\ f[i] \in Nat /\ f[k] \in Nat
      OBVIOUS
    <3>2. k # i
      BY <3>1
    <3> QED
      BY <3>1, <3>2
  <2>4. k - 1 \notin Bad
    BY <2>2, <2>3
  <2>5. f[k-1] <= f[k] /\ ~(f[k-1] < f[i]) /\ f[k] < f[i]
    BY <2>3, <2>4 DEF Rising
  <2>6. f[k-1] \in Nat /\ f[k] \in Nat /\ f[i] \in Nat
    BY <2>3
  <2> QED
    BY <2>5, <2>6
<1>2. f[i] \in Nat /\ f[j] \in Nat /\ j \in i..n
  OBVIOUS
<1> QED
  BY <1>1, <1>2

\* Two ways that end in the same state, and were elsewhere once, part and meet again.
Parts(p, q, i) == Was(p, i - 1) = Was(q, i - 1) /\ p[i] # q[i]

Meets(p, q, i, k) == p[k] = q[k] /\ \A t \in i..k - 1 : p[t] # q[t]

LEMMA PartAndMeet ==
  ASSUME NEW n \in Nat, NEW p, NEW q, NEW x \in 1..n, p[x] # q[x], p[n + 1] = q[n + 1]
  PROVE  \E i \in 1..n : \E k \in i + 1..n + 1 : Parts(p, q, i) /\ Meets(p, q, i, k)
<1>1. PICK A : A = {t \in 1..n : p[t] # q[t]}
  OBVIOUS
<1>2. A \in SUBSET Nat /\ A # {}
  BY <1>1
<1>3. PICK i \in A : \A m \in A : i <= m
  BY <1>2, LeastIn
<1>4. i \in 1..n /\ p[i] # q[i]
  BY <1>1
<1>5. Was(p, i - 1) = Was(q, i - 1)
  <2>1. CASE i = 1
    <3>1. i - 1 = 0
      BY <2>1
    <3> QED
      BY <3>1 DEF Was
  <2>2. CASE i # 1
    <3>1. i - 1 \in 1..n /\ i - 1 # 0 /\ ~(i <= i - 1)
      BY <1>4, <2>2
    <3>2. p[i-1] = q[i-1]
      BY <1>1, <1>3, <3>1
    <3> QED
      BY <3>1, <3>2 DEF Was
  <2> QED
    BY <2>1, <2>2
<1>6. PICK B : B = {t \in i + 1..n + 1 : p[t] = q[t]}
  OBVIOUS
<1>7. B \in SUBSET Nat /\ B # {}
  <2>1. n + 1 \in i + 1..n + 1
    BY <1>4
  <2>2. n + 1 \in B
    BY <1>6, <2>1
  <2>3. \A t \in i + 1..n + 1 : t \in Nat
    BY <1>4
  <2> QED
    BY <1>6, <2>2, <2>3
<1>8. PICK k \in B : \A m \in B : k <= m
  BY <1>7, LeastIn
<1>9. k \in i + 1..n + 1 /\ p[k] = q[k]
  BY <1>6
<1>10. ASSUME NEW t \in i..k - 1 PROVE p[t] # q[t]
  <2>1. t = i \/ (t \in i + 1..n + 1 /\ ~(k <= t))
    BY <1>4, <1>9
  <2> QED
    BY <1>4, <1>6, <1>8, <2>1
<1>11. Parts(p, q, i) /\ Meets(p, q, i, k)
  BY <1>4, <1>5, <1>9, <1>10 DEF Parts, Meets
<1> QED
  BY <1>4, <1>9, <1>11

-----------------------------------------------------------------------------
\* What is spent on two words together rises with every symbol by what they differ in.
BothSpent(prices, a, b) == [t \in 0..Len(a) |-> Spent(prices, a)[t] + Spent(prices, b)[t]]

LEMMA BothRise ==
  ASSUME NEW m \in Nat, NEW w, DOMAIN w = 1..m,
         NEW a \in Seq(0..15), Len(a) = m, NEW b \in Seq(0..15), Len(b) = m
  PROVE  /\ BothSpent(HardPrices(w), a, b) \in [0..m -> Nat]
         /\ \A t \in 1..m : /\ OnesCount(a[t], b[t]) \in Nat
                            /\ BothSpent(HardPrices(w), a, b)[t]
                                 >= BothSpent(HardPrices(w), a, b)[t-1] + OnesCount(a[t], b[t])
<1>1. PICK prices \in Seq([0..15 -> Nat]) : prices = HardPrices(w) /\ Len(prices) = m
  BY HardPricesOf
<1>2. PICK u : u = Spent(prices, a)
  OBVIOUS
<1>3. PICK v : v = Spent(prices, b)
  OBVIOUS
<1>4. Len(a) <= Len(prices) /\ Len(b) <= Len(prices)
  BY <1>1
<1>5. /\ u \in [0..m -> Nat]
      /\ \A t \in 1..m : prices[t][a[t]] \in Nat /\ u[t] = u[t-1] + prices[t][a[t]]
  BY <1>2, <1>4, SpentIs
<1>6. /\ v \in [0..m -> Nat]
      /\ \A t \in 1..m : prices[t][b[t]] \in Nat /\ v[t] = v[t-1] + prices[t][b[t]]
  BY <1>3, <1>4, SpentIs
<1>7. PICK both : both = BothSpent(prices, a, b)
  OBVIOUS
<1>8. both = [t \in 0..m |-> u[t] + v[t]]
  BY <1>2, <1>3, <1>7 DEF BothSpent
<1>9. both \in [0..m -> Nat]
  <2>1. \A t \in 0..m : u[t] + v[t] \in Nat
    <3> TAKE t \in 0..m
    <3>1. u[t] \in Nat /\ v[t] \in Nat
      BY <1>5, <1>6
    <3> QED
      BY <3>1
  <2> QED
    BY <1>8, <2>1
<1>10. ASSUME NEW t \in 1..m
       PROVE  OnesCount(a[t], b[t]) \in Nat /\ both[t] >= both[t-1] + OnesCount(a[t], b[t])
  <2>1. a[t] \in 0..15 /\ b[t] \in 0..15
    OBVIOUS
  <2>2. prices[t] = [cw \in 0..15 |-> OnesCount(w[t], cw)]
    BY <1>1 DEF HardPrices
  <2>3. prices[t][a[t]] = OnesCount(w[t], a[t]) /\ prices[t][b[t]] = OnesCount(w[t], b[t])
    BY <2>1, <2>2
  <2>4. /\ OnesCount(a[t], b[t]) \in Nat
        /\ OnesCount(a[t], b[t]) <= OnesCount(w[t], a[t]) + OnesCount(w[t], b[t])
    BY OnesTriangle
  <2>5. PICK x \in Nat : x = prices[t][a[t]]
    BY <1>5
  <2>6. PICK y \in Nat : y = prices[t][b[t]]
    BY <1>6
  <2>7. PICK z \in Nat : z = OnesCount(a[t], b[t]) /\ z <= x + y
    BY <2>3, <2>4, <2>5, <2>6
  <2>8. t - 1 \in 0..m /\ t \in 0..m
    OBVIOUS
  <2>9. u[t-1] \in Nat /\ v[t-1] \in Nat
    BY <1>5, <1>6, <2>8
  <2>10. u[t] = u[t-1] + x /\ v[t] = v[t-1] + y
    BY <1>5, <1>6, <2>5, <2>6
  <2>11. both[t] = u[t] + v[t] /\ both[t-1] = u[t-1] + v[t-1]
    BY <1>8, <2>8
  <2> QED
    BY <2>7, <2>9, <2>10, <2>11
<1> QED
  BY <1>1, <1>7, <1>9, <1>10

\* What has had three sums added, or two, is no less than these.
LEMMA AddedThrice ==
  ASSUME NEW a \in Nat, NEW b \in Nat, NEW c \in Nat, NEW e \in Nat, NEW f \in Nat,
         NEW x \in Nat, NEW y \in Nat, NEW z \in Nat, NEW d \in Nat,
         b >= a + x, b <= c, e >= c + y, f >= e + z, x + y + z >= d
  PROVE  f >= d
OBVIOUS

LEMMA AddedTwice ==
  ASSUME NEW a \in Nat, NEW b \in Nat, NEW c \in Nat, NEW x \in Nat, NEW y \in Nat, NEW d \in Nat,
         b >= a + x, c >= b + y, x + y >= d
  PROVE  c >= d
OBVIOUS

\* So where they differ in d bits as they part and meet, it is no less than d.
LEMMA BothDear ==
  ASSUME NEW table, IsCode(table), NEW d \in Nat, DetourOf(table, d), NEW n \in Nat,
         NEW w, DOMAIN w = 1..n + 1,
         NEW p \in Seq(States(table)), Len(p) = n + 1, NEW q \in Seq(States(table)), Len(q) = n + 1,
         p[n + 1] = q[n + 1], NEW x \in 1..n, p[x] # q[x]
  PROVE  BothSpent(HardPrices(w), WordOf(table, p), WordOf(table, q))[n + 1] >= d
<1>1. PICK a \in Seq(0..15) : a = WordOf(table, p) /\ Len(a) = n + 1
  BY WordType
<1>2. PICK b \in Seq(0..15) : b = WordOf(table, q) /\ Len(b) = n + 1
  BY WordType
<1>3. PICK m \in Nat : m = n + 1
  OBVIOUS
<1>4. PICK both \in [0..m -> Nat] : both = BothSpent(HardPrices(w), a, b)
  BY <1>1, <1>2, <1>3, BothRise
<1>5. ASSUME NEW t \in 1..m
      PROVE  /\ OnesCount(a[t], b[t]) \in Nat
             /\ both[t] >= both[t-1] + OnesCount(a[t], b[t])
  BY <1>1, <1>2, <1>3, <1>4, BothRise
<1>6. ASSUME NEW t \in 1..m
      PROVE  /\ Was(p, t - 1) \in States(table) /\ Was(q, t - 1) \in States(table)
             /\ p[t] \in States(table) /\ q[t] \in States(table)
             /\ OnesCount(a[t], b[t]) = Differ(table, Was(p, t - 1), p[t], Was(q, t - 1), q[t])
  <2>1. t - 1 \in 0..n + 1 /\ t \in 1..n + 1
    BY <1>3
  <2>2. Was(p, t - 1) \in States(table) /\ Was(q, t - 1) \in States(table)
    BY <2>1, WordType
  <2>3. p[t] \in States(table) /\ q[t] \in States(table)
    BY <2>1
  <2>4. a[t] = Sent(table, Was(p, t - 1), p[t]) /\ b[t] = Sent(table, Was(q, t - 1), q[t])
    BY <1>1, <1>2, <2>1 DEF WordOf
  <2> QED
    BY <2>2, <2>3, <2>4 DEF Differ
<1>7. Rising(m, both)
  <2> SUFFICES ASSUME NEW t \in 1..m PROVE both[t-1] <= both[t]
    BY DEF Rising
  <2>1. t - 1 \in 0..m /\ t \in 0..m
    OBVIOUS
  <2>2. both[t-1] \in Nat /\ both[t] \in Nat
    BY <2>1
  <2>3. OnesCount(a[t], b[t]) \in Nat /\ both[t] >= both[t-1] + OnesCount(a[t], b[t])
    BY <1>5
  <2> QED
    BY <2>2, <2>3
<1>8. PICK i \in 1..n : \E k \in i + 1..n + 1 : Parts(p, q, i) /\ Meets(p, q, i, k)
  BY PartAndMeet
<1>9. PICK k \in i + 1..n + 1 : Parts(p, q, i) /\ Meets(p, q, i, k)
  BY <1>8
<1>10. i \in 1..m /\ k \in 1..m /\ i < k /\ i \in 0..m /\ i - 1 \in 0..m /\ k - 1 \in 1..m
       /\ k \in 0..m /\ k - 1 \in 0..m /\ k - 1 # 0 /\ k - 1 - 1 \in 0..m /\ k - 1 \in i..k-1
       /\ i \in i..k - 1 /\ m \in 0..m /\ m \in k..m /\ k - 1 \in Nat
  BY <1>3
<1>11. Was(p, i - 1) = Was(q, i - 1) /\ p[i] # q[i] /\ p[k] = q[k] /\ p[k-1] # q[k-1]
       /\ Was(p, k - 1) = p[k-1] /\ Was(q, k - 1) = q[k-1]
  BY <1>9, <1>10 DEF Parts, Meets, Was
<1>12. both[k] <= both[m]
  BY <1>7, <1>10, Risen
<1>13. both[k] >= d
  <2>1. PICK s \in States(table) : s = Was(p, i - 1) /\ s = Was(q, i - 1)
    BY <1>6, <1>10, <1>11
  <2>2. PICK pi \in States(table) : pi = p[i]
    BY <1>6, <1>10
  <2>3. PICK qi \in States(table) : qi = q[i]
    BY <1>6, <1>10
  <2>4. PICK pj \in States(table) : pj = p[k-1]
    BY <1>6, <1>10
  <2>5. PICK qj \in States(table) : qj = q[k-1]
    BY <1>6, <1>10
  <2>6. PICK e \in States(table) : e = p[k] /\ e = q[k]
    BY <1>6, <1>10, <1>11
  <2>7. pi # qi /\ pj # qj
    BY <1>11, <2>2, <2>3, <2>4, <2>5
  <2>8. OnesCount(a[i], b[i]) = Differ(table, s, pi, s, qi)
    BY <1>6, <1>10, <2>1, <2>2, <2>3
  <2>9. OnesCount(a[k], b[k]) = Differ(table, pj, e, qj, e)
    BY <1>6, <1>10, <1>11, <2>4, <2>5, <2>6
  <2>10. PICK D \in Nat : D = OnesCount(a[i], b[i]) /\ both[i] >= both[i-1] + D
    BY <1>5, <1>10
  <2>11. PICK E \in Nat : E = OnesCount(a[k], b[k]) /\ both[k] >= both[k-1] + E
    BY <1>5, <1>10
  <2>12. both[i-1] \in Nat /\ both[i] \in Nat /\ both[k] \in Nat /\ both[k-1] \in Nat /\ both[k-1-1] \in Nat
    BY <1>10
  <2>13. CASE k - 1 = i
    <3>1. pi = pj /\ qi = qj
      BY <2>2, <2>3, <2>4, <2>5, <2>13
    <3>2. D + E >= d
      BY <2>7, <2>8, <2>9, <2>10, <2>11, <3>1 DEF DetourOf
    <3> QED
      BY <2>10, <2>11, <2>12, <2>13, <3>2, AddedTwice
  <2>14. CASE k - 1 # i
    <3>1. PICK part, apart, meet \in 0..4 :
            ApartBy(table, part, apart, meet) /\ part + apart + meet >= d
      BY DEF DetourOf
    <3>2. D >= part
      BY <2>7, <2>8, <2>10, <3>1 DEF ApartBy
    <3>3. E >= meet
      BY <2>7, <2>9, <2>11, <3>1 DEF ApartBy
    <3>4. k - 1 - 1 \in i..k - 1 /\ k - 1 - 1 # 0 /\ i <= k - 1 - 1 /\ k - 1 - 1 \in 1..m
          /\ k - 1 - 1 \in i..m
      BY <1>10, <2>14
    <3>5. p[k-1-1] # q[k-1-1] /\ Was(p, k - 1 - 1) = p[k-1-1] /\ Was(q, k - 1 - 1) = q[k-1-1]
      BY <1>9, <3>4 DEF Meets, Was
    <3>6. PICK F \in Nat : F = OnesCount(a[k-1], b[k-1]) /\ both[k-1] >= both[k-1-1] + F
      BY <1>5, <1>10
    <3>7. PICK ph \in States(table) : ph = p[k-1-1]
      BY <1>6, <3>4
    <3>8. PICK qh \in States(table) : qh = q[k-1-1]
      BY <1>6, <3>4
    <3>9. F = Differ(table, ph, pj, qh, qj)
      BY <1>6, <1>10, <2>4, <2>5, <3>5, <3>6, <3>7, <3>8
    <3>10. F >= apart
      BY <2>7, <3>1, <3>5, <3>7, <3>8, <3>9 DEF ApartBy
    <3>11. both[i] <= both[k-1-1]
      BY <1>7, <1>10, <3>4, Risen
    <3>12. part \in Nat /\ apart \in Nat /\ meet \in Nat /\ part + apart + meet >= d
      BY <3>1
    <3>13. D + F + E >= d
      BY <3>2, <3>3, <3>10, <3>12
    <3>14. PICK b0 \in Nat : b0 = both[i-1]
      BY <2>12
    <3>15. PICK b1 \in Nat : b1 = both[i]
      BY <2>12
    <3>16. PICK b2 \in Nat : b2 = both[k-1-1]
      BY <2>12
    <3>17. PICK b3 \in Nat : b3 = both[k-1]
      BY <2>12
    <3>18. PICK b4 \in Nat : b4 = both[k]
      BY <2>12
    <3>19. b1 >= b0 + D
      BY <2>10, <3>14, <3>15
    <3>20. b1 <= b2
      BY <3>11, <3>15, <3>16
    <3>21. b3 >= b2 + F
      BY <3>6, <3>16, <3>17
    <3>22. b4 >= b3 + E
      BY <2>11, <3>17, <3>18
    <3>23. b4 >= d
      BY <3>6, <3>13, <3>19, <3>20, <3>21, <3>22, AddedThrice
    <3> QED
      BY <3>18, <3>23
  <2> QED
    BY <2>13, <2>14
<1>14. both[k] \in Nat /\ both[m] \in Nat
  BY <1>10
<1>15. both[m] >= d
  BY <1>12, <1>13, <1>14
<1> QED
  BY <1>1, <1>2, <1>3, <1>4, <1>15

-----------------------------------------------------------------------------
\* With fewer errors than half of that, no other data is as near, and the search has it
\* (trellis.go:77, trellis34.go:59).  For every code, every length, and every error.
THEOREM FewErrorsCorrected ==
  ASSUME NEW table, IsCode(table), NEW d \in Nat, DetourOf(table, d), NEW n \in Nat,
         NEW w, DOMAIN w = 1..n + 1, NEW data \in Seq(States(table)), Len(data) = n,
         NEW r \in Nat, 2 * r < d, Cost(table, HardPrices(w), data) <= r
  PROVE  Viterbi(table, HardPrices(w)) = data
<1>1. PICK prices \in Seq([0..15 -> Nat]) : prices = HardPrices(w) /\ Len(prices) = n + 1
  <2>1. n + 1 \in Nat
    OBVIOUS
  <2> QED
    BY <2>1, HardPricesOf
<1>2. PICK found \in Seq(States(table)) :
        /\ found = Viterbi(table, prices) /\ Len(found) = n
        /\ Cost(table, prices, found) <= Cost(table, prices, data)
  BY <1>1, CheapestFound
<1> SUFFICES ASSUME found # data PROVE FALSE
  BY <1>1, <1>2
<1>3. PICK x \in 1..n : found[x] # data[x]
  BY <1>2, SeqEqual
<1>4. PICK p \in Seq(States(table)) :
        /\ p = Flushed(found) /\ Len(p) = n + 1 /\ p[n + 1] = 0 /\ p[x] = found[x]
        /\ trellisDibitEncode(table, found) = WordOf(table, p)
  BY <1>2, EncodeIsWord
<1>5. PICK q \in Seq(States(table)) :
        /\ q = Flushed(data) /\ Len(q) = n + 1 /\ q[n + 1] = 0 /\ q[x] = data[x]
        /\ trellisDibitEncode(table, data) = WordOf(table, q)
  BY EncodeIsWord
<1>6. PICK both : both = BothSpent(prices, WordOf(table, p), WordOf(table, q))
  OBVIOUS
<1>7. both[n + 1] >= d
  <2>1. p[x] # q[x] /\ p[n + 1] = q[n + 1] /\ Len(p) = n + 1 /\ Len(q) = n + 1
    BY <1>3, <1>4, <1>5
  <2> QED
    BY <1>1, <1>6, <2>1, BothDear
<1>8. WordOf(table, p) \in Seq(0..15) /\ Len(WordOf(table, p)) = n + 1
  BY <1>4, WordType
<1>9. WordOf(table, q) \in Seq(0..15) /\ Len(WordOf(table, q)) = n + 1
  BY <1>5, WordType
<1>10. n + 1 \in 0..n + 1 /\ n + 1 \in Nat
  OBVIOUS
<1>11. PICK a : a = Spent(prices, WordOf(table, p))[n + 1]
  OBVIOUS
<1>12. PICK b : b = Spent(prices, WordOf(table, q))[n + 1]
  OBVIOUS
<1>13. Len(WordOf(table, p)) <= Len(prices) /\ Len(WordOf(table, q)) <= Len(prices)
  BY <1>1, <1>8, <1>9
<1>14. a \in Nat
  <2>1. Spent(prices, WordOf(table, p)) \in [0..n + 1 -> Nat]
    BY <1>8, <1>13, SpentIs
  <2> QED
    BY <1>10, <1>11, <2>1
<1>15. b \in Nat
  <2>1. Spent(prices, WordOf(table, q)) \in [0..n + 1 -> Nat]
    BY <1>9, <1>13, SpentIs
  <2> QED
    BY <1>10, <1>12, <2>1
<1>16. both[n + 1] = a + b
  BY <1>6, <1>8, <1>10, <1>11, <1>12 DEF BothSpent
<1>17. Cost(table, prices, found) = a
  BY <1>4, <1>8, <1>11 DEF Cost
<1>18. Cost(table, prices, data) = b
  BY <1>5, <1>9, <1>12 DEF Cost
<1>19. a <= b /\ b <= r /\ a + b >= d
  BY <1>1, <1>2, <1>7, <1>16, <1>17, <1>18
<1> QED
  BY <1>14, <1>15, <1>19

\* What the job and its result are, of a code that corrects r bits.
Sends(table, d, r) ==
    /\ IsCode(table) /\ d \in Nat /\ DetourOf(table, d) /\ r \in Nat /\ 2 * r < d
    /\ job.data \in Seq(States(table))
    /\ sent = trellisDibitEncode(table, job.data)
    /\ result.ok /\ result.data = Viterbi(table, HardPrices(received))
    /\ Spent(HardPrices(received), sent)[Len(sent)] <= r

\* The half-rate code corrects two bits, wherever they are, and the three-quarter-rate
\* code one.
LEMMA TrellisRight ==
  ASSUME OfTheJob, Decoded, job.code \in {"Half", "ThreeQuarters"}
  PROVE  Corrected
<1> SUFFICES ASSUME Near(job.code, sent, received) PROVE Corrected
  BY DEF Corrected
<1>1. /\ job \in Jobs /\ sent = Encode(job.code, job.data)
      /\ received = Disturbed(job.code, sent, job.noise) /\ result = Decode(job.code, received)
  BY DEF OfTheJob, Decoded
<1>2. \E table, d, r : Sends(table, d, r)
  <2>1. CASE job.code = "Half"
    <3>1. IsCode(trellisNext) /\ States(trellisNext) = 0..3
      BY HalfIsCode
    <3>2. DetourOf(trellisNext, 5) /\ 5 \in Nat /\ 2 \in Nat /\ 2 * 2 < 5
      BY CodesApart
    <3>3. job.data \in Seq(0..3)
      <4>1. WellFormed(job)
        BY <1>1, JobsAssumption
      <4> QED
        BY <2>1, <4>1 DEF WellFormed
    <3>4. sent = trellisDibitEncode(trellisNext, job.data)
      BY <1>1, <2>1 DEF Encode
    <3>5. result.ok /\ result.data = Viterbi(trellisNext, HardPrices(received))
      BY <1>1, <2>1 DEF Decode, trellisDibitDecode
    <3>6. Spent(HardPrices(received), sent)[Len(sent)] <= 2
      BY <2>1 DEF Near, Radius
    <3>7. job.data \in Seq(States(trellisNext))
      BY <3>1, <3>3
    <3> QED
      BY <3>1, <3>2, <3>4, <3>5, <3>6, <3>7 DEF Sends
  <2>2. CASE job.code = "ThreeQuarters"
    <3>1. IsCode(trellis34Transition) /\ States(trellis34Transition) = 0..7
      BY ThreeQuartersIsCode
    <3>2. DetourOf(trellis34Transition, 3) /\ 3 \in Nat /\ 1 \in Nat /\ 2 * 1 < 3
      BY CodesApart
    <3>3. job.data \in Seq(0..7)
      <4>1. WellFormed(job)
        BY <1>1, JobsAssumption
      <4> QED
        BY <2>2, <4>1 DEF WellFormed
    <3>4. sent = trellisDibitEncode(trellis34Transition, job.data)
      BY <1>1, <2>2 DEF Encode
    <3>5. result.ok /\ result.data = Viterbi(trellis34Transition, HardPrices(received))
      BY <1>1, <2>2 DEF Decode, trellis34DibitDecode
    <3>6. Spent(HardPrices(received), sent)[Len(sent)] <= 1
      BY <2>2 DEF Near, Radius
    <3>7. job.data \in Seq(States(trellis34Transition))
      BY <3>1, <3>3
    <3> QED
      BY <3>1, <3>2, <3>4, <3>5, <3>6, <3>7 DEF Sends
  <2> QED
    BY <2>1, <2>2
<1>3. PICK table, d, r : Sends(table, d, r)
  BY <1>2
<1>4. PICK n \in Nat : n = Len(job.data)
  BY <1>3 DEF Sends
<1>5. sent \in [1..n + 1 -> 0..15]
  BY <1>3, <1>4, EncodedIs DEF Sends
<1>6. DOMAIN received = 1..n + 1
  <2>1. received = [i \in DOMAIN sent |-> IF i \in DOMAIN job.noise THEN Plus[sent[i]][job.noise[i]]
                                                                   ELSE sent[i]]
    <3>1. CASE job.code = "Half"
      BY <1>1, <3>1 DEF Disturbed, Table, Soft, ByBlock, ByWord, ByBit
    <3>2. CASE job.code = "ThreeQuarters"
      BY <1>1, <3>2 DEF Disturbed, Table, Soft, ByBlock, ByWord, ByBit
    <3> QED
      BY <3>1, <3>2
  <2> QED
    BY <1>5, <2>1
<1>7. Cost(table, HardPrices(received), job.data) <= r
  BY <1>3 DEF Cost, Sends
<1>8. Viterbi(table, HardPrices(received)) = job.data
  BY <1>3, <1>4, <1>6, <1>7, FewErrorsCorrected DEF Sends
<1>9. result.data = job.data /\ result.ok
  BY <1>3, <1>8 DEF Sends
<1>10. CASE job.code = "Half"
  BY <1>9, <1>10 DEF Corrected, DataIn, Meant, acchSpecFor
<1>11. CASE job.code = "ThreeQuarters"
  BY <1>9, <1>11 DEF Corrected, DataIn, Meant, acchSpecFor
<1> QED
  BY <1>10, <1>11

\* What was sent by the half-rate or the three-quarter-rate code, for every length of data, is
\* what is found, when fewer bits are wrong than half of what tells two code words apart: five
\* and three bits (trellis.go:77, trellis34.go:59).
THEOREM TrellisCode == CSpec => [](Decoded /\ job.code \in {"Half", "ThreeQuarters"} => Corrected)
<1>1. OfTheJob => (Decoded /\ job.code \in {"Half", "ThreeQuarters"} => Corrected)
  BY TrellisRight
<1> QED
  BY <1>1, JobSpec, PTL

-----------------------------------------------------------------------------
(* A block on the air.                                                     *)

Bits196 == [0..195 -> 0..1]

\* Where two words of bits differ, of the first k.
WrongOf(a, b, k) == {i \in 0..k - 1 : a[i] # b[i]}

LEMMA WrongSize ==
  ASSUME NEW a, NEW b, NEW k \in Nat
  PROVE  IsFiniteSet(WrongOf(a, b, k)) /\ Cardinality(WrongOf(a, b, k)) \in Nat
<1>1. k - 1 \in Int /\ 0 \in Int
  OBVIOUS
<1>2. IsFiniteSet(0..k - 1)
  BY <1>1, FS_Interval
<1>3. WrongOf(a, b, k) \subseteq 0..k - 1
  BY DEF WrongOf
<1> QED
  BY <1>2, <1>3, FS_Subset, FS_CardinalityType

\* Four bits are a number whose bits they are, the first the highest.
LEMMA BitsOfFour ==
  ASSUME NEW b0 \in 0..1, NEW b1 \in 0..1, NEW b2 \in 0..1, NEW b3 \in 0..1
  PROVE  LET s == 8 * b0 + 4 * b1 + 2 * b2 + b3
         IN  BitOf(s, 3) = b0 /\ BitOf(s, 2) = b1 /\ BitOf(s, 1) = b2 /\ BitOf(s, 0) = b3
<1>1. PICK s \in 0..15 : s = 8 * b0 + 4 * b1 + 2 * b2 + b3
  OBVIOUS
<1>2. 2^3 = 8 /\ 2^2 = 4 /\ 2^1 = 2 /\ 2^0 = 1
  OBVIOUS
<1>3. BitOf(s, 3) = b0
  BY <1>1, <1>2 DEF BitOf
<1>4. BitOf(s, 2) = b1
  BY <1>1, <1>2 DEF BitOf
<1>5. BitOf(s, 1) = b2
  BY <1>1, <1>2 DEF BitOf
<1>6. BitOf(s, 0) = b3
  BY <1>1, <1>2 DEF BitOf
<1> QED
  BY <1>1, <1>3, <1>4, <1>5, <1>6

\* A symbol that is not received as it was sent has a bit wrong for each that differs.
LEMMA SymbolsDiffer ==
  ASSUME NEW x \in Bits196, NEW word \in [1..49 -> 0..15], NEW t \in 1..49
  PROVE  OnesCount(ToSymbols(x)[t], word[t])
           <= Cardinality({i \in 4*t - 4..4*t - 1 : x[i] # ToBits(word)[i]})
<1>1. PICK s : s = ToSymbols(x)[t]
  OBVIOUS
<1>2. s = 8 * x[4*t - 4 + 0] + 4 * x[4*t - 4 + 1] + 2 * x[4*t - 4 + 2] + x[4*t - 4 + 3]
  BY <1>1 DEF ToSymbols
<1>3. /\ x[4*t - 4 + 0] \in 0..1 /\ x[4*t - 4 + 1] \in 0..1
      /\ x[4*t - 4 + 2] \in 0..1 /\ x[4*t - 4 + 3] \in 0..1
  <2>1. /\ 4*t - 4 + 0 \in 0..195 /\ 4*t - 4 + 1 \in 0..195
        /\ 4*t - 4 + 2 \in 0..195 /\ 4*t - 4 + 3 \in 0..195
    OBVIOUS
  <2> QED
    BY <2>1 DEF Bits196
<1>4. ASSUME NEW j \in 0..3 PROVE BitOf(s, j) = x[4*t - 1 - j]
  <2>1. /\ BitOf(s, 3) = x[4*t - 4 + 0] /\ BitOf(s, 2) = x[4*t - 4 + 1]
        /\ BitOf(s, 1) = x[4*t - 4 + 2] /\ BitOf(s, 0) = x[4*t - 4 + 3]
    BY <1>2, <1>3, BitsOfFour
  <2>2. /\ 4*t - 4 + 0 = 4*t - 1 - 3 /\ 4*t - 4 + 1 = 4*t - 1 - 2
        /\ 4*t - 4 + 2 = 4*t - 1 - 1 /\ 4*t - 4 + 3 = 4*t - 1 - 0
    OBVIOUS
  <2>3. j = 0 \/ j = 1 \/ j = 2 \/ j = 3
    OBVIOUS
  <2> QED
    BY <2>1, <2>2, <2>3
<1>5. ASSUME NEW j \in 0..3 PROVE BitOf(word[t], j) = ToBits(word)[4*t - 1 - j]
  <2>1. PICK i \in 0..195 : i = 4*t - 1 - j
    OBVIOUS
  <2>2. i \div 4 = t - 1 /\ i % 4 = 3 - j
    BY <2>1
  <2>3. (i \div 4) + 1 = t /\ 3 - (i % 4) = j
    BY <2>2
  <2>4. ToBits(word)[i] = BitOf(word[(i \div 4) + 1], 3 - (i % 4))
    BY DEF ToBits
  <2> QED
    BY <2>1, <2>3, <2>4
<1>6. PICK A : A = {j \in 0..3 : BitOf(s, j) # BitOf(word[t], j)}
  OBVIOUS
<1>7. PICK D : D = {i \in 4*t - 4..4*t - 1 : x[i] # ToBits(word)[i]}
  OBVIOUS
<1>8. IsFiniteSet(D)
  <2>1. 4*t - 4 \in Int /\ 4*t - 1 \in Int
    OBVIOUS
  <2>2. IsFiniteSet(4*t - 4..4*t - 1)
    BY <2>1, FS_Interval
  <2>3. D \subseteq 4*t - 4..4*t - 1
    BY <1>7
  <2> QED
    BY <2>2, <2>3, FS_Subset
<1>9. PICK f : f = [j \in A |-> 4*t - 1 - j]
  OBVIOUS
<1>10. f \in Injection(A, D)
  <2>1. ASSUME NEW j \in A PROVE 4*t - 1 - j \in D
    <3>1. j \in 0..3 /\ BitOf(s, j) # BitOf(word[t], j)
      BY <1>6
    <3>2. 4*t - 1 - j \in 4*t - 4..4*t - 1
      BY <3>1
    <3> QED
      BY <1>4, <1>5, <1>7, <3>1, <3>2
  <2>2. \A j, k \in A : 4*t - 1 - j = 4*t - 1 - k => j = k
    BY <1>6
  <2> QED
    BY <1>9, <2>1, <2>2 DEF Injection, IsInjective
<1>11. Cardinality(A) <= Cardinality(D)
  BY <1>8, <1>10, FS_Injection
<1> QED
  BY <1>1, <1>6, <1>7, <1>11 DEF OnesCount

\* The first k positions are the first k - 4 and four more.
LEMMA FourMore ==
  ASSUME NEW k \in Nat, k >= 4
  PROVE  /\ 0..k - 1 = (0..(k - 4) - 1) \cup (k - 4..k - 1)
         /\ (0..(k - 4) - 1) \cap (k - 4..k - 1) = {}
<1>1. PICK h \in Nat : h = k - 4 /\ k = h + 4
  OBVIOUS
<1>2. \A i : i \in 0..(h + 4) - 1 <=> (i \in 0..h - 1 \/ i \in h..(h + 4) - 1)
  OBVIOUS
<1>3. \A i : ~(i \in 0..h - 1 /\ i \in h..(h + 4) - 1)
  OBVIOUS
<1>4. 0..(h + 4) - 1 = (0..h - 1) \cup (h..(h + 4) - 1) /\ (0..h - 1) \cap (h..(h + 4) - 1) = {}
  BY <1>2, <1>3
<1> QED
  BY <1>1, <1>4

LEMMA SymbolsSeq ==
  ASSUME NEW n \in Nat, NEW word \in [1..n -> 0..15]
  PROVE  word \in Seq(0..15) /\ Len(word) = n
OBVIOUS

\* So a word costs no more than its wrong bits.
LEMMA BitsSpent ==
  ASSUME NEW x \in Bits196, NEW word \in [1..49 -> 0..15]
  PROVE  Spent(HardPrices(ToSymbols(x)), word)[Len(word)] <= Cardinality(WrongOf(x, ToBits(word), 196))
<1>1. DOMAIN ToSymbols(x) = 1..49 /\ 49 \in Nat
  BY DEF ToSymbols
<1>2. PICK prices \in Seq([0..15 -> Nat]) : prices = HardPrices(ToSymbols(x)) /\ Len(prices) = 49
  BY <1>1, HardPricesOf
<1>3. word \in Seq(0..15) /\ Len(word) = 49
  BY <1>1, SymbolsSeq
<1>4. PICK u : u = Spent(prices, word)
  OBVIOUS
<1>5. Len(word) <= Len(prices)
  BY <1>2, <1>3
<1>6. u \in [0..49 -> Nat] /\ u[0] = 0 /\ \A t \in 1..49 : u[t] = u[t-1] + prices[t][word[t]]
  BY <1>3, <1>4, <1>5, SpentIs
<1>7. PICK bits : bits = ToBits(word)
  OBVIOUS
<1> DEFINE Few(t) == u[t] <= Cardinality(WrongOf(x, bits, 4*t))
<1>8. Few(0)
  <2>1. 4 * 0 = 0 /\ 0 \in Nat
    OBVIOUS
  <2>2. Cardinality(WrongOf(x, bits, 0)) \in Nat
    BY <2>1, WrongSize
  <2> QED
    BY <1>6, <2>1, <2>2
<1>9. ASSUME NEW t \in 1..49, Few(t - 1) PROVE Few(t)
  <2>1. prices[t] = [cw \in 0..15 |-> OnesCount(ToSymbols(x)[t], cw)] /\ word[t] \in 0..15
    BY <1>1, <1>2 DEF HardPrices
  <2>2. PICK D : D = {i \in 4*t - 4..4*t - 1 : x[i] # bits[i]}
    OBVIOUS
  <2>3. prices[t][word[t]] <= Cardinality(D)
    BY <1>7, <2>1, <2>2, SymbolsDiffer
  <2>4. PICK W : W = WrongOf(x, bits, 4*t - 4)
    OBVIOUS
  <2>5. WrongOf(x, bits, 4*t) = W \cup D /\ W \cap D = {}
    <3>1. PICK k \in Nat : k = 4*t /\ k >= 4
      OBVIOUS
    <3>2. /\ 0..k - 1 = (0..(k - 4) - 1) \cup (k - 4..k - 1)
          /\ (0..(k - 4) - 1) \cap (k - 4..k - 1) = {}
      BY <3>1, FourMore
    <3>4. W = {i \in 0..(k - 4) - 1 : x[i] # bits[i]} /\ D = {i \in k - 4..k - 1 : x[i] # bits[i]}
      BY <2>2, <2>4, <3>1 DEF WrongOf
    <3>5. WrongOf(x, bits, 4*t) = {i \in 0..k - 1 : x[i] # bits[i]}
      BY <3>1 DEF WrongOf
    <3>6. W \cap D = {}
      BY <3>2, <3>4
    <3> QED
      BY <3>2, <3>4, <3>5, <3>6
  <2>6. IsFiniteSet(W) /\ Cardinality(W) \in Nat
    <3>1. 4*t - 4 \in Nat
      OBVIOUS
    <3> QED
      BY <2>4, <3>1, WrongSize
  <2>7. IsFiniteSet(D) /\ Cardinality(D) \in Nat
    <3>1. 4*t - 4 \in Int /\ 4*t - 1 \in Int
      OBVIOUS
    <3>2. IsFiniteSet(4*t - 4..4*t - 1) /\ D \subseteq 4*t - 4..4*t - 1
      BY <2>2, <3>1, FS_Interval
    <3> QED
      BY <3>2, FS_Subset, FS_CardinalityType
  <2>8. Cardinality(WrongOf(x, bits, 4*t)) = Cardinality(W) + Cardinality(D)
    <3>1. Cardinality(W \cup D) = Cardinality(W) + Cardinality(D) - Cardinality(W \cap D)
      BY <2>6, <2>7, FS_Union
    <3>2. Cardinality(W \cap D) = 0
      BY <2>5, FS_EmptySet
    <3>3. WrongOf(x, bits, 4*t) = W \cup D
      BY <2>5
    <3>4. Cardinality(W \cup D) = Cardinality(W) + Cardinality(D)
      BY <2>6, <2>7, <3>1, <3>2
    <3> QED
      BY <3>3, <3>4
  <2>9. 4 * (t - 1) = 4*t - 4 /\ t - 1 \in 0..49
    OBVIOUS
  <2>10. u[t-1] <= Cardinality(W)
    BY <1>9, <2>4, <2>9
  <2>11. PICK p \in Nat : p = prices[t][word[t]]
    BY <2>1, OnesTriangle
  <2>12. u[t] = u[t-1] + p /\ p <= Cardinality(D) /\ u[t-1] \in Nat
    BY <1>6, <2>3, <2>9, <2>11
  <2>13. PICK a \in Nat : a = Cardinality(W)
    BY <2>6
  <2>14. PICK b \in Nat : b = Cardinality(D)
    BY <2>7
  <2>15. PICK c \in Nat : c = u[t-1]
    BY <2>12
  <2>16. c <= a /\ p <= b /\ u[t] = c + p
    BY <2>10, <2>12, <2>13, <2>14, <2>15
  <2>17. c + p <= a + b
    BY <2>16
  <2> QED
    BY <2>8, <2>13, <2>14, <2>16, <2>17
<1> HIDE DEF Few
<1>10. PICK n \in Nat : n = 49
  OBVIOUS
<1>11. PICK Bad : Bad = {t \in 0..n : ~Few(t)}
  OBVIOUS
<1>12. Bad = {}
  <2> SUFFICES ASSUME Bad # {} PROVE FALSE
    OBVIOUS
  <2>1. Bad \in SUBSET Nat
    BY <1>11
  <2>2. PICK t \in Bad : \A m \in Bad : t <= m
    BY <2>1, LeastIn
  <2>3. t \in 0..n /\ ~Few(t)
    BY <1>11
  <2>4. t \in 1..n
    BY <1>8, <2>3
  <2>5. t - 1 \in 0..n /\ t - 1 \notin Bad
    BY <2>2, <2>4
  <2> QED
    BY <1>9, <1>10, <1>11, <2>3, <2>4, <2>5
<1>13. Few(49)
  BY <1>10, <1>11, <1>12
<1>14. 4 * 49 = 196
  OBVIOUS
<1> QED
  BY <1>2, <1>3, <1>4, <1>7, <1>13, <1>14 DEF Few

-----------------------------------------------------------------------------
\* The interleaver puts a bit where the deinterleaver takes it from.
LEMMA Interleaved ==
  ASSUME NEW in, NEW i \in 0..195
  PROVE  tsbkInterleave(in)[tsbkDeinterleaveTab[i]] = in[i]
<1>1. PICK j \in 0..195 : j = tsbkDeinterleaveTab[i]
  BY Interleaves
<1>2. PICK k : k = CHOOSE n \in 0..195 : tsbkDeinterleaveTab[n] = j
  OBVIOUS
<1>3. k \in 0..195 /\ tsbkDeinterleaveTab[k] = j
  BY <1>1, <1>2
<1>4. k = i
  BY <1>1, <1>3, Interleaves
<1>5. tsbkInterleave(in)[j] = in[CHOOSE n \in 0..195 : tsbkDeinterleaveTab[n] = j]
  BY DEF tsbkInterleave
<1> QED
  BY <1>1, <1>2, <1>4, <1>5

\* So as many bits are wrong at the decoder as on the air.
LEMMA WrongOnAir ==
  ASSUME NEW bits, NEW r
  PROVE  Cardinality(WrongOf(tsbkDeinterleave(r), bits, 196))
           <= Cardinality({j \in 0..195 : tsbkInterleave(bits)[j] # r[j]})
<1>1. PICK A : A = WrongOf(tsbkDeinterleave(r), bits, 196)
  OBVIOUS
<1>2. PICK B : B = {j \in 0..195 : tsbkInterleave(bits)[j] # r[j]}
  OBVIOUS
<1>3. IsFiniteSet(B)
  <2>1. 0 \in Int /\ 195 \in Int
    OBVIOUS
  <2>2. IsFiniteSet(0..195) /\ B \subseteq 0..195
    BY <1>2, <2>1, FS_Interval
  <2> QED
    BY <2>2, FS_Subset
<1>4. PICK f : f = [i \in A |-> tsbkDeinterleaveTab[i]]
  OBVIOUS
<1>5. ASSUME NEW i \in A PROVE i \in 0..195 /\ tsbkDeinterleaveTab[i] \in B
  <2>1. 196 - 1 = 195
    OBVIOUS
  <2>2. i \in 0..195 /\ tsbkDeinterleave(r)[i] # bits[i]
    BY <1>1, <2>1 DEF WrongOf
  <2>3. tsbkDeinterleave(r)[i] = r[tsbkDeinterleaveTab[i]]
    BY <2>2 DEF tsbkDeinterleave
  <2>4. tsbkInterleave(bits)[tsbkDeinterleaveTab[i]] = bits[i]
    BY <2>2, Interleaved
  <2>5. tsbkDeinterleaveTab[i] \in 0..195
    BY <2>2, Interleaves
  <2> QED
    BY <1>2, <2>2, <2>3, <2>4, <2>5
<1>6. f \in Injection(A, B)
  <2>1. f \in [A -> B]
    BY <1>4, <1>5
  <2>2. ASSUME NEW i \in A, NEW j \in A, f[i] = f[j] PROVE i = j
    <3>1. tsbkDeinterleaveTab[i] = tsbkDeinterleaveTab[j]
      BY <1>4, <2>2
    <3> QED
      BY <1>5, <3>1, Interleaves
  <2> QED
    BY <1>4, <2>1, <2>2 DEF Injection, IsInjective
<1>7. Cardinality(A) <= Cardinality(B)
  BY <1>3, <1>6, FS_Injection
<1> QED
  BY <1>1, <1>2, <1>7

\* Of a number every bit is one.
LEMMA BitsType ==
  ASSUME NEW word \in [1..49 -> 0..15]
  PROVE  ToBits(word) \in Bits196
<1>1. ASSUME NEW i \in 0..195 PROVE BitOf(word[(i \div 4) + 1], 3 - (i % 4)) \in 0..1
  <2>1. (i \div 4) + 1 \in 1..49 /\ 3 - (i % 4) \in 0..3
    OBVIOUS
  <2>2. PICK s \in 0..15 : s = word[(i \div 4) + 1]
    BY <2>1
  <2>3. \A j \in 0..3 : BitOf(s, j) \in 0..1
    <3>1. BitOf(s, 0) \in 0..1 /\ BitOf(s, 1) \in 0..1 /\ BitOf(s, 2) \in 0..1 /\ BitOf(s, 3) \in 0..1
      <4>1. 2^3 = 8 /\ 2^2 = 4 /\ 2^1 = 2 /\ 2^0 = 1
        OBVIOUS
      <4> QED
        BY <4>1 DEF BitOf
    <3>2. \A j \in 0..3 : j = 0 \/ j = 1 \/ j = 2 \/ j = 3
      OBVIOUS
    <3> QED
      BY <3>1, <3>2
  <2> QED
    BY <2>1, <2>2, <2>3
<1> QED
  BY <1>1 DEF ToBits, Bits196

OnAirWrong(word, got) == Cardinality({j \in 0..195 : tsbkInterleave(ToBits(word))[j] # got[j]})

LEMMA OnAirWrongType ==
  ASSUME NEW word, NEW got
  PROVE  /\ OnAirWrong(word, got) \in Nat
         /\ Cardinality(WrongOf(tsbkDeinterleave(got), ToBits(word), 196)) \in Nat
<1>1. 0 \in Int /\ 195 \in Int /\ 196 \in Nat
  OBVIOUS
<1>2. IsFiniteSet(0..195)
  BY <1>1, FS_Interval
<1>3. PICK B : B = {j \in 0..195 : tsbkInterleave(ToBits(word))[j] # got[j]}
  OBVIOUS
<1>4. B \subseteq 0..195
  BY <1>3
<1>5. Cardinality(B) \in Nat
  BY <1>2, <1>4, FS_Subset, FS_CardinalityType
<1>6. Cardinality(WrongOf(tsbkDeinterleave(got), ToBits(word), 196)) \in Nat
  BY <1>1, WrongSize
<1> QED
  BY <1>3, <1>5, <1>6 DEF OnAirWrong

LEMMA DeinterleavedType ==
  ASSUME NEW got \in Bits196
  PROVE  tsbkDeinterleave(got) \in Bits196
<1>1. ASSUME NEW i \in 0..195 PROVE got[tsbkDeinterleaveTab[i]] \in 0..1
  <2>1. PICK j \in 0..195 : j = tsbkDeinterleaveTab[i]
    BY Interleaves
  <2>2. got[j] \in 0..1
    BY DEF Bits196
  <2> QED
    BY <2>1, <2>2
<1> QED
  BY <1>1 DEF tsbkDeinterleave, Bits196

\* A block that is interleaved, sent with so few bits wrong, and taken apart again is
\* the data, for each code that corrects as many.
LEMMA BlockCorrected ==
  ASSUME NEW table, IsCode(table), NEW d \in Nat, DetourOf(table, d),
         NEW data \in Seq(States(table)), Len(data) = 48, NEW r \in Nat, 2 * r < d,
         NEW got \in Bits196,
         OnAirWrong(trellisDibitEncode(table, data), got) <= r
  PROVE  Viterbi(table, HardPrices(ToSymbols(tsbkDeinterleave(got)))) = data
<1>1. PICK n \in Nat : n = 48
  OBVIOUS
<1>2. PICK word \in [1..49 -> 0..15] : word = trellisDibitEncode(table, data)
  <2>1. trellisDibitEncode(table, data) \in [1..n + 1 -> 0..15]
    BY <1>1, EncodedIs
  <2>2. n + 1 = 49
    BY <1>1
  <2> QED
    BY <2>1, <2>2
<1>3. PICK x \in Bits196 : x = tsbkDeinterleave(got)
  BY DeinterleavedType
<1>4. PICK w : w = ToSymbols(x)
  OBVIOUS
<1>5. DOMAIN w = 1..n + 1
  <2>1. DOMAIN w = 1..49
    BY <1>4 DEF ToSymbols
  <2>2. n + 1 = 49
    BY <1>1
  <2> QED
    BY <2>1, <2>2
<1>6. Spent(HardPrices(w), word)[Len(word)] <= Cardinality(WrongOf(x, ToBits(word), 196))
  BY <1>4, BitsSpent
<1>7. PICK c \in Nat : c = Cardinality(WrongOf(x, ToBits(word), 196)) /\ c <= r
  <2>1. Cardinality(WrongOf(x, ToBits(word), 196)) <= OnAirWrong(word, got)
    BY <1>3, WrongOnAir DEF OnAirWrong
  <2>2. OnAirWrong(word, got) <= r
    BY <1>2
  <2>3. Cardinality(WrongOf(x, ToBits(word), 196)) \in Nat /\ OnAirWrong(word, got) \in Nat
    BY <1>3, OnAirWrongType
  <2>5. PICK a \in Nat : a = OnAirWrong(word, got)
    BY <2>3
  <2>6. PICK c \in Nat : c = Cardinality(WrongOf(x, ToBits(word), 196))
    BY <2>3
  <2>7. c <= a /\ a <= r
    BY <2>1, <2>2, <2>5, <2>6
  <2> QED
    BY <2>6, <2>7
<1>8. Cost(table, HardPrices(w), data) <= r
  <2>1. Cost(table, HardPrices(w), data) = Spent(HardPrices(w), word)[Len(word)]
    BY <1>2 DEF Cost
  <2>2. PICK b \in Nat : b = Spent(HardPrices(w), word)[Len(word)]
    <3>1. word \in Seq(0..15) /\ Len(word) = n + 1
      <4>1. word \in [1..n + 1 -> 0..15] /\ n + 1 \in Nat
        BY <1>1
      <4> QED
        BY <4>1, SymbolsSeq
    <3>2. PICK prices \in Seq([0..15 -> Nat]) : prices = HardPrices(w) /\ Len(prices) = n + 1
      <4>1. n + 1 \in Nat
        OBVIOUS
      <4> QED
        BY <1>5, <4>1, HardPricesOf
    <3>3. Len(word) <= Len(prices)
      BY <3>1, <3>2
    <3>4. Spent(prices, word) \in [0..n + 1 -> Nat]
      BY <3>1, <3>3, SpentIs
    <3>5. n + 1 \in 0..n + 1
      OBVIOUS
    <3> QED
      BY <3>1, <3>2, <3>4, <3>5
  <2>3. b <= c
    BY <1>6, <1>7, <2>2
  <2>4. b <= r
    BY <1>7, <2>3
  <2> QED
    BY <2>1, <2>2, <2>4
<1>9. Len(data) = n
  BY <1>1
<1>10. Viterbi(table, HardPrices(w)) = data
  BY <1>5, <1>8, <1>9, FewErrorsCorrected
<1> QED
  BY <1>3, <1>4, <1>10

-----------------------------------------------------------------------------
\* Every place on the air is some bit's.
LEMMA EveryPlace ==
  \A j \in 0..195 : \E i \in 0..195 : tsbkDeinterleaveTab[i] = j
<1>1. PICK S : S = 0..195
  OBVIOUS
<1>2. IsFiniteSet(S)
  <2>1. 0 \in Int /\ 195 \in Int
    OBVIOUS
  <2> QED
    BY <1>1, <2>1, FS_Interval
<1>3. PICK f : f = tsbkDeinterleaveTab
  OBVIOUS
<1>4. f \in Injection(S, S)
  <2>1. \A i \in S : f[i] \in S
    BY <1>1, <1>3, Interleaves
  <2>2. \A i, j \in S : f[i] = f[j] => i = j
    BY <1>1, <1>3, Interleaves
  <2>3. f = [i \in S |-> f[i]]
    BY <1>1, <1>3 DEF tsbkDeinterleaveTab
  <2>4. f \in [S -> S]
    BY <2>1, <2>3
  <2> QED
    BY <2>2, <2>3, <2>4 DEF Injection, IsInjective
<1>5. f \in Surjection(S, S)
  BY <1>2, <1>4, FS_Injection
<1> QED
  BY <1>1, <1>3, <1>5 DEF Surjection

LEMMA InterleavedType ==
  ASSUME NEW in \in Bits196
  PROVE  tsbkInterleave(in) \in Bits196
<1>1. ASSUME NEW j \in 0..195
      PROVE  in[CHOOSE i \in 0..195 : tsbkDeinterleaveTab[i] = j] \in 0..1
  <2>1. PICK i : i = CHOOSE n \in 0..195 : tsbkDeinterleaveTab[n] = j
    OBVIOUS
  <2>2. i \in 0..195
    BY <2>1, EveryPlace
  <2>3. in[i] \in 0..1
    BY <2>2 DEF Bits196
  <2> QED
    BY <2>1, <2>3
<1> QED
  BY <1>1 DEF tsbkInterleave, Bits196

\* What the job and its result are, of a block of a code that corrects r bits.
SendsBlock(table, d, r) ==
    /\ IsCode(table) /\ d \in Nat /\ DetourOf(table, d) /\ r \in Nat /\ 2 * r < d
    /\ job.data \in Seq(States(table)) /\ Len(job.data) = 48
    /\ sent = tsbkInterleave(ToBits(trellisDibitEncode(table, job.data)))
    /\ result.ok /\ result.data = Viterbi(table, HardPrices(ToSymbols(tsbkDeinterleave(received))))
    /\ Cardinality({i \in DOMAIN sent : sent[i] # received[i]}) <= r

\* A block of either rate is the data still with two bits of it wrong, or with one.
LEMMA BlockRight ==
  ASSUME OfTheJob, Decoded, job.code \in {"Block", "BlockThreeQuarters"}
  PROVE  Corrected
<1> SUFFICES ASSUME Near(job.code, sent, received) PROVE Corrected
  BY DEF Corrected
<1>1. /\ job \in Jobs /\ sent = Encode(job.code, job.data)
      /\ received = Disturbed(job.code, sent, job.noise) /\ result = Decode(job.code, received)
  BY DEF OfTheJob, Decoded
<1>2. WellFormed(job)
  BY <1>1, JobsAssumption
<1>3. \E table, d, r : SendsBlock(table, d, r)
  <2>1. CASE job.code = "Block"
    <3>1. IsCode(trellisNext) /\ States(trellisNext) = 0..3
      BY HalfIsCode
    <3>2. DetourOf(trellisNext, 5) /\ 5 \in Nat /\ 2 \in Nat /\ 2 * 2 < 5
      BY CodesApart
    <3>3. job.data \in Seq(0..3) /\ Len(job.data) = 48
      BY <1>2, <2>1 DEF WellFormed
    <3>4. sent = tsbkInterleave(ToBits(trellisDibitEncode(trellisNext, job.data)))
      BY <1>1, <2>1 DEF Encode, Table, trellisEncode
    <3>5. result.ok /\ result.data = Viterbi(trellisNext, HardPrices(ToSymbols(tsbkDeinterleave(received))))
      BY <1>1, <2>1 DEF Decode, viterbiDecodeRaw, trellisDibitDecode
    <3>6. Cardinality({i \in DOMAIN sent : sent[i] # received[i]}) <= 2
      BY <2>1 DEF Near, Radius
    <3>7. job.data \in Seq(States(trellisNext))
      BY <3>1, <3>3
    <3> QED
      BY <3>1, <3>2, <3>3, <3>4, <3>5, <3>6, <3>7 DEF SendsBlock
  <2>2. CASE job.code = "BlockThreeQuarters"
    <3>1. IsCode(trellis34Transition) /\ States(trellis34Transition) = 0..7
      BY ThreeQuartersIsCode
    <3>2. DetourOf(trellis34Transition, 3) /\ 3 \in Nat /\ 1 \in Nat /\ 2 * 1 < 3
      BY CodesApart
    <3>3. job.data \in Seq(0..7) /\ Len(job.data) = 48
      BY <1>2, <2>2 DEF WellFormed
    <3>4. sent = tsbkInterleave(ToBits(trellisDibitEncode(trellis34Transition, job.data)))
      BY <1>1, <2>2 DEF Encode, Table, trellis34Encode
    <3>5. result.ok /\ result.data = Viterbi(trellis34Transition, HardPrices(ToSymbols(tsbkDeinterleave(received))))
      BY <1>1, <2>2 DEF Decode, viterbi34DecodeRaw, trellis34DibitDecode
    <3>6. Cardinality({i \in DOMAIN sent : sent[i] # received[i]}) <= 1
      BY <2>2 DEF Near, Radius
    <3>7. job.data \in Seq(States(trellis34Transition))
      BY <3>1, <3>3
    <3> QED
      BY <3>1, <3>2, <3>3, <3>4, <3>5, <3>6, <3>7 DEF SendsBlock
  <2> QED
    BY <2>1, <2>2
<1>4. PICK table, d, r : SendsBlock(table, d, r)
  BY <1>3
<1>5. sent \in Bits196
  <2>1. PICK n \in Nat : n = Len(job.data) /\ n = 48
    BY <1>4 DEF SendsBlock
  <2>2. trellisDibitEncode(table, job.data) \in [1..n + 1 -> 0..15]
    BY <1>4, <2>1, EncodedIs DEF SendsBlock
  <2>3. n + 1 = 49
    BY <2>1
  <2>4. trellisDibitEncode(table, job.data) \in [1..49 -> 0..15]
    BY <2>2, <2>3
  <2>5. ToBits(trellisDibitEncode(table, job.data)) \in Bits196
    BY <2>4, BitsType
  <2>6. sent = tsbkInterleave(ToBits(trellisDibitEncode(table, job.data)))
    BY <1>4 DEF SendsBlock
  <2> QED
    BY <2>5, <2>6, InterleavedType
<1>6. received \in Bits196
  <2>1. received = [i \in DOMAIN sent |-> IF i \in DOMAIN job.noise THEN Plus[sent[i]][job.noise[i]]
                                                                   ELSE sent[i]]
    <3>1. CASE job.code = "Block"
      BY <1>1, <3>1 DEF Disturbed, Table, Soft, ByBlock, ByWord, ByBit
    <3>2. CASE job.code = "BlockThreeQuarters"
      BY <1>1, <3>2 DEF Disturbed, Table, Soft, ByBlock, ByWord, ByBit
    <3> QED
      BY <3>1, <3>2
  <2>2. \A i \in DOMAIN job.noise : \A bit \in 0..1 : Plus[bit][job.noise[i]] \in 0..1
    <3>1. CASE job.code = "Block"
      BY <1>2, <3>1 DEF WellFormed
    <3>2. CASE job.code = "BlockThreeQuarters"
      BY <1>2, <3>2 DEF WellFormed
    <3> QED
      BY <3>1, <3>2
  <2>3. ASSUME NEW i \in 0..195
        PROVE  (IF i \in DOMAIN job.noise THEN Plus[sent[i]][job.noise[i]] ELSE sent[i]) \in 0..1
    <3>1. PICK bit \in 0..1 : bit = sent[i]
      BY <1>5 DEF Bits196
    <3> QED
      BY <2>2, <3>1
  <2>4. DOMAIN sent = 0..195
    BY <1>5 DEF Bits196
  <2> QED
    BY <2>1, <2>3, <2>4 DEF Bits196
<1>7. OnAirWrong(trellisDibitEncode(table, job.data), received) <= r
  <2>1. DOMAIN sent = 0..195
    BY <1>5 DEF Bits196
  <2>2. OnAirWrong(trellisDibitEncode(table, job.data), received)
          = Cardinality({i \in DOMAIN sent : sent[i] # received[i]})
    BY <1>4, <2>1 DEF SendsBlock, OnAirWrong
  <2> QED
    BY <1>4, <2>2 DEF SendsBlock
<1>8. Viterbi(table, HardPrices(ToSymbols(tsbkDeinterleave(received)))) = job.data
  BY <1>4, <1>6, <1>7, BlockCorrected DEF SendsBlock
<1>9. result.data = job.data /\ result.ok
  BY <1>4, <1>8 DEF SendsBlock
<1>10. CASE job.code = "Block"
  BY <1>9, <1>10 DEF Corrected, DataIn, Meant, acchSpecFor
<1>11. CASE job.code = "BlockThreeQuarters"
  BY <1>9, <1>11 DEF Corrected, DataIn, Meant, acchSpecFor
<1> QED
  BY <1>10, <1>11

\* And so is a block of a control or a data channel, whose 98 dibits are interleaved on the air:
\* the errors are as many once they are put back in order (trellis.go:77, trellis34.go:59).
THEOREM BlockCode == CSpec => [](Decoded /\ job.code \in {"Block", "BlockThreeQuarters"} => Corrected)
<1>1. OfTheJob => (Decoded /\ job.code \in {"Block", "BlockThreeQuarters"} => Corrected)
  BY BlockRight
<1> QED
  BY <1>1, JobSpec, PTL

-----------------------------------------------------------------------------
(* Reed-Solomon.                                                           *)

\* word is of the code, and x of its n symbols are not as in r.
FoundFrom(n, twoT, r, word, x) ==
    /\ AllZero(Syndromes(n, twoT, word))
    /\ Cardinality({i \in 0..n-1 : word[i] # r[i]}) <= x

\* What is corrected is of the code, and nowhere but in the positions that were found.
LEMMA ForneyFinds ==
  ASSUME NEW n \in Int, NEW twoT \in Nat \ {0}, NEW r, NEW syn, NEW loc, NEW nerr,
         DOMAIN syn = 0..twoT - 1, NEW positions \in SUBSET (0..n - 1),
         Forney(n, r, syn, loc, positions, nerr).ok
  PROVE  FoundFrom(n, twoT, r, Forney(n, r, syn, loc, positions, nerr).word, Cardinality(positions))
<1>1. PICK d : d = Forney(n, r, syn, loc, positions, nerr)
  OBVIOUS
<1>2. Degree(syn) + 1 = twoT
  <2>1. PICK m \in Nat : m = twoT - 1
    OBVIOUS
  <2>2. Max(0..m) = m
    BY DEF Max
  <2> QED
    BY <2>1, <2>2 DEF Degree
<1>3. PICK omega : omega = Omega(syn, loc)
  OBVIOUS
<1>4. PICK deriv : deriv = Derivative(loc)
  OBVIOUS
<1>5. d = ForneyWith(n, r, twoT, omega, deriv, positions, nerr)
  BY <1>1, <1>2, <1>3, <1>4 DEF Forney
<1>6. PICK fixed : fixed = [i \in 0..n-1 |->
                 IF i \in positions THEN Plus[r[i]][Magnitude(omega, deriv, AlphaInvTo(i))]
                 ELSE r[i]]
  OBVIOUS
<1>7. ~NotDecoded.ok
  BY DEF NotDecoded
<1>8. d = IfCodeword(n, twoT, fixed, nerr)
  BY <1>1, <1>5, <1>6, <1>7 DEF ForneyWith, Table
<1>9. AllZero(Syndromes(n, twoT, fixed)) /\ d.word = fixed
  BY <1>1, <1>7, <1>8 DEF IfCodeword
<1>10. IsFiniteSet(positions)
  <2>1. 0 \in Int /\ n - 1 \in Int
    OBVIOUS
  <2>2. IsFiniteSet(0..n - 1)
    BY <2>1, FS_Interval
  <2> QED
    BY <2>2, FS_Subset
<1>11. PICK D : D = {i \in 0..n-1 : fixed[i] # r[i]}
  OBVIOUS
<1>12. D \subseteq positions
  BY <1>6, <1>11
<1>13. Cardinality(D) <= Cardinality(positions)
  BY <1>10, <1>12, FS_Subset
<1> QED
  BY <1>1, <1>9, <1>11, <1>13 DEF FoundFrom

\* A word that has no syndrome is found as it is.
LEMMA FoundAsItIs ==
  ASSUME NEW n \in Int, NEW twoT, NEW r, AllZero(Syndromes(n, twoT, r)), NEW x \in Nat
  PROVE  FoundFrom(n, twoT, r, r, x)
<1>1. {i \in 0..n-1 : r[i] # r[i]} = {}
  OBVIOUS
<1>2. Cardinality({}) = 0
  BY FS_EmptySet
<1> QED
  BY <1>1, <1>2 DEF FoundFrom

LEMMA ChienType ==
  ASSUME NEW n \in Int, NEW loc
  PROVE  /\ Chien(n, loc) \in SUBSET (0..n - 1)
         /\ Cardinality(Chien(n, loc)) \in Nat
<1>1. Chien(n, loc) \subseteq 0..n - 1
  BY DEF Chien
<1>2. 0 \in Int /\ n - 1 \in Int
  OBVIOUS
<1>3. IsFiniteSet(0..n - 1)
  BY <1>2, FS_Interval
<1> QED
  BY <1>1, <1>3, FS_Subset, FS_CardinalityType

LEMMA SyndromesDomain ==
  ASSUME NEW n, NEW twoT, NEW r
  PROVE  DOMAIN Syndromes(n, twoT, r) = 0..twoT - 1
BY DEF Syndromes, Table

\* When the decoder of a Reed-Solomon code says it has succeeded, what it has found has
\* no syndrome left and is no more than t symbols from what was received, whatever that
\* was (rs.go:625).  For every length, every t and every word received.
THEOREM ReedSolomonFinds ==
  ASSUME NEW n \in Int, NEW k, NEW t \in Nat \ {0}, NEW r, rsDecodeGenericN(n, k, t, r).ok
  PROVE  FoundFrom(n, 2 * t, r, rsDecodeGenericN(n, k, t, r).word, t)
<1>1. PICK twoT \in Nat \ {0} : twoT = 2 * t
  OBVIOUS
<1>2. PICK syn : syn = Syndromes(n, twoT, r) /\ DOMAIN syn = 0..twoT - 1
  BY SyndromesDomain
<1>3. PICK d : d = rsDecodeGenericN(n, k, t, r)
  OBVIOUS
<1>4. d = ErrorsFrom(n, t, r, syn)
  BY <1>1, <1>2, <1>3 DEF rsDecodeGenericN
<1>5. CASE AllZero(syn)
  <2>1. d.word = r
    BY <1>4, <1>5 DEF ErrorsFrom
  <2> QED
    BY <1>1, <1>2, <1>3, <1>5, <2>1, FoundAsItIs
<1>6. CASE ~AllZero(syn)
  <2>1. PICK st : st = BerlekampMassey([loc |-> One, b |-> One, len |-> 0], syn, 0)
    OBVIOUS
  <2>2. d = WithErrors(n, t, r, syn, st)
    BY <1>4, <1>6, <2>1 DEF ErrorsFrom
  <2>3. ~NotDecoded.ok
    BY DEF NotDecoded
  <2>4. ~(st.len > t) /\ d = IfAllFound(n, r, syn, st, Chien(n, st.loc), st.len)
    BY <1>3, <2>2, <2>3 DEF WithErrors
  <2>5. PICK positions \in SUBSET (0..n - 1) :
          positions = Chien(n, st.loc) /\ Cardinality(positions) \in Nat
    BY ChienType
  <2>6. Cardinality(positions) = st.len /\ d = Forney(n, r, syn, st.loc, positions, st.len)
    BY <1>3, <2>3, <2>4, <2>5 DEF IfAllFound
  <2>7. FoundFrom(n, twoT, r, d.word, Cardinality(positions))
    BY <1>2, <1>3, <2>6, ForneyFinds
  <2>8. PICK len \in Nat : len = Cardinality(positions) /\ len <= t
    BY <2>4, <2>5, <2>6
  <2>9. FoundFrom(n, twoT, r, d.word, t)
    <3>1. PICK D : D = {i \in 0..n-1 : d.word[i] # r[i]}
      OBVIOUS
    <3>2. Cardinality(D) \in Nat
      <4>1. 0 \in Int /\ n - 1 \in Int
        OBVIOUS
      <4>2. IsFiniteSet(0..n - 1) /\ D \subseteq 0..n - 1
        BY <3>1, <4>1, FS_Interval
      <4> QED
        BY <4>2, FS_Subset, FS_CardinalityType
    <3>3. Cardinality(D) <= len /\ AllZero(Syndromes(n, twoT, d.word))
      BY <2>7, <2>8, <3>1 DEF FoundFrom
    <3>4. Cardinality(D) <= t
      BY <2>8, <3>2, <3>3
    <3> QED
      BY <3>1, <3>3, <3>4 DEF FoundFrom
  <2> QED
    BY <1>1, <1>3, <2>9
<1> QED
  BY <1>5, <1>6

-----------------------------------------------------------------------------
\* And with positions that are known to be wrong, twice the errors and these are no more
\* than the parity (rs.go:442).
THEOREM ErasuresFinds ==
  ASSUME NEW n \in Nat, NEW k \in Nat, n - k >= 2, NEW r, NEW erasures,
         RSDecodeWithErasures(n, k, r, erasures).ok
  PROVE  LET d     == RSDecodeWithErasures(n, k, r, erasures)
             twoT  == 2 * ((n - k) \div 2)
             known == Cardinality(erasures \cap 0..n-1)
         IN  /\ d.nerr \in Nat /\ 2 * d.nerr + known <= twoT
             /\ FoundFrom(n, twoT, r, d.word, known + d.nerr)
<1>1. PICK twoT \in Nat \ {0} : twoT = 2 * ((n - k) \div 2)
  OBVIOUS
<1>2. PICK erased : erased = erasures \cap 0..n-1
  OBVIOUS
<1>3. PICK nu \in Nat : nu = Cardinality(erased)
  <2>1. 0 \in Int /\ n - 1 \in Int
    OBVIOUS
  <2>2. IsFiniteSet(0..n - 1) /\ erased \subseteq 0..n - 1
    BY <1>2, <2>1, FS_Interval
  <2> QED
    BY <2>2, FS_Subset, FS_CardinalityType
<1>4. PICK syn : syn = Syndromes(n, twoT, r) /\ DOMAIN syn = 0..twoT - 1
  BY SyndromesDomain
<1>5. PICK gamma : gamma = ErasureLocator(erased)
  OBVIOUS
<1>6. PICK d : d = RSDecodeWithErasures(n, k, r, erasures)
  OBVIOUS
<1>7. d = ErasuresFrom(n, twoT, nu, r, syn, gamma)
  BY <1>1, <1>2, <1>3, <1>4, <1>5, <1>6 DEF RSDecodeWithErasures
<1>8. CASE nu = 0 /\ AllZero(syn)
  <2>1. d.word = r /\ d.nerr = 0
    BY <1>7, <1>8 DEF ErasuresFrom
  <2>2. FoundFrom(n, twoT, r, d.word, nu + d.nerr)
    <3>1. nu + d.nerr \in Nat
      BY <2>1
    <3> QED
      BY <1>4, <1>8, <2>1, <3>1, FoundAsItIs
  <2>3. d.nerr \in Nat /\ 2 * d.nerr + nu <= twoT
    BY <1>8, <2>1
  <2> QED
    BY <1>1, <1>2, <1>3, <1>6, <2>2, <2>3
<1>9. CASE ~(nu = 0 /\ AllZero(syn))
  <2>1. PICK st : st = BerlekampMassey([loc |-> gamma, b |-> gamma, len |-> nu], syn, nu)
    OBVIOUS
  <2>2. d = WithErasures(n, twoT, nu, r, syn, st)
    BY <1>7, <1>9, <2>1 DEF ErasuresFrom
  <2>3. ~NotDecoded.ok
    BY DEF NotDecoded
  <2>4. WithinBudget(st.len - nu, nu, twoT) /\ d = IfAllFound(n, r, syn, st, Chien(n, st.loc), st.len - nu)
    BY <1>6, <2>2, <2>3 DEF WithErasures
  <2>5. PICK positions \in SUBSET (0..n - 1) :
          positions = Chien(n, st.loc) /\ Cardinality(positions) \in Nat
    BY ChienType
  <2>6. Cardinality(positions) = st.len /\ d = Forney(n, r, syn, st.loc, positions, st.len - nu)
    BY <1>6, <2>3, <2>4, <2>5 DEF IfAllFound
  <2>7. FoundFrom(n, twoT, r, d.word, Cardinality(positions))
    BY <1>4, <1>6, <2>6, ForneyFinds
  <2>8. PICK nerr \in Nat : nerr = st.len - nu /\ 2 * nerr + nu <= twoT /\ st.len = nu + nerr
    BY <2>4, <2>5, <2>6 DEF WithinBudget
  <2>9. d.nerr = nerr
    BY <1>6, <2>3, <2>6, <2>8 DEF Forney, ForneyWith, IfCodeword
  <2>10. FoundFrom(n, twoT, r, d.word, nu + d.nerr)
    BY <2>6, <2>7, <2>8, <2>9
  <2> QED
    BY <1>1, <1>2, <1>3, <1>6, <2>8, <2>9, <2>10
<1> QED
  BY <1>8, <1>9

\* A word of a shortened code with the symbols that are not sent.
Lengthened(hb, n) == [i \in 0..Ord-1 |-> IF i < n THEN hb[n-1-i] ELSE 0]

\* When the decoder of a shortened code says it has succeeded, the symbols that are not sent
\* are zero in what it has found, which is within t symbols of what was received and has no
\* syndrome left: it is a word that could have been sent (rs.go:295).
THEOREM ShortenedFinds ==
  ASSUME NEW parity \in Nat, parity >= 2, NEW n \in Nat, NEW hb, rsDecode63(hb, parity, n).ok
  PROVE  \E word :
             /\ FoundFrom(Ord, 2 * (parity \div 2), Lengthened(hb, n), word, parity \div 2)
             /\ \A i \in n..Ord-1 : word[i] = 0
             /\ rsDecode63(hb, parity, n).word = [i \in 0..n-1 |-> word[n-1-i]]
<1>1. PICK t \in Nat \ {0} : t = parity \div 2
  OBVIOUS
<1>2. PICK cw : cw = Lengthened(hb, n)
  OBVIOUS
<1>3. PICK d : d = rsDecodeGenericN(Ord, Ord - parity, t, cw)
  OBVIOUS
<1>4. rsDecode63(hb, parity, n) = Unshortened(d, n)
  BY <1>1, <1>2, <1>3 DEF rsDecode63, Table, Lengthened
<1>5. ~NotDecoded.ok
  BY DEF NotDecoded
<1>6. d.ok /\ PaddingClean(d.word, n) /\ rsDecode63(hb, parity, n).word = [i \in 0..n-1 |-> d.word[n-1-i]]
  BY <1>4, <1>5 DEF Unshortened
<1>7. Ord \in Int
  BY FieldParams DEF Ord
<1>8. FoundFrom(Ord, 2 * t, cw, d.word, t)
  BY <1>3, <1>6, <1>7, ReedSolomonFinds
<1> QED
  BY <1>1, <1>2, <1>6, <1>8 DEF PaddingClean

-----------------------------------------------------------------------------
(* Exclusive or.                                                           *)

\* How many positions two finite sets differ in, and that its parity is the sum of theirs.
LEMMA DiffSize ==
  ASSUME NEW A, NEW B, IsFiniteSet(A), IsFiniteSet(B)
  PROVE  /\ IsFiniteSet(SymDiff(A, B)) /\ Cardinality(SymDiff(A, B)) \in Nat
         /\ Cardinality(SymDiff(A, B)) <= Cardinality(A) + Cardinality(B)
         /\ OddWeight(SymDiff(A, B)) <=> ~(OddWeight(A) <=> OddWeight(B))
<1>1. PICK D : D = A \ B
  OBVIOUS
<1>2. PICK E : E = B \ A
  OBVIOUS
<1>3. PICK C : C = A \cap B
  OBVIOUS
<1>4. /\ IsFiniteSet(D) /\ IsFiniteSet(E) /\ IsFiniteSet(C)
      /\ Cardinality(D) = Cardinality(A) - Cardinality(C)
  BY <1>1, <1>2, <1>3, FS_Difference, FS_Intersection
<1>5. Cardinality(E) = Cardinality(B) - Cardinality(C)
  <2>1. Cardinality(E) = Cardinality(B) - Cardinality(B \cap A)
    BY <1>2, FS_Difference
  <2>2. B \cap A = C
    BY <1>3
  <2> QED
    BY <2>1, <2>2
<1>6. D \cap E = {}
  BY <1>1, <1>2
<1>7. IsFiniteSet(D \cup E) /\ Cardinality(D \cup E) = Cardinality(D) + Cardinality(E) - Cardinality(D \cap E)
  BY <1>4, FS_Union
<1>8. Cardinality(D \cap E) = 0
  BY <1>6, FS_EmptySet
<1>9. SymDiff(A, B) = D \cup E
  BY <1>1, <1>2 DEF SymDiff
<1>10. PICK a, b, c, d, e, s \in Nat :
         /\ a = Cardinality(A) /\ b = Cardinality(B) /\ c = Cardinality(C)
         /\ d = Cardinality(D) /\ e = Cardinality(E) /\ s = Cardinality(D \cup E)
  BY <1>4, <1>7, FS_CardinalityType
<1>11. d = a - c /\ e = b - c /\ s = d + e
  BY <1>4, <1>5, <1>7, <1>8, <1>10
<1>12. s <= a + b /\ (s % 2 = 1 <=> ((a % 2 = 1) # (b % 2 = 1)))
  <2>1. s = a + b - 2*c
    BY <1>11
  <2>2. s % 2 = (a + b) % 2
    BY <2>1
  <2>3. (a + b) % 2 = 1 <=> ((a % 2 = 1) # (b % 2 = 1))
    OBVIOUS
  <2> QED
    BY <2>1, <2>2, <2>3
<1> QED
  BY <1>7, <1>9, <1>10, <1>12 DEF OddWeight

\* What is between a and c is between a and b or between b and c.
LEMMA Triangle ==
  ASSUME NEW A, NEW B, NEW C, IsFiniteSet(A), IsFiniteSet(B), IsFiniteSet(C)
  PROVE  /\ BitsDiffer(A, B) \in Nat /\ BitsDiffer(A, B) = BitsDiffer(B, A)
         /\ BitsDiffer(A, C) <= BitsDiffer(A, B) + BitsDiffer(B, C)
<1>1. PICK X : X = SymDiff(A, B)
  OBVIOUS
<1>2. PICK Y : Y = SymDiff(B, C)
  OBVIOUS
<1>3. IsFiniteSet(X) /\ IsFiniteSet(Y) /\ Cardinality(X) \in Nat
  BY <1>1, <1>2, DiffSize
<1>4. SymDiff(X, Y) = SymDiff(A, C)
  BY <1>1, <1>2 DEF SymDiff
<1>5. Cardinality(SymDiff(X, Y)) <= Cardinality(X) + Cardinality(Y)
  BY <1>3, DiffSize
<1>6. SymDiff(A, B) = SymDiff(B, A)
  BY DEF SymDiff
<1> QED
  BY <1>1, <1>2, <1>3, <1>4, <1>5, <1>6 DEF BitsDiffer

\* Words of so many bits are finite.
LEMMA WordFinite ==
  ASSUME NEW n \in Nat, NEW w, w \subseteq 0..n
  PROVE  IsFiniteSet(w) /\ Cardinality(w) \in Nat
<1>1. IsFiniteSet(0..n)
  BY FS_Interval
<1> QED
  BY <1>1, FS_Subset, FS_CardinalityType

\* The least of some naturals, each of something.
LEMMA LeastOf ==
  ASSUME NEW S, S # {}, NEW f \in [S -> Nat]
  PROVE  \E x \in S : \A y \in S : f[x] <= f[y]
<1>1. PICK A : A = {f[x] : x \in S}
  OBVIOUS
<1>2. A \in SUBSET Nat /\ A # {}
  BY <1>1
<1>3. PICK n \in A : \A m \in A : n <= m
  BY <1>2, LeastIn
<1> QED
  BY <1>1, <1>3

-----------------------------------------------------------------------------
(* The network identifier.                                                 *)

\* The distance of what was received to the words of the identifiers.
LEMMA NIDNearest ==
  ASSUME NEW nids, nids # {}, nids \subseteq NIDs(Nacs), NEW w, w \subseteq 0..63
  PROVE  /\ NearestNID(w, nids, NIDWords) \in nids
         /\ \A n \in nids : BitsDiffer(w, NIDWords[NearestNID(w, nids, NIDWords)]) <= BitsDiffer(w, NIDWords[n])
<1>1. PICK f : f = [n \in nids |-> BitsDiffer(w, NIDWords[n])]
  OBVIOUS
<1>2. ASSUME NEW n \in nids PROVE BitsDiffer(w, NIDWords[n]) \in Nat
  <2>1. NIDWords[n] \subseteq 0..63
    BY NIDsApart
  <2>2. IsFiniteSet(w) /\ IsFiniteSet(NIDWords[n])
    BY <2>1, WordFinite
  <2> QED
    BY <2>2, DiffSize DEF BitsDiffer
<1>3. f \in [nids -> Nat]
  BY <1>1, <1>2
<1>4. PICK x \in nids : \A y \in nids : f[x] <= f[y]
  BY <1>3, LeastOf
<1>5. \A y \in nids : BitsDiffer(w, NIDWords[x]) <= BitsDiffer(w, NIDWords[y])
  BY <1>1, <1>4
<1> QED
  BY <1>5 DEF NearestNID, BitsDiffer

\* An identifier that is decoded to is of those there are, its word within what is corrected.
LEMMA NIDDecoded ==
  ASSUME NEW w, w \subseteq 0..63, NEW d, d = decodeNIDWithHintDist(w, Hint, NIDWords), NIDs(Nacs) # {}
  PROVE  /\ d.ok => d.nid \in NIDs(Nacs) /\ BitsDiffer(w, NIDWords[d.nid]) <= CorrectsTo
         /\ (\E n \in NIDs(Nacs) : BitsDiffer(w, NIDWords[n]) <= CorrectsTo) => d.ok
<1>1. DOMAIN NIDWords = NIDs(Nacs)
  BY DEF NIDWords
<1>2. PICK hinted : hinted = {n \in NIDs(Nacs) : n.nac = Hint}
  OBVIOUS
<1>3. hinted # {} /\ hinted \subseteq NIDs(Nacs)
  <2>1. Hint \in Nacs
    BY DEF Hint, NIDs
  <2>2. [nac |-> Hint, duid |-> 0] \in NIDs(Nacs)
    BY <2>1 DEF NIDs, validDUIDs
  <2> QED
    BY <1>2, <2>2
<1>4. PICK first : first = NearestNID(w, hinted, NIDWords)
  OBVIOUS
<1>5. first \in NIDs(Nacs)
  BY <1>3, <1>4, NIDNearest
<1>6. PICK any : any = NearestNID(w, NIDs(Nacs), NIDWords)
  OBVIOUS
<1>7. any \in NIDs(Nacs) /\ \A n \in NIDs(Nacs) : BitsDiffer(w, NIDWords[any]) <= BitsDiffer(w, NIDWords[n])
  BY <1>6, NIDNearest
<1>8. d = IF BitsDiffer(w, NIDWords[first]) <= CorrectsTo THEN [ok |-> TRUE, nid |-> first]
          ELSE IF BitsDiffer(w, NIDWords[any]) <= CorrectsTo THEN [ok |-> TRUE, nid |-> any] ELSE NotDecoded
  BY <1>1, <1>2, <1>4, <1>6 DEF decodeNIDWithHintDist, decodeNID, DecodesTo, BitsDiffer
<1>9. \A n \in NIDs(Nacs) : BitsDiffer(w, NIDWords[n]) \in Nat
  <2> TAKE n \in NIDs(Nacs)
  <2>1. NIDWords[n] \subseteq 0..63
    BY NIDsApart
  <2>2. IsFiniteSet(w) /\ IsFiniteSet(NIDWords[n])
    BY <2>1, WordFinite
  <2> QED
    BY <2>2, DiffSize DEF BitsDiffer
<1>10. (\E n \in NIDs(Nacs) : BitsDiffer(w, NIDWords[n]) <= CorrectsTo) => BitsDiffer(w, NIDWords[any]) <= CorrectsTo
  BY <1>7, <1>9 DEF CorrectsTo
<1>11. NotDecoded.ok = FALSE
  BY DEF NotDecoded
<1> QED
  BY <1>5, <1>7, <1>8, <1>10, <1>11

\* No two are within that of the same word.
LEMMA NIDUnique ==
  ASSUME NEW w, w \subseteq 0..63, NEW m \in NIDs(Nacs), NEW n \in NIDs(Nacs),
         BitsDiffer(w, NIDWords[m]) <= CorrectsTo, BitsDiffer(w, NIDWords[n]) <= CorrectsTo
  PROVE  m = n
<1>1. NIDWords[m] \subseteq 0..63 /\ NIDWords[n] \subseteq 0..63
  BY NIDsApart
<1>2. IsFiniteSet(w) /\ IsFiniteSet(NIDWords[m]) /\ IsFiniteSet(NIDWords[n])
  BY <1>1, WordFinite
<1>3. PICK a, b, c \in Nat : a = BitsDiffer(w, NIDWords[m]) /\ b = BitsDiffer(w, NIDWords[n])
                             /\ c = BitsDiffer(NIDWords[m], NIDWords[n])
  BY <1>2, Triangle
<1>4. BitsDiffer(NIDWords[m], w) = a
  BY <1>2, <1>3, Triangle
<1>5. c <= a + b
  BY <1>2, <1>3, <1>4, Triangle
<1>6. c <= 22
  BY <1>3, <1>5 DEF CorrectsTo
<1>7. m # n => c >= 23
  <2>1. m # n => BitsDiffer(NIDWords[m], NIDWords[n]) >= 2 * CorrectsTo + 1
    BY NIDsApart
  <2> QED
    BY <1>3, <2>1 DEF CorrectsTo
<1> QED
  BY <1>6, <1>7

NIDRight == Decoded /\ job.code = "NID" => Corrected /\ Honest

\* The network identifier that is sent is the one that is found, with up to eleven bits wrong;
\* and one that is found is within eleven bits of what was received, whatever that was
\* (bch.go:122, bch.go:165).
THEOREM NIDCode == CSpec => []NIDRight
<1>1. OfTheJob => NIDRight
  <2> SUFFICES ASSUME OfTheJob, Decoded, job.code = "NID" PROVE Corrected /\ Honest
    BY DEF NIDRight
  <2>1. /\ job \in Jobs /\ sent = Encode(job.code, job.data)
        /\ received = Disturbed(job.code, sent, job.noise) /\ result = Decode(job.code, received)
    BY DEF OfTheJob, Decoded
  <2>2. job.data \in NIDs(Nacs) /\ job.noise \subseteq 0..63
    <3>1. WellFormed(job)
      BY <2>1, JobsAssumption
    <3> QED
      BY <3>1 DEF WellFormed
  <2>3. \A n \in NIDs(Nacs) : Encode("NID", n) = NIDWords[n]
    BY DEF Encode, NIDWords
  <2>4. sent = NIDWords[job.data] /\ sent \subseteq 0..63
    BY <2>1, <2>2, <2>3, NIDsApart
  <2>5. received \subseteq 0..63
    <3>1. received = SymDiff(sent, job.noise)
      BY <2>1 DEF Disturbed, Table, Soft, ByBlock, ByWord, ByBit
    <3> QED
      BY <2>2, <2>4, <3>1 DEF SymDiff
  <2>6. result = decodeNIDWithHintDist(received, Hint, NIDWords)
    BY <2>1 DEF Decode
  <2>7. result.ok => result.nid \in NIDs(Nacs) /\ BitsDiffer(received, NIDWords[result.nid]) <= CorrectsTo
    BY <2>2, <2>5, <2>6, NIDDecoded
  <2>8. \A n \in NIDs(Nacs) : BitsDiffer(received, NIDWords[n]) = BitsDiffer(NIDWords[n], received)
    <3> TAKE n \in NIDs(Nacs)
    <3>1. NIDWords[n] \subseteq 0..63
      BY NIDsApart
    <3>2. IsFiniteSet(received) /\ IsFiniteSet(NIDWords[n])
      BY <2>5, <3>1, WordFinite
    <3> QED
      BY <3>2, Triangle
  <2>9. \A a, b : Near("NID", a, b) <=> BitsDiffer(a, b) <= CorrectsTo
    BY DEF Near, Radius, CorrectsTo
  <2>10. \A d : DataIn("NID", d) = d.nid
    BY DEF DataIn, acchSpecFor
  <2>11. Honest
    <3> SUFFICES ASSUME result.ok
                 PROVE  Near("NID", Encode("NID", DataIn("NID", result)), received)
      BY DEF Honest
    <3> QED
      BY <2>3, <2>7, <2>8, <2>9, <2>10
  <2>12. Corrected
    <3> SUFFICES ASSUME Near("NID", sent, received) PROVE result.ok /\ result.nid = job.data
      <4>1. Meant("NID", job.data) = job.data
        BY DEF Meant
      <4> QED
        BY <2>10, <4>1 DEF Corrected
    <3>1. BitsDiffer(received, NIDWords[job.data]) <= CorrectsTo
      BY <2>2, <2>4, <2>8, <2>9
    <3>2. result.ok
      BY <2>2, <2>5, <2>6, <3>1, NIDDecoded
    <3> QED
      BY <2>2, <2>5, <2>7, <3>1, <3>2, NIDUnique
  <2> QED
    BY <2>11, <2>12
<1> QED
  BY <1>1, JobSpec, PTL

-----------------------------------------------------------------------------
(* Division over GF(2).                                                    *)

IsGenerator(gen, deg) == deg \in Nat /\ gen \subseteq 0..deg /\ deg \in gen

\* What is left after each of n positions, from first down, has been cleared.
IsLeft(f, word, gen, deg, first, n) ==
    /\ f \in [0..n -> SUBSET Int]
    /\ f[0] = word
    /\ \A k \in 1..n : f[k] = ReducedAt(f[k-1], gen, deg, first + 1 - k)
    /\ Reduced(word, gen, deg, first, n) = f[n]

LEMMA ReducedIs ==
  ASSUME NEW word, word \subseteq Int, NEW gen, NEW deg, IsGenerator(gen, deg),
         NEW first \in Int, NEW n \in Nat
  PROVE  \E f : IsLeft(f, word, gen, deg, first, n)
<1>1. ASSUME NEW v \in SUBSET Int, NEW i \in Int PROVE ReducedAt(v, gen, deg, i) \in SUBSET Int
  <2>1. ASSUME NEW j \in gen PROVE j + (i - deg) \in Int
    BY DEF IsGenerator
  <2>2. Shift(gen, i - deg) \subseteq Int
    BY <2>1 DEF Shift
  <2> QED
    BY <2>2 DEF ReducedAt, SymDiff
<1>2. PICK G : G = [k \in 1..n |-> [v \in SUBSET Int |-> ReducedAt(v, gen, deg, first + 1 - k)]]
  OBVIOUS
<1>3. G \in [1..n -> [SUBSET Int -> SUBSET Int]]
  <2>1. ASSUME NEW k \in 1..n
        PROVE  [v \in SUBSET Int |-> ReducedAt(v, gen, deg, first + 1 - k)] \in [SUBSET Int -> SUBSET Int]
    <3>1. first + 1 - k \in Int
      OBVIOUS
    <3> QED
      BY <1>1, <3>1
  <2> QED
    BY <1>2, <2>1
<1>4. IsMade(n, SUBSET Int, word, G)
  BY <1>3, Recursion
<1>5. PICK f \in [0..n -> SUBSET Int] : f[0] = word /\ \A k \in 1..n : f[k] = G[k][f[k-1]]
  BY <1>4 DEF IsMade
<1>6. ASSUME NEW k \in 1..n PROVE f[k] = ReducedAt(f[k-1], gen, deg, first + 1 - k)
  <2>1. k - 1 \in 0..n
    OBVIOUS
  <2>2. f[k-1] \in SUBSET Int
    BY <1>5, <2>1
  <2>3. G[k][f[k-1]] = ReducedAt(f[k-1], gen, deg, first + 1 - k)
    BY <1>2, <2>2
  <2> QED
    BY <1>5, <2>3
<1>7. PICK h : h = [k \in 0..n |-> IF k = 0 THEN word ELSE ReducedAt(f[k-1], gen, deg, first + 1 - k)]
  OBVIOUS
<1>8. \A k \in 0..n : h[k] = f[k]
  <2> TAKE k \in 0..n
  <2>1. CASE k = 0
    BY <1>5, <1>7, <2>1
  <2>2. CASE k # 0
    <3>1. k \in 1..n
      BY <2>2
    <3> QED
      BY <1>6, <1>7, <2>2, <3>1
  <2> QED
    BY <2>1, <2>2
<1>9. f = h
  BY <1>7, <1>8
<1>10. f = [k \in 0..n |-> IF k = 0 THEN word ELSE ReducedAt(f[k-1], gen, deg, first + 1 - k)]
  BY <1>7, <1>9
<1>11. PICK left : left = CHOOSE g : g = [k \in 0..n |->
             IF k = 0 THEN word ELSE ReducedAt(g[k-1], gen, deg, first + 1 - k)]
  OBVIOUS
<1>12. left = [k \in 0..n |-> IF k = 0 THEN word ELSE ReducedAt(left[k-1], gen, deg, first + 1 - k)]
  BY <1>10, <1>11
<1>13. Reduced(word, gen, deg, first, n) = left[n]
  BY <1>11 DEF Reduced
<1>14. left[0] = f[0]
  BY <1>5, <1>12
<1>15. ASSUME NEW k \in 1..n PROVE left[k] = ReducedAt(left[k-1], gen, deg, first + 1 - k)
  <2>1. k \in 0..n /\ k # 0
    OBVIOUS
  <2> QED
    BY <1>12, <2>1
<1>16. \A k \in 1..n : left[k-1] = f[k-1] => left[k] = f[k]
  BY <1>6, <1>15
<1>17. AgreeUpTo(n, left, f)
  BY <1>14, <1>16, Agree DEF GoOnAgreeing
<1>18. left[n] = f[n]
  BY <1>17 DEF AgreeUpTo
<1> QED
  BY <1>5, <1>6, <1>13, <1>18 DEF IsLeft

\* The remainder of a sum is the sum of the remainders.
AddsUp(gen, deg, first, n) ==
    \A a, b : a \subseteq Int /\ b \subseteq Int =>
        Reduced(SymDiff(a, b), gen, deg, first, n)
          = SymDiff(Reduced(a, gen, deg, first, n), Reduced(b, gen, deg, first, n))

LEMMA ReducedSum ==
  ASSUME NEW gen, NEW deg, IsGenerator(gen, deg), NEW first \in Int, NEW n \in Nat
  PROVE  AddsUp(gen, deg, first, n)
<1> SUFFICES ASSUME NEW a, NEW b, a \subseteq Int, b \subseteq Int
             PROVE  Reduced(SymDiff(a, b), gen, deg, first, n)
                      = SymDiff(Reduced(a, gen, deg, first, n), Reduced(b, gen, deg, first, n))
  BY DEF AddsUp
<1>1. PICK c : c = SymDiff(a, b) /\ c \subseteq Int
  BY DEF SymDiff
<1>2. PICK f : IsLeft(f, a, gen, deg, first, n)
  BY ReducedIs
<1>3. PICK g : IsLeft(g, b, gen, deg, first, n)
  BY ReducedIs
<1>4. PICK h : IsLeft(h, c, gen, deg, first, n)
  BY <1>1, ReducedIs
<1>5. PICK s : s = [k \in 0..n |-> SymDiff(f[k], g[k])]
  OBVIOUS
<1>6. h[0] = s[0]
  BY <1>1, <1>2, <1>3, <1>4, <1>5 DEF IsLeft
<1>7. ASSUME NEW k \in 1..n, h[k-1] = s[k-1] PROVE h[k] = s[k]
  <2>1. k \in 0..n /\ k - 1 \in 0..n
    OBVIOUS
  <2>2. PICK i : i = first + 1 - k
    OBVIOUS
  <2>3. PICK v, w : v = f[k-1] /\ w = g[k-1]
    OBVIOUS
  <2>4. f[k] = ReducedAt(v, gen, deg, i) /\ g[k] = ReducedAt(w, gen, deg, i)
    BY <1>2, <1>3, <2>2, <2>3 DEF IsLeft
  <2>5. h[k] = ReducedAt(SymDiff(v, w), gen, deg, i)
    BY <1>4, <1>5, <1>7, <2>1, <2>2, <2>3 DEF IsLeft
  <2>6. PICK m : m = Shift(gen, i - deg)
    OBVIOUS
  <2>7. PICK u : u = SymDiff(v, w)
    OBVIOUS
  <2>8. /\ f[k] = IF i \in v THEN SymDiff(v, m) ELSE v
        /\ g[k] = IF i \in w THEN SymDiff(w, m) ELSE w
        /\ h[k] = IF i \in u THEN SymDiff(u, m) ELSE u
    BY <2>4, <2>5, <2>6, <2>7 DEF ReducedAt
  <2>9. i \in u <=> ((i \in v) # (i \in w))
    BY <2>7 DEF SymDiff
  <2>10. h[k] = SymDiff(f[k], g[k])
    <3>1. CASE i \in v /\ i \in w
      <4>1. SymDiff(SymDiff(v, m), SymDiff(w, m)) = u
        BY <2>7 DEF SymDiff
      <4> QED
        BY <2>8, <2>9, <3>1, <4>1
    <3>2. CASE i \in v /\ i \notin w
      <4>1. SymDiff(SymDiff(v, m), w) = SymDiff(u, m)
        BY <2>7 DEF SymDiff
      <4> QED
        BY <2>8, <2>9, <3>2, <4>1
    <3>3. CASE i \notin v /\ i \in w
      <4>1. SymDiff(v, SymDiff(w, m)) = SymDiff(u, m)
        BY <2>7 DEF SymDiff
      <4> QED
        BY <2>8, <2>9, <3>3, <4>1
    <3>4. CASE i \notin v /\ i \notin w
      BY <2>7, <2>8, <2>9, <3>4
    <3> QED
      BY <3>1, <3>2, <3>3, <3>4
  <2> QED
    BY <1>5, <2>1, <2>10
<1>8. AgreeUpTo(n, h, s)
  BY <1>6, <1>7, Agree DEF GoOnAgreeing
<1>9. h[n] = SymDiff(f[n], g[n])
  BY <1>5, <1>8 DEF AgreeUpTo
<1> QED
  BY <1>1, <1>2, <1>3, <1>4, <1>9 DEF IsLeft

\* What has been cleared is clear, and nothing new has come above it.
LEMMA ReducedBelow ==
  ASSUME NEW word, NEW gen, NEW deg, IsGenerator(gen, deg), NEW first \in Int, NEW n \in Nat,
         word \subseteq 0..first, first + 1 - n >= deg
  PROVE  Reduced(word, gen, deg, first, n) \subseteq 0..first - n
<1>1. PICK f : IsLeft(f, word, gen, deg, first, n)
  <2>1. word \subseteq Int
    OBVIOUS
  <2> QED
    BY <2>1, ReducedIs
<1> DEFINE Bad == {k \in 0..n : ~(f[k] \subseteq 0..first - k)}
<1>2. Bad = {}
  <2> SUFFICES ASSUME Bad # {} PROVE FALSE
    OBVIOUS
  <2>1. Bad \in SUBSET Nat
    OBVIOUS
  <2>2. PICK k \in Bad : \A m \in Bad : k <= m
    BY <2>1, LeastIn
  <2>3. f[0] \subseteq 0..first - 0
    BY <1>1 DEF IsLeft
  <2>4. k \in 1..n
    BY <2>3
  <2>5. k - 1 \in 0..n /\ k - 1 \notin Bad
    BY <2>2, <2>4
  <2>6. PICK i \in Int : i = first + 1 - k
    BY <2>4
  <2>7. PICK v : v = f[k-1]
    OBVIOUS
  <2>8. v \subseteq 0..i
    <3>1. f[k-1] \subseteq 0..first - (k - 1)
      BY <2>5
    <3>2. first - (k - 1) = i
      BY <2>4, <2>6
    <3> QED
      BY <2>7, <3>1, <3>2
  <2>9. f[k] = ReducedAt(v, gen, deg, i)
    BY <1>1, <2>4, <2>6, <2>7 DEF IsLeft
  <2>10. i - deg \in Nat
    BY <2>4, <2>6 DEF IsGenerator
  <2>11. ReducedAt(v, gen, deg, i) \subseteq 0..i-1
    <3>1. CASE i \notin v
      BY <2>8, <3>1 DEF ReducedAt
    <3>2. CASE i \in v
      <4>1. PICK m : m = Shift(gen, i - deg)
        OBVIOUS
      <4>2. m \subseteq 0..i
        <5>1. ASSUME NEW j \in gen PROVE j + (i - deg) \in 0..i
          BY <2>10 DEF IsGenerator
        <5> QED
          BY <4>1, <5>1 DEF Shift
      <4>3. i \in m
        <5>1. deg \in gen /\ deg + (i - deg) = i
          BY DEF IsGenerator
        <5> QED
          BY <4>1, <5>1 DEF Shift
      <4>4. SymDiff(v, m) \subseteq (0..i) \ {i}
        BY <2>8, <3>2, <4>2, <4>3 DEF SymDiff
      <4>5. (0..i) \ {i} \subseteq 0..i-1
        OBVIOUS
      <4> QED
        BY <3>2, <4>1, <4>4, <4>5 DEF ReducedAt
    <3> QED
      BY <3>1, <3>2
  <2>12. i - 1 = first - k
    BY <2>4, <2>6
  <2> QED
    BY <2>9, <2>11, <2>12
<1>3. f[n] \subseteq 0..first - n
  BY <1>2
<1> QED
  BY <1>1, <1>3 DEF IsLeft

\* What is clear there from the first stays as it is.
LEMMA ReducedSame ==
  ASSUME NEW word, word \subseteq Int, NEW gen, NEW deg, IsGenerator(gen, deg), NEW first \in Int,
         NEW n \in Nat, \A i \in word : i < first + 1 - n
  PROVE  Reduced(word, gen, deg, first, n) = word
<1>1. PICK f : IsLeft(f, word, gen, deg, first, n)
  BY ReducedIs
<1>2. PICK g : g = [k \in 0..n |-> word]
  OBVIOUS
<1>3. f[0] = g[0]
  BY <1>1, <1>2 DEF IsLeft
<1>4. ASSUME NEW k \in 1..n, f[k-1] = g[k-1] PROVE f[k] = g[k]
  <2>1. k \in 0..n /\ k - 1 \in 0..n
    OBVIOUS
  <2>2. f[k-1] = word
    BY <1>2, <1>4, <2>1
  <2>3. first + 1 - k \notin word
    OBVIOUS
  <2>4. f[k] = word
    BY <1>1, <2>2, <2>3 DEF IsLeft, ReducedAt
  <2> QED
    BY <1>2, <2>1, <2>4
<1>5. AgreeUpTo(n, f, g)
  BY <1>3, <1>4, Agree DEF GoOnAgreeing
<1>6. f[n] = word
  BY <1>2, <1>5 DEF AgreeUpTo
<1> QED
  BY <1>1, <1>6 DEF IsLeft

\* The three at once, of all words.
IsDivision(gen, deg, first, n) ==
    /\ AddsUp(gen, deg, first, n)
    /\ \A word : word \subseteq 0..first => Reduced(word, gen, deg, first, n) \subseteq 0..first - n
    /\ \A word : word \subseteq Int /\ (\A i \in word : i < first + 1 - n) =>
           Reduced(word, gen, deg, first, n) = word

LEMMA ReducedIsDivision ==
  ASSUME NEW gen, NEW deg, IsGenerator(gen, deg), NEW first \in Int, NEW n \in Nat, first + 1 - n >= deg
  PROVE  IsDivision(gen, deg, first, n)
<1>1. AddsUp(gen, deg, first, n)
  BY ReducedSum
<1>2. ASSUME NEW word, word \subseteq 0..first
      PROVE  Reduced(word, gen, deg, first, n) \subseteq 0..first - n
  BY <1>2, ReducedBelow, Zenon
<1>3. ASSUME NEW word, word \subseteq Int, \A i \in word : i < first + 1 - n
      PROVE  Reduced(word, gen, deg, first, n) = word
  BY <1>3, ReducedSame, Zenon
<1> QED
  BY <1>1, <1>2, <1>3 DEF IsDivision

-----------------------------------------------------------------------------
\* The whole division: it is linear, leaves what is below the degree, and of that all.
IsRemainder(gen, deg, top) ==
    /\ \A a, b : a \subseteq 0..top /\ b \subseteq 0..top =>
           Reduce(SymDiff(a, b), gen, deg, top) = SymDiff(Reduce(a, gen, deg, top), Reduce(b, gen, deg, top))
    /\ \A word : word \subseteq 0..top => Reduce(word, gen, deg, top) \subseteq 0..deg-1
    /\ \A word : word \subseteq 0..deg-1 => Reduce(word, gen, deg, top) = word

LEMMA ReduceIsRemainder ==
  ASSUME NEW gen, NEW deg, IsGenerator(gen, deg), NEW top \in Nat, top >= deg
  PROVE  IsRemainder(gen, deg, top)
<1>1. PICK n \in Nat : n = (top + 1 - deg) \div 2
  <2>1. (top + 1 - deg) \div 2 \in Nat
    BY DEF IsGenerator
  <2> QED
    BY <2>1
<1>2. PICK k \in Nat : k = top + 1 - deg - n
  <2>1. top + 1 - deg - n \in Nat
    BY <1>1 DEF IsGenerator
  <2> QED
    BY <2>1
<1>3. PICK next \in Int : next = top - n
  OBVIOUS
<1>4. IsDivision(gen, deg, top, n)
  <2>1. top + 1 - n >= deg /\ top \in Int
    BY <1>1, <1>2 DEF IsGenerator
  <2> QED
    BY <2>1, ReducedIsDivision
<1>5. IsDivision(gen, deg, next, k)
  <2>1. next + 1 - k >= deg
    BY <1>1, <1>2, <1>3 DEF IsGenerator
  <2> QED
    BY <2>1, ReducedIsDivision
<1>6. ASSUME NEW word, word \subseteq 0..top
      PROVE  /\ Reduced(word, gen, deg, top, n) \subseteq 0..next
             /\ Reduce(word, gen, deg, top) = Reduced(Reduced(word, gen, deg, top, n), gen, deg, next, k)
  <2>1. PICK upper : upper = Reduced(word, gen, deg, top, n)
    OBVIOUS
  <2>2. upper \subseteq 0..next
    BY <1>3, <1>4, <1>6, <2>1 DEF IsDivision
  <2>3. Reduced({}, gen, deg, next, k) = {}
    BY <1>5 DEF IsDivision
  <2>4. Reduce(word, gen, deg, top) = IF upper = {} THEN {} ELSE Reduced(upper, gen, deg, next, k)
    BY <1>1, <1>2, <1>3, <2>1 DEF Reduce
  <2> QED
    BY <2>1, <2>2, <2>3, <2>4
<1>7. ASSUME NEW word, word \subseteq 0..top PROVE Reduce(word, gen, deg, top) \subseteq 0..deg-1
  <2>1. PICK upper : upper = Reduced(word, gen, deg, top, n)
    OBVIOUS
  <2>2. Reduced(upper, gen, deg, next, k) \subseteq 0..next - k
    BY <1>5, <1>6, <1>7, <2>1 DEF IsDivision
  <2>3. next - k = deg - 1
    BY <1>1, <1>2, <1>3 DEF IsGenerator
  <2> QED
    BY <1>6, <1>7, <2>1, <2>2, <2>3
<1>8. ASSUME NEW word, word \subseteq 0..deg-1 PROVE Reduce(word, gen, deg, top) = word
  <2>1. word \subseteq Int /\ word \subseteq 0..top /\ \A i \in word : i < top + 1 - n /\ i < next + 1 - k
    BY <1>1, <1>2, <1>3, <1>8 DEF IsGenerator
  <2>2. Reduced(word, gen, deg, top, n) = word
    BY <1>4, <2>1 DEF IsDivision
  <2>3. Reduced(word, gen, deg, next, k) = word
    BY <1>5, <2>1 DEF IsDivision
  <2> QED
    BY <1>6, <2>1, <2>2, <2>3
<1>9. ASSUME NEW a, NEW b, a \subseteq 0..top, b \subseteq 0..top
      PROVE  Reduce(SymDiff(a, b), gen, deg, top) = SymDiff(Reduce(a, gen, deg, top), Reduce(b, gen, deg, top))
  <2>1. PICK c : c = SymDiff(a, b) /\ c \subseteq 0..top
    BY <1>9 DEF SymDiff
  <2>2. PICK ra : ra = Reduced(a, gen, deg, top, n)
    OBVIOUS
  <2>3. PICK rb : rb = Reduced(b, gen, deg, top, n)
    OBVIOUS
  <2>4. ra \subseteq Int /\ rb \subseteq Int
    <3>1. ra \subseteq 0..next /\ rb \subseteq 0..next
      BY <1>6, <1>9, <2>2, <2>3
    <3> QED
      BY <3>1
  <2>5. Reduced(c, gen, deg, top, n) = SymDiff(ra, rb)
    <3>1. a \subseteq Int /\ b \subseteq Int
      BY <1>9
    <3>2. Reduced(SymDiff(a, b), gen, deg, top, n)
            = SymDiff(Reduced(a, gen, deg, top, n), Reduced(b, gen, deg, top, n))
      BY <1>4, <3>1 DEF IsDivision, AddsUp
    <3> QED
      BY <2>1, <2>2, <2>3, <3>2
  <2>6. Reduced(SymDiff(ra, rb), gen, deg, next, k)
          = SymDiff(Reduced(ra, gen, deg, next, k), Reduced(rb, gen, deg, next, k))
    BY <1>5, <2>4 DEF IsDivision, AddsUp
  <2>7. Reduce(c, gen, deg, top) = Reduced(SymDiff(ra, rb), gen, deg, next, k)
    BY <1>6, <2>1, <2>5
  <2>8. Reduce(a, gen, deg, top) = Reduced(ra, gen, deg, next, k)
    BY <1>6, <1>9, <2>2
  <2>9. Reduce(b, gen, deg, top) = Reduced(rb, gen, deg, next, k)
    BY <1>6, <1>9, <2>3
  <2> QED
    BY <2>1, <2>6, <2>7, <2>8, <2>9
<1> QED
  BY <1>7, <1>8, <1>9 DEF IsRemainder

-----------------------------------------------------------------------------
(* Golay.                                                                  *)

\* The syndrome of a word is of eleven bits, is linear, and of parity alone is that parity.
LEMMA GolaySyndromes ==
  /\ \A a : a \subseteq 0..22 => golaySyndrome(a) \subseteq 0..10
  /\ \A a : a \subseteq 0..10 => golaySyndrome(a) = a
  /\ \A a, b : a \subseteq 0..22 /\ b \subseteq 0..22 =>
         golaySyndrome(SymDiff(a, b)) = SymDiff(golaySyndrome(a), golaySyndrome(b))
<1>1. PICK gen : gen = golayPoly
  OBVIOUS
<1>2. PICK deg, top \in Nat : deg = 11 /\ top = 22
  OBVIOUS
<1>3. IsGenerator(gen, deg) /\ top >= deg
  BY <1>1, <1>2 DEF IsGenerator, golayPoly
<1>4. \A a : golaySyndrome(a) = Reduce(a, gen, deg, top)
  BY <1>1, <1>2 DEF golaySyndrome
<1>5. IsRemainder(gen, deg, top)
  BY <1>3, ReduceIsRemainder
<1>6. 0..deg-1 = 0..10 /\ 0..top = 0..22
  BY <1>2
<1>7. \A a : a \subseteq 0..22 => golaySyndrome(a) \subseteq 0..10
  BY <1>4, <1>5, <1>6 DEF IsRemainder
<1>8. \A a : a \subseteq 0..10 => golaySyndrome(a) = a
  BY <1>4, <1>5, <1>6 DEF IsRemainder
<1>9. ASSUME NEW a, NEW b, a \subseteq 0..22, b \subseteq 0..22
      PROVE  golaySyndrome(SymDiff(a, b)) = SymDiff(golaySyndrome(a), golaySyndrome(b))
  <2>1. Reduce(SymDiff(a, b), gen, deg, top) = SymDiff(Reduce(a, gen, deg, top), Reduce(b, gen, deg, top))
    BY <1>5, <1>6, <1>9 DEF IsRemainder
  <2> QED
    BY <1>4, <2>1
<1> QED
  BY <1>7, <1>8, <1>9

\* A word that is encoded has no syndrome, and is the data above the parity.
LEMMA GolayEncoded ==
  ASSUME NEW m, m \subseteq 0..11
  PROVE  /\ golayEncode(m) \subseteq 0..22 /\ golaySyndrome(golayEncode(m)) = {}
         /\ DataOf(golayEncode(m)) = m
<1>1. PICK x : x = Shift(m, 11)
  OBVIOUS
<1>2. x \subseteq 11..22 /\ x \subseteq 0..22
  BY <1>1 DEF Shift
<1>3. PICK s : s = golaySyndrome(x) /\ s \subseteq 0..10 /\ s \subseteq 0..22
  <2>1. golaySyndrome(x) \subseteq 0..10
    BY <1>2, GolaySyndromes
  <2> QED
    BY <2>1
<1>4. PICK c : c = golayEncode(m)
  OBVIOUS
<1>5. c = x \cup s /\ c = SymDiff(x, s) /\ c \subseteq 0..22
  <2>1. x \cap s = {}
    BY <1>2, <1>3
  <2>2. c = x \cup s
    BY <1>1, <1>3, <1>4 DEF golayEncode, golaySyndrome
  <2> QED
    BY <1>2, <1>3, <2>1, <2>2 DEF SymDiff
<1>6. golaySyndrome(c) = {}
  <2>1. golaySyndrome(s) = s
    BY <1>3, GolaySyndromes
  <2>2. golaySyndrome(SymDiff(x, s)) = SymDiff(golaySyndrome(x), golaySyndrome(s))
    BY <1>2, <1>3, GolaySyndromes
  <2>3. SymDiff(s, s) = {}
    BY DEF SymDiff
  <2> QED
    BY <1>3, <1>5, <2>1, <2>2, <2>3
<1>7. DataOf(c) = m
  <2>1. {j \in c : j >= 11} = x
    <3>1. (\A j \in x : j >= 11) /\ \A j \in s : ~(j >= 11)
      BY <1>2, <1>3
    <3> QED
      BY <1>5, <3>1
  <2>2. {i - 11 : i \in x} = m
    <3>1. \A i \in m : (i + 11) - 11 = i
      OBVIOUS
    <3> QED
      BY <1>1, <3>1 DEF Shift
  <2> QED
    BY <2>1, <2>2 DEF DataOf
<1> QED
  BY <1>4, <1>5, <1>6, <1>7

\* And what has no syndrome is its data encoded.
LEMMA GolayOnlyEncoded ==
  ASSUME NEW w, w \subseteq 0..22, golaySyndrome(w) = {}
  PROVE  DataOf(w) \subseteq 0..11 /\ golayEncode(DataOf(w)) = w
<1>1. PICK x : x = {j \in w : j >= 11}
  OBVIOUS
<1>2. PICK y : y = {j \in w : j < 11}
  OBVIOUS
<1>3. x \subseteq 0..22 /\ y \subseteq 0..10 /\ y \subseteq 0..22 /\ w = SymDiff(x, y) /\ w = x \cup y
  <2>1. \A j \in w : j \in 0..22 /\ (j >= 11 \/ j < 11) /\ ~(j >= 11 /\ j < 11)
    OBVIOUS
  <2>2. \A j : (j \in x <=> j \in w /\ j >= 11) /\ (j \in y <=> j \in w /\ j < 11)
    BY <1>1, <1>2
  <2>3. w = x \cup y
    BY <2>1, <2>2
  <2>4. x \cap y = {}
    BY <2>1, <2>2
  <2>5. w = SymDiff(x, y)
    BY <2>3, <2>4 DEF SymDiff
  <2> QED
    BY <2>1, <2>2, <2>3, <2>5
<1>4. PICK s : s = golaySyndrome(x)
  OBVIOUS
<1>5. SymDiff(s, y) = {}
  <2>1. golaySyndrome(y) = y
    BY <1>3, GolaySyndromes
  <2>2. golaySyndrome(SymDiff(x, y)) = SymDiff(golaySyndrome(x), golaySyndrome(y))
    BY <1>3, GolaySyndromes
  <2> QED
    BY <1>3, <1>4, <2>1, <2>2
<1>6. s = y
  BY <1>5 DEF SymDiff
<1>7. DataOf(w) \subseteq 0..11 /\ Shift(DataOf(w), 11) = x
  <2>1. DataOf(w) = {i - 11 : i \in x}
    BY <1>1 DEF DataOf
  <2>2. \A i \in x : (i - 11) + 11 = i /\ i - 11 \in 0..11
    BY <1>1, <1>3
  <2> QED
    BY <2>1, <2>2 DEF Shift
<1> QED
  BY <1>3, <1>4, <1>6, <1>7 DEF golayEncode, golaySyndrome

-----------------------------------------------------------------------------
\* A set of up to three is one of three names.
LEMMA UpToThree ==
  ASSUME NEW p, IsFiniteSet(p), p # {}, Cardinality(p) <= 3
  PROVE  \E a, b, c \in p : p = {a, b, c}
<1>1. PICK a \in p : TRUE
  OBVIOUS
<1>2. PICK q : q = p \ {a}
  OBVIOUS
<1>3. IsFiniteSet(q) /\ Cardinality(q) \in Nat /\ Cardinality(q) <= 2
  <2>1. Cardinality(q) = Cardinality(p) - 1 /\ IsFiniteSet(q) /\ Cardinality(p) \in Nat
    BY <1>1, <1>2, FS_RemoveElement, FS_CardinalityType
  <2>2. Cardinality(q) \in Nat
    BY <2>1, FS_CardinalityType
  <2> QED
    BY <2>1, <2>2
<1>4. CASE q = {}
  BY <1>1, <1>2, <1>4
<1>5. CASE q # {}
  <2>1. PICK b \in q : TRUE
    BY <1>5
  <2>0. b \in p
    BY <1>2, <2>1
  <2>2. PICK r : r = q \ {b}
    OBVIOUS
  <2>3. IsFiniteSet(r) /\ Cardinality(r) \in Nat /\ Cardinality(r) <= 1
    <3>1. Cardinality(r) = Cardinality(q) - 1 /\ IsFiniteSet(r)
      BY <1>3, <2>1, <2>2, FS_RemoveElement
    <3>2. Cardinality(r) \in Nat
      BY <3>1, FS_CardinalityType
    <3> QED
      BY <1>3, <3>1, <3>2
  <2>4. CASE Cardinality(r) = 0
    <3>1. r = {}
      BY <2>3, <2>4, FS_EmptySet
    <3>2. p = {a, b, b}
      BY <1>1, <1>2, <2>1, <2>2, <3>1
    <3> QED
      BY <1>1, <2>0, <3>2
  <2>5. CASE Cardinality(r) = 1
    <3>1. PICK c : r = {c}
      BY <2>3, <2>5, FS_Singleton
    <3>2. p = {a, b, c}
      BY <1>1, <1>2, <2>1, <2>2, <3>1
    <3> QED
      BY <3>2
  <2>6. Cardinality(r) = 0 \/ Cardinality(r) = 1
    BY <2>3
  <2> QED
    BY <2>4, <2>5, <2>6
<1> QED
  BY <1>4, <1>5

\* And three names are of up to three.
LEMMA OfThree ==
  ASSUME NEW a, NEW b, NEW c
  PROVE  IsFiniteSet({a, b, c}) /\ Cardinality({a, b, c}) \in 1..3
<1>1. IsFiniteSet({a}) /\ Cardinality({a}) = 1
  BY FS_Singleton
<1>2. IsFiniteSet({a} \cup {b}) /\ Cardinality({a} \cup {b}) \in 1..2
  BY <1>1, FS_AddElement
<1>3. PICK q : q = {a} \cup {b} /\ IsFiniteSet(q) /\ Cardinality(q) \in 1..2
  BY <1>2
<1>4. IsFiniteSet(q \cup {c}) /\ Cardinality(q \cup {c}) \in 1..3
  BY <1>3, FS_AddElement
<1>5. {a, b, c} = q \cup {c}
  BY <1>3
<1> QED
  BY <1>4, <1>5

\* Up to three errors, by their syndrome.
IsError(p) == p \subseteq 0..22 /\ IsFiniteSet(p) /\ Cardinality(p) <= 3

\* The table has just those that there are.
LEMMA TableOfErrors ==
  /\ \A e \in golayTable : /\ IsError(e.pattern) /\ e.pattern # {} /\ e.syndrome # {}
                           /\ golaySyndrome(e.pattern) = e.syndrome
  /\ \A p : IsError(p) /\ p # {} => ErrorEntry(p) \in golayTable
<1>1. ASSUME NEW e \in golayTable
      PROVE  /\ IsError(e.pattern) /\ e.pattern # {} /\ e.syndrome # {}
             /\ golaySyndrome(e.pattern) = e.syndrome
  <2>1. PICK a, b, c \in 0..22 : e = ErrorEntry({a, b, c})
    <3>1. PICK at \in [1..3 -> 0..22] : e = ErrorEntry({at[1], at[2], at[3]})
      BY DEF golayTable
    <3>2. at[1] \in 0..22 /\ at[2] \in 0..22 /\ at[3] \in 0..22
      OBVIOUS
    <3> QED
      BY <3>1, <3>2
  <2>2. IsError({a, b, c}) /\ {a, b, c} # {}
    <3>1. IsFiniteSet({a, b, c}) /\ Cardinality({a, b, c}) \in 1..3
      BY OfThree
    <3>2. {a, b, c} \subseteq 0..22
      OBVIOUS
    <3> QED
      BY <3>1, <3>2 DEF IsError
  <2>3. e.syndrome \in (SUBSET (0..10)) \ {{}}
    BY GolayPerfect
  <2>4. e.pattern = {a, b, c} /\ e.syndrome = golaySyndrome({a, b, c})
    BY <2>1 DEF ErrorEntry
  <2> QED
    BY <2>2, <2>3, <2>4
<1>2. ASSUME NEW p, IsError(p), p # {}
      PROVE  ErrorEntry(p) \in golayTable
  <2>1. PICK a, b, c \in p : p = {a, b, c}
    BY <1>2, UpToThree DEF IsError
  <2>2. a \in 0..22 /\ b \in 0..22 /\ c \in 0..22
    BY <1>2 DEF IsError
  <2>3. PICK at \in [1..3 -> 0..22] : at = [i \in 1..3 |-> IF i = 1 THEN a ELSE IF i = 2 THEN b ELSE c]
    BY <2>2
  <2>4. p = {at[1], at[2], at[3]}
    BY <2>1, <2>3
  <2>5. ErrorEntry({at[1], at[2], at[3]}) \in golayTable
    BY DEF golayTable
  <2> QED
    BY <2>4, <2>5
<1> QED
  BY <1>1, <1>2

\* The one with the syndrome of w, and none if it has none.
ErrorOf(w) == IF golaySyndrome(w) = {} THEN {}
              ELSE (CHOOSE e \in golayTable : e.syndrome = golaySyndrome(w)).pattern

LEMMA ErrorIs ==
  ASSUME NEW w, w \subseteq 0..22
  PROVE  /\ IsError(ErrorOf(w)) /\ golaySyndrome(ErrorOf(w)) = golaySyndrome(w)
         /\ \A p : IsError(p) /\ golaySyndrome(p) = golaySyndrome(w) => p = ErrorOf(w)
         /\ \A e \in golayTable : e.syndrome = golaySyndrome(w) <=> e.pattern = ErrorOf(w)
<1>1. PICK s : s = golaySyndrome(w) /\ s \subseteq 0..10
  BY GolaySyndromes
<1>2. golaySyndrome({}) = {} /\ IsError({})
  BY GolaySyndromes, FS_EmptySet DEF IsError
<1>3. CASE s = {}
  <2>1. ErrorOf(w) = {}
    BY <1>1, <1>3 DEF ErrorOf
  <2>2. ASSUME NEW p, IsError(p), golaySyndrome(p) = s, p # {} PROVE FALSE
    <3>1. ErrorEntry(p) \in golayTable
      BY <2>2, TableOfErrors
    <3>2. PICK e \in golayTable : e = ErrorEntry(p)
      BY <3>1
    <3>3. e.syndrome # {} /\ e.syndrome = golaySyndrome(p)
      BY <3>2, TableOfErrors DEF ErrorEntry
    <3> QED
      BY <1>3, <2>2, <3>3
  <2>3. \A e \in golayTable : e.syndrome # {} /\ e.pattern # {}
    BY TableOfErrors
  <2> QED
    BY <1>1, <1>2, <1>3, <2>1, <2>2, <2>3
<1>4. CASE s # {}
  <2>1. \E e \in golayTable : e.syndrome = s
    <3>1. s \in (SUBSET (0..10)) \ {{}}
      BY <1>1, <1>4
    <3>2. s \in {e.syndrome : e \in golayTable}
      BY <3>1, GolayPerfect
    <3> QED
      BY <3>2
  <2>2. PICK d \in golayTable : d = (CHOOSE e \in golayTable : e.syndrome = s) /\ d.syndrome = s
    BY <2>1
  <2>3. ErrorOf(w) = d.pattern
    BY <1>1, <1>4, <2>2 DEF ErrorOf
  <2>4. IsError(d.pattern) /\ d.pattern # {} /\ golaySyndrome(d.pattern) = s
    BY <2>2, TableOfErrors
  <2>5. ASSUME NEW p, IsError(p), golaySyndrome(p) = s PROVE p = d.pattern
    <3>1. p # {}
      BY <1>2, <1>4, <2>5
    <3>2. PICK e \in golayTable : e = ErrorEntry(p)
      BY <2>5, <3>1, TableOfErrors
    <3>3. e.syndrome = d.syndrome /\ e.pattern = p
      BY <2>2, <2>5, <3>2 DEF ErrorEntry
    <3>4. e = d
      BY <3>3, GolayPerfect
    <3> QED
      BY <3>3, <3>4
  <2>6. \A e \in golayTable : e.syndrome = s => e.pattern = d.pattern
    BY <2>2, GolayPerfect
  <2>7. \A e \in golayTable : e.pattern = d.pattern => e.syndrome = s
    BY <2>4, TableOfErrors
  <2> QED
    BY <1>1, <2>3, <2>4, <2>5, <2>6, <2>7
<1> QED
  BY <1>3, <1>4

-----------------------------------------------------------------------------
\* The data of the word nearest to w, which is the only one within three bits.
IsNearest(w, m) ==
    /\ m \subseteq 0..11
    /\ SymDiff(golayEncode(m), w) = ErrorOf(w)
    /\ \A n : n \subseteq 0..11 /\ BitsDiffer(golayEncode(n), w) <= 3 => n = m

LEMMA NearestIs ==
  ASSUME NEW w, w \subseteq 0..22
  PROVE  IsNearest(w, DataOf(SymDiff(w, ErrorOf(w))))
<1>1. PICK p : p = ErrorOf(w) /\ IsError(p) /\ golaySyndrome(p) = golaySyndrome(w)
  BY ErrorIs
<1>2. PICK c : c = SymDiff(w, p) /\ c \subseteq 0..22
  BY <1>1 DEF SymDiff, IsError
<1>3. PICK m : m = DataOf(c)
  OBVIOUS
<1>4. golaySyndrome(c) = {}
  <2>1. p \subseteq 0..22
    BY <1>1 DEF IsError
  <2>2. golaySyndrome(SymDiff(w, p)) = SymDiff(golaySyndrome(w), golaySyndrome(p))
    BY <2>1, GolaySyndromes
  <2>3. \A s : SymDiff(s, s) = {}
    BY DEF SymDiff
  <2> QED
    BY <1>1, <1>2, <2>2, <2>3
<1>5. m \subseteq 0..11 /\ golayEncode(m) = c
  BY <1>2, <1>3, <1>4, GolayOnlyEncoded
<1>6. SymDiff(c, w) = p
  BY <1>2 DEF SymDiff
<1>7. ASSUME NEW n, n \subseteq 0..11, BitsDiffer(golayEncode(n), w) <= 3
      PROVE  n = m
  <2>1. PICK v : v = golayEncode(n) /\ v \subseteq 0..22 /\ golaySyndrome(v) = {} /\ DataOf(v) = n
    BY <1>7, GolayEncoded
  <2>2. PICK q : q = SymDiff(v, w) /\ q \subseteq 0..22
    BY <2>1 DEF SymDiff
  <2>3. IsError(q)
    <3>1. IsFiniteSet(q)
      BY <2>2, WordFinite
    <3> QED
      BY <1>7, <2>1, <2>2, <3>1 DEF IsError, BitsDiffer
  <2>4. golaySyndrome(q) = golaySyndrome(w)
    <3>1. golaySyndrome(q) = SymDiff(golaySyndrome(v), golaySyndrome(w))
      BY <2>1, <2>2, GolaySyndromes
    <3>2. \A s : SymDiff({}, s) = s
      BY DEF SymDiff
    <3> QED
      BY <2>1, <3>1, <3>2
  <2>5. q = p
    BY <1>1, <2>3, <2>4, ErrorIs
  <2>6. v = SymDiff(w, q)
    BY <2>2 DEF SymDiff
  <2> QED
    BY <1>2, <1>3, <2>1, <2>5, <2>6
<1> QED
  BY <1>1, <1>2, <1>3, <1>5, <1>6, <1>7 DEF IsNearest

\* golayDecode finds it, and counts the bits that were wrong (golay.go:84).
THEOREM GolayDecodes ==
  ASSUME NEW w, w \subseteq 0..22
  PROVE  /\ golayDecode(w).ok
         /\ IsNearest(w, golayDecode(w).data)
         /\ golayDecode(w).nerr = BitsDiffer(golayEncode(golayDecode(w).data), w)
         /\ golayDecode(w).nerr \in 0..3
<1>1. PICK p : p = ErrorOf(w) /\ IsError(p)
  BY ErrorIs
<1>2. Cardinality(p) \in 0..3
  BY <1>1, FS_CardinalityType DEF IsError
<1>3. Cardinality({}) = 0
  BY FS_EmptySet
<1>4. golayDecode(w) = [ok |-> TRUE, data |-> DataOf(SymDiff(w, p)), nerr |-> Cardinality(p)]
  <2>1. CASE golaySyndrome(w) = {}
    <3>1. p = {}
      BY <1>1, <2>1 DEF ErrorOf
    <3>2. SymDiff(w, p) = w
      BY <3>1 DEF SymDiff
    <3> QED
      BY <1>3, <2>1, <3>1, <3>2 DEF golayDecode
  <2>2. CASE golaySyndrome(w) # {}
    <3>1. PICK s : s = golaySyndrome(w)
      OBVIOUS
    <3>2. PICK q : q = (CHOOSE e \in golayTable : e.syndrome = s).pattern
      OBVIOUS
    <3>3. p = q
      BY <1>1, <2>2, <3>1, <3>2 DEF ErrorOf
    <3> QED
      BY <2>2, <3>1, <3>2, <3>3 DEF golayDecode
  <2> QED
    BY <2>1, <2>2
<1>5. PICK m : m = DataOf(SymDiff(w, p)) /\ IsNearest(w, m)
  BY <1>1, NearestIs
<1>6. BitsDiffer(golayEncode(m), w) = Cardinality(p)
  BY <1>1, <1>5 DEF IsNearest, BitsDiffer
<1> QED
  BY <1>2, <1>4, <1>5, <1>6

-----------------------------------------------------------------------------
(* The extended code.                                                      *)

\* What is left when the parity bit is dropped.
Down(w) == {i - 1 : i \in w \ {0}}

\* A word is as large when it is moved.
LEMMA DownSize ==
  ASSUME NEW w, w \subseteq 0..23
  PROVE  /\ Down(w) \subseteq 0..22
         /\ Cardinality(Down(w)) = Cardinality(w \ {0})
<1>1. PICK S : S = w \ {0}
  OBVIOUS
<1>2. PICK T : T = Down(w)
  OBVIOUS
<1>3. S \subseteq 1..23 /\ S \subseteq 0..23
  BY <1>1
<1>4. T = {i - 1 : i \in S}
  BY <1>1, <1>2 DEF Down
<1>5. T \subseteq 0..22
  <2>1. \A i \in 1..23 : i - 1 \in 0..22
    OBVIOUS
  <2> QED
    BY <1>3, <1>4, <2>1
<1>6. PICK f : f = [i \in S |-> i - 1]
  OBVIOUS
<1>7. f \in Bijection(S, T)
  <2>1. f \in [S -> T]
    BY <1>4, <1>6
  <2>2. \A i, j \in S : f[i] = f[j] => i = j
    BY <1>3, <1>6
  <2>3. \A t \in T : \E i \in S : f[i] = t
    BY <1>4, <1>6
  <2> QED
    BY <2>1, <2>2, <2>3 DEF Bijection, Injection, Surjection, IsInjective
<1>8. IsFiniteSet(S)
  BY <1>3, WordFinite
<1>9. Cardinality(T) = Cardinality(S)
  BY <1>7, <1>8, FS_Bijection DEF ExistsBijection
<1> QED
  BY <1>1, <1>2, <1>5, <1>9

\* The parity bit apart, words differ where the words without it do.
LEMMA DownDiffers ==
  ASSUME NEW a, a \subseteq 0..23, NEW b, b \subseteq 0..23
  PROVE  BitsDiffer(a \ {0}, b \ {0}) = BitsDiffer(Down(a), Down(b))
<1>1. PICK d : d = SymDiff(a, b) /\ d \subseteq 0..23
  BY DEF SymDiff
<1>2. d \ {0} = SymDiff(a \ {0}, b \ {0})
  BY <1>1 DEF SymDiff
<1>3. Down(d) = SymDiff(Down(a), Down(b))
  <2>1. ASSUME NEW w, w \subseteq 0..23, NEW i \in 0..22
        PROVE  i \in Down(w) <=> i + 1 \in w
    <3>1. ASSUME i \in Down(w) PROVE i + 1 \in w
      <4>1. PICK j \in w \ {0} : i = j - 1
        BY <3>1 DEF Down
      <4>2. j = i + 1
        BY <2>1, <4>1
      <4> QED
        BY <4>1, <4>2
    <3>2. ASSUME i + 1 \in w PROVE i \in Down(w)
      <4>1. i + 1 \in w \ {0} /\ i = (i + 1) - 1
        BY <3>2
      <4> QED
        BY <4>1 DEF Down
    <3> QED
      BY <3>1, <3>2
  <2>2. Down(a) \subseteq 0..22 /\ Down(b) \subseteq 0..22 /\ Down(d) \subseteq 0..22
    BY <1>1, DownSize
  <2>3. \A i \in 0..22 : i \in Down(d) <=> ((i \in Down(a)) # (i \in Down(b)))
    <3> TAKE i \in 0..22
    <3>1. i + 1 \in d <=> ((i + 1 \in a) # (i + 1 \in b))
      BY <1>1 DEF SymDiff
    <3>2. (i \in Down(a) <=> i + 1 \in a) /\ (i \in Down(b) <=> i + 1 \in b) /\ (i \in Down(d) <=> i + 1 \in d)
      BY <1>1, <2>1
    <3> QED
      BY <3>1, <3>2
  <2> QED
    BY <2>2, <2>3 DEF SymDiff
<1> QED
  BY <1>1, <1>2, <1>3, DownSize DEF BitsDiffer

\* A word with parity is the word when it is dropped.
LEMMA DownWithParity ==
  ASSUME NEW c, c \subseteq 0..22
  PROVE  WithParity(c) \subseteq 0..23 /\ Down(WithParity(c)) = c
<1>1. PICK w : w = WithParity(c)
  OBVIOUS
<1>2. PICK s : s = Shift(c, 1)
  OBVIOUS
<1>3. s \subseteq 1..23
  BY <1>2 DEF Shift
<1>4. w = s \/ w = s \cup {0}
  BY <1>1, <1>2 DEF WithParity
<1>5. w \subseteq 0..23 /\ w \ {0} = s
  <2>1. s \subseteq 0..23 /\ 0 \in 0..23 /\ 0 \notin s
    BY <1>3
  <2> QED
    BY <1>4, <2>1
<1>6. {i - 1 : i \in s} = c
  <2>1. \A i \in c : (i + 1) - 1 = i
    OBVIOUS
  <2> QED
    BY <1>2, <2>1 DEF Shift
<1> QED
  BY <1>1, <1>5, <1>6 DEF Down

\* Of the words of the Golay code with parity, and of what Golay24Decode makes of them:
\* with up to three errors beside the parity bit the data is what was sent, and
\* with more the word it comes from is that near all the same (golay.go:84, golay.go:90).
GolayRight == Decoded /\ job.code = "Golay" => Corrected /\ Honest

\* Every extended Golay word is decoded to what was sent when at most three of its other bits
\* are wrong; and when it is not told to be beyond correction, to a word that near
\* (golay.go:84, golay.go:90).
THEOREM GolayCode == CSpec => []GolayRight
<1>1. OfTheJob => GolayRight
  <2> SUFFICES ASSUME OfTheJob, Decoded, job.code = "Golay" PROVE Corrected /\ Honest
    BY DEF GolayRight
  <2>1. /\ job \in Jobs /\ sent = Encode(job.code, job.data)
        /\ received = Disturbed(job.code, sent, job.noise) /\ result = Decode(job.code, received)
    BY DEF OfTheJob, Decoded
  <2>2. job.data \subseteq 0..11 /\ job.noise \subseteq 0..23
    <3>1. WellFormed(job)
      BY <2>1, JobsAssumption
    <3> QED
      BY <3>1 DEF WellFormed
  <2>3. \A m : Encode("Golay", m) = WithParity(golayEncode(m))
    BY DEF Encode, acchSpecFor
  <2>4. PICK c : c = golayEncode(job.data) /\ c \subseteq 0..22
    BY <2>2, GolayEncoded
  <2>5. sent \subseteq 0..23 /\ Down(sent) = c
    BY <2>1, <2>3, <2>4, DownWithParity
  <2>6. received \subseteq 0..23
    <3>1. received = SymDiff(sent, job.noise)
      BY <2>1 DEF Disturbed, Table, Soft, ByBlock, ByWord, ByBit
    <3> QED
      BY <2>2, <2>5, <3>1 DEF SymDiff
  <2>7. PICK w : w = Down(received) /\ w \subseteq 0..22
    BY <2>6, DownSize
  <2>8. result = golayDecode(w)
    BY <2>1, <2>7 DEF Decode, Golay24Decode, Down, acchSpecFor
  <2>9. PICK m : m = result.data
    OBVIOUS
  <2>10. result.ok /\ IsNearest(w, m) /\ BitsDiffer(golayEncode(m), w) \in 0..3
    BY <2>7, <2>8, <2>9, GolayDecodes
  <2>11. \A a, b : Near("Golay", a, b) <=> BitsDiffer(a \ {0}, b \ {0}) <= 3
    BY DEF Near, Radius
  <2>12. \A d : DataIn("Golay", d) = d.data
    BY DEF DataIn, acchSpecFor
  <2>13. Honest
    <3> SUFFICES Near("Golay", WithParity(golayEncode(m)), received)
      BY <2>3, <2>9, <2>12 DEF Honest
    <3>1. PICK v : v = golayEncode(m) /\ v \subseteq 0..22
      BY <2>10, GolayEncoded DEF IsNearest
    <3>2. WithParity(v) \subseteq 0..23 /\ Down(WithParity(v)) = v
      BY <3>1, DownWithParity
    <3>3. BitsDiffer(WithParity(v) \ {0}, received \ {0}) = BitsDiffer(v, w)
      BY <2>6, <2>7, <3>2, DownDiffers
    <3> QED
      BY <2>10, <2>11, <3>1, <3>3
  <2>14. Corrected
    <3> SUFFICES ASSUME Near("Golay", sent, received) PROVE result.ok /\ result.data = job.data
      <4>1. Meant("Golay", job.data) = job.data
        BY DEF Meant
      <4> QED
        BY <2>12, <4>1 DEF Corrected
    <3>1. BitsDiffer(c, w) <= 3
      BY <2>5, <2>6, <2>7, <2>11, DownDiffers
    <3> QED
      BY <2>2, <2>4, <2>9, <2>10, <3>1 DEF IsNearest
  <2> QED
    BY <2>13, <2>14
<1> QED
  BY <1>1, JobSpec, PTL

-----------------------------------------------------------------------------
(* Parity by rows.                                                         *)

\* The exclusive or of the rows that a sum chooses is the sum of what its parts choose.
LEMMA XorOfSum ==
  ASSUME NEW rows, NEW width, NEW a, NEW b, IsFiniteSet(a), IsFiniteSet(b)
  PROVE  XorOf(rows, width, SymDiff(a, b)) = SymDiff(XorOf(rows, width, a), XorOf(rows, width, b))
<1>1. PICK c : c = SymDiff(a, b)
  OBVIOUS
<1>2. ASSUME NEW k \in 0..width-1
      PROVE  k \in XorOf(rows, width, c) <=> ~(k \in XorOf(rows, width, a) <=> k \in XorOf(rows, width, b))
  <2>1. PICK p : p = {i \in a : k \in rows[i]}
    OBVIOUS
  <2>2. PICK q : q = {i \in b : k \in rows[i]}
    OBVIOUS
  <2>3. {i \in c : k \in rows[i]} = SymDiff(p, q)
    BY <1>1, <2>1, <2>2 DEF SymDiff
  <2>4. p \subseteq a /\ q \subseteq b
    BY <2>1, <2>2
  <2>5. IsFiniteSet(p) /\ IsFiniteSet(q)
    BY <2>4, FS_Subset
  <2>6. OddWeight(SymDiff(p, q)) <=> ~(OddWeight(p) <=> OddWeight(q))
    BY <2>5, DiffSize
  <2>7. \A w : k \in XorOf(rows, width, w) <=> OddWeight({i \in w : k \in rows[i]})
    BY DEF XorOf
  <2>8. k \in XorOf(rows, width, a) <=> OddWeight(p)
    BY <2>1, <2>7
  <2>9. k \in XorOf(rows, width, b) <=> OddWeight(q)
    BY <2>2, <2>7
  <2>10. k \in XorOf(rows, width, c) <=> OddWeight(SymDiff(p, q))
    BY <2>3, <2>7
  <2> QED
    BY <2>6, <2>8, <2>9, <2>10
<1>3. \A w : XorOf(rows, width, w) \subseteq 0..width-1
  BY DEF XorOf
<1> QED
  BY <1>1, <1>2, <1>3 DEF SymDiff

\* One chooses its row.
LEMMA XorOfOne ==
  ASSUME NEW rows, NEW width, NEW j, rows[j] \subseteq 0..width-1
  PROVE  XorOf(rows, width, {j}) = rows[j]
<1>1. OddWeight({j}) /\ ~OddWeight({})
  <2>1. Cardinality({j}) = 1
    BY FS_Singleton
  <2>2. Cardinality({}) = 0
    BY FS_EmptySet
  <2> QED
    BY <2>1, <2>2 DEF OddWeight
<1>2. ASSUME NEW k \in 0..width-1 PROVE k \in XorOf(rows, width, {j}) <=> k \in rows[j]
  <2>1. {i \in {j} : k \in rows[i]} = IF k \in rows[j] THEN {j} ELSE {}
    OBVIOUS
  <2> QED
    BY <1>1, <2>1 DEF XorOf
<1>3. XorOf(rows, width, {j}) \subseteq 0..width-1
  BY DEF XorOf
<1> QED
  BY <1>2, <1>3

-----------------------------------------------------------------------------
(* Hamming(10,6).                                                          *)

\* No two data bits have the same parity, none has one bit of it, and none has none.
LEMMA ParityRows ==
  /\ \A i \in 0..5 : ParityRow[i] \subseteq 0..3
  /\ \A i, j \in 0..5 : ParityRow[i] = ParityRow[j] => i = j
  /\ \A i \in 0..5 : ParityRow[i] # {}
  /\ \A i \in 0..5, b \in 0..3 : ParityRow[i] # {b}
<1>1. /\ ParityRow[0] = {3, 2} /\ ParityRow[1] = {1, 0} /\ ParityRow[2] = {2, 1, 0}
      /\ ParityRow[3] = {3, 1, 0} /\ ParityRow[4] = {3, 2, 0} /\ ParityRow[5] = {3, 2, 1}
  BY DEF ParityRow
<1>2. ASSUME NEW i \in 0..5 PROVE i = 0 \/ i = 1 \/ i = 2 \/ i = 3 \/ i = 4 \/ i = 5
  OBVIOUS
<1>3. \A i \in 0..5 : ParityRow[i] \subseteq 0..3 /\ ParityRow[i] # {}
  BY <1>1, <1>2
<1>4. \A i \in 0..5, b \in 0..3 : ParityRow[i] # {b}
  BY <1>1, <1>2
<1>5. ASSUME NEW i \in 0..5, NEW j \in 0..5, ParityRow[i] = ParityRow[j] PROVE i = j
  <2>1. (3 \in ParityRow[i] <=> 3 \in ParityRow[j]) /\ (2 \in ParityRow[i] <=> 2 \in ParityRow[j])
        /\ (1 \in ParityRow[i] <=> 1 \in ParityRow[j]) /\ (0 \in ParityRow[i] <=> 0 \in ParityRow[j])
    BY <1>5
  <2>2. /\ \A k \in 0..5 : 3 \in ParityRow[k] <=> k \in {0, 3, 4, 5}
        /\ \A k \in 0..5 : 2 \in ParityRow[k] <=> k \in {0, 2, 4, 5}
        /\ \A k \in 0..5 : 1 \in ParityRow[k] <=> k \in {1, 2, 3, 5}
        /\ \A k \in 0..5 : 0 \in ParityRow[k] <=> k \in {1, 2, 3, 4}
    BY <1>1, <1>2
  <2> QED
    BY <2>1, <2>2
<1> QED
  BY <1>3, <1>4, <1>5

\* Whatever was sent, with one bit wrong or none the data is what was sent (hamming.go:65).
THEOREM Hamming10Corrects ==
  ASSUME NEW data, data \subseteq 0..5, NEW dataErr, NEW parityErr,
         \/ dataErr = {} /\ parityErr = {}
         \/ dataErr = {} /\ \E b \in 0..3 : parityErr = {b}
         \/ parityErr = {} /\ \E j \in 0..5 : dataErr = {j}
  PROVE  hamming1063Decode(SymDiff(data, dataErr), SymDiff(hamming1063Encode(data), parityErr)) = data
<1>1. PICK d : d = SymDiff(data, dataErr)
  OBVIOUS
<1>2. PICK e : e = hamming1063Encode(data)
  OBVIOUS
<1>3. PICK f : f = hamming1063Encode(dataErr)
  OBVIOUS
<1>4. IsFiniteSet(data)
  BY WordFinite
<1>5. IsFiniteSet(dataErr)
  <2>1. dataErr = {} \/ \E j : dataErr = {j}
    OBVIOUS
  <2>2. IsFiniteSet({})
    BY FS_EmptySet
  <2>3. \A j : IsFiniteSet({j})
    BY FS_Singleton
  <2> QED
    BY <2>1, <2>2, <2>3
<1>6. hamming1063Encode(d) = SymDiff(e, f)
  BY <1>1, <1>2, <1>3, <1>4, <1>5, XorOfSum DEF hamming1063Encode
<1>7. SymDiff(SymDiff(e, f), SymDiff(e, parityErr)) = SymDiff(f, parityErr)
  BY DEF SymDiff
<1>8. PICK s : s = SymDiff(f, parityErr)
  OBVIOUS
<1>9. hamming1063Decode(d, SymDiff(e, parityErr)) = SymDiff(d, {i \in 0..5 : ParityRow[i] = s})
  BY <1>6, <1>7, <1>8 DEF hamming1063Decode
<1>10. hamming1063Encode({}) = {}
  <2>1. \A k : {i \in {} : k \in ParityRow[i]} = {}
    OBVIOUS
  <2>2. ~OddWeight({})
    BY FS_EmptySet DEF OddWeight
  <2> QED
    BY <2>1, <2>2 DEF hamming1063Encode, XorOf
<1>11. CASE dataErr = {}
  <2>1. s = parityErr /\ d = data
    BY <1>1, <1>3, <1>8, <1>10, <1>11 DEF SymDiff
  <2>2. \A i \in 0..5 : ParityRow[i] # s
    BY <1>11, <2>1, ParityRows
  <2>3. {i \in 0..5 : ParityRow[i] = s} = {}
    BY <2>2
  <2>4. SymDiff(data, {}) = data
    BY DEF SymDiff
  <2> QED
    BY <1>1, <1>2, <1>9, <2>1, <2>3, <2>4
<1>12. CASE parityErr = {} /\ \E j \in 0..5 : dataErr = {j}
  <2>1. PICK j \in 0..5 : dataErr = {j}
    BY <1>12
  <2>2. f = ParityRow[j]
    <3>1. ParityRow[j] \subseteq 0..4-1
      BY ParityRows
    <3> QED
      BY <1>3, <2>1, <3>1, XorOfOne DEF hamming1063Encode
  <2>3. s = ParityRow[j]
    BY <1>8, <1>12, <2>2 DEF SymDiff
  <2>4. {i \in 0..5 : ParityRow[i] = s} = {j}
    BY <2>3, ParityRows
  <2>5. SymDiff(SymDiff(data, {j}), {j}) = data
    BY DEF SymDiff
  <2> QED
    BY <1>1, <1>2, <1>9, <2>1, <2>4, <2>5
<1> QED
  BY <1>11, <1>12

-----------------------------------------------------------------------------
\* With one bit wrong, or none, the data is what was sent (hamming.go:65).
HammingRight == Decoded /\ job.code = "Hamming10" => Corrected

\* Every word of the Hamming code with one bit wrong, or none, is decoded to what was sent
\* (hamming.go:65).
THEOREM HammingCode == CSpec => []HammingRight
<1>1. OfTheJob => HammingRight
  <2> SUFFICES ASSUME OfTheJob, Decoded, job.code = "Hamming10" PROVE Corrected
    BY DEF HammingRight
  <2>1. /\ job \in Jobs /\ sent = Encode(job.code, job.data)
        /\ received = Disturbed(job.code, sent, job.noise) /\ result = Decode(job.code, received)
    BY DEF OfTheJob, Decoded
  <2>2. PICK data, noise : data = job.data /\ noise = job.noise /\ data \subseteq 0..5 /\ noise \subseteq 0..9
    <3>1. WellFormed(job)
      BY <2>1, JobsAssumption
    <3> QED
      BY <3>1 DEF WellFormed
  <2>3. PICK e : e = hamming1063Encode(data) /\ e \subseteq 0..3
    <3>1. hamming1063Encode(data) \subseteq 0..4-1
      BY DEF hamming1063Encode, XorOf
    <3> QED
      BY <3>1
  <2>4. PICK s : s = Shift(data, 4)
    OBVIOUS
  <2>5. sent = s \cup e
    BY <2>1, <2>2, <2>3, <2>4 DEF Encode, acchSpecFor
  <2>6. received = SymDiff(sent, noise)
    BY <2>1, <2>2 DEF Disturbed, Table, Soft, ByBlock, ByWord, ByBit
  <2>7. PICK upper, lower : upper = {i - 4 : i \in received \ 0..3} /\ lower = received \cap 0..3
    OBVIOUS
  <2>8. result = [ok |-> TRUE, data |-> hamming1063Decode(upper, lower)]
    BY <2>1, <2>7 DEF Decode, acchSpecFor
  <2>9. PICK dataErr, parityErr : dataErr = {i - 4 : i \in noise \ 0..3} /\ parityErr = noise \cap 0..3
    OBVIOUS
  <2>10. \A j \in 0..5 : (j \in data <=> j + 4 \in s) /\ s \subseteq 4..9
    BY <2>2, <2>4 DEF Shift
  <2>11. upper = SymDiff(data, dataErr)
    <3>1. received \subseteq 0..9
      BY <2>2, <2>3, <2>5, <2>6, <2>10 DEF SymDiff
    <3>2. upper \subseteq 0..5 /\ dataErr \subseteq 0..5
      BY <2>2, <2>7, <2>9, <3>1
    <3>3. ASSUME NEW j \in 0..5 PROVE j \in upper <=> ~(j \in data <=> j \in dataErr)
      <4>1. j \in upper <=> j + 4 \in received
        <5>1. ASSUME j \in upper PROVE j + 4 \in received
          <6>1. PICK i \in received \ 0..3 : j = i - 4
            BY <2>7, <5>1
          <6>2. i = j + 4
            BY <3>1, <6>1
          <6> QED
            BY <6>1, <6>2
        <5>2. ASSUME j + 4 \in received PROVE j \in upper
          <6>1. j + 4 \in received \ 0..3 /\ j = (j + 4) - 4
            BY <5>2
          <6> QED
            BY <2>7, <6>1
        <5> QED
          BY <5>1, <5>2
      <4>2. j \in dataErr <=> j + 4 \in noise
        <5>1. ASSUME j \in dataErr PROVE j + 4 \in noise
          <6>1. PICK i \in noise \ 0..3 : j = i - 4
            BY <2>9, <5>1
          <6>2. i = j + 4
            BY <2>2, <6>1
          <6> QED
            BY <6>1, <6>2
        <5>2. ASSUME j + 4 \in noise PROVE j \in dataErr
          <6>1. j + 4 \in noise \ 0..3 /\ j = (j + 4) - 4
            BY <5>2
          <6> QED
            BY <2>9, <6>1
        <5> QED
          BY <5>1, <5>2
      <4>3. j + 4 \in received <=> ~(j + 4 \in sent <=> j + 4 \in noise)
        BY <2>6 DEF SymDiff
      <4>4. j + 4 \notin e
        BY <2>3
      <4> QED
        BY <2>5, <2>10, <4>1, <4>2, <4>3, <4>4
    <3>4. data \subseteq 0..5
      BY <2>2
    <3> QED
      BY <3>2, <3>3, <3>4 DEF SymDiff
  <2>12. lower = SymDiff(e, parityErr)
    <3>1. s \cap 0..3 = {}
      <4>1. s \subseteq 4..9
        BY <2>2, <2>4 DEF Shift
      <4> QED
        BY <4>1
    <3> QED
      BY <2>3, <2>5, <2>6, <2>7, <2>9, <3>1 DEF SymDiff
  <2>13. \A a, b : Near("Hamming10", a, b) <=> BitsDiffer(a, b) <= 1
    BY DEF Near, Radius
  <2>14. \A d : DataIn("Hamming10", d) = d.data
    BY DEF DataIn, acchSpecFor
  <2> SUFFICES ASSUME Near("Hamming10", sent, received) PROVE result.ok /\ result.data = data
    <3>1. Meant("Hamming10", data) = data
      BY DEF Meant
    <3> QED
      BY <2>2, <2>14, <3>1 DEF Corrected
  <2>15. IsFiniteSet(noise) /\ Cardinality(noise) \in Nat /\ Cardinality(noise) <= 1
    <3>1. SymDiff(sent, received) = noise
      BY <2>6 DEF SymDiff
    <3> QED
      BY <2>2, <2>13, <3>1, WordFinite DEF BitsDiffer
  <2>16. noise = {} \/ \E x : noise = {x}
    <3>1. Cardinality(noise) = 0 \/ Cardinality(noise) = 1
      BY <2>15
    <3> QED
      BY <2>15, <3>1, FS_EmptySet, FS_Singleton
  <2>17. \/ dataErr = {} /\ parityErr = {}
         \/ dataErr = {} /\ \E b \in 0..3 : parityErr = {b}
         \/ parityErr = {} /\ \E j \in 0..5 : dataErr = {j}
    <3>1. CASE noise = {}
      BY <2>9, <3>1
    <3>2. CASE \E x : noise = {x}
      <4>1. PICK x \in 0..9 : noise = {x}
        BY <2>2, <3>2
      <4>2. CASE x \in 0..3
        BY <2>9, <4>1, <4>2
      <4>3. CASE x \notin 0..3
        <5>1. parityErr = {} /\ dataErr = {x - 4}
          BY <2>9, <4>1, <4>3
        <5>2. x - 4 \in 0..5
          BY <4>3
        <5> QED
          BY <5>1, <5>2
      <4> QED
        BY <4>2, <4>3
    <3> QED
      BY <2>16, <3>1, <3>2
  <2>18. hamming1063Decode(SymDiff(data, dataErr), SymDiff(e, parityErr)) = data
    BY <2>2, <2>3, <2>17, Hamming10Corrects
  <2> QED
    BY <2>8, <2>11, <2>12, <2>18
<1> QED
  BY <1>1, JobSpec, PTL

-----------------------------------------------------------------------------
(* Voice frames of phase 2.                                                *)

Width == <<24, 23, 11, 14>>

\* Where the bits of a frame go, by their place in four.
LEMMA Deinterleaved ==
  ASSUME NEW q \in 0..17
  PROVE  /\ vcwDeinterleave(4*q) = <<0, 23 - q>>
         /\ vcwDeinterleave(4*q + 1) = IF q <= 5 THEN <<0, 5 - q>> ELSE <<1, 28 - q>>
         /\ vcwDeinterleave(4*q + 2) = IF q <= 10 THEN <<1, 10 - q>> ELSE <<2, 21 - q>>
         /\ vcwDeinterleave(4*q + 3) = IF q <= 3 THEN <<2, 3 - q>> ELSE <<3, 17 - q>>
<1>1. (4*q) \div 4 = q /\ (4*q) % 4 = 0
  OBVIOUS
<1>2. (4*q + 1) \div 4 = q /\ (4*q + 1) % 4 = 1
  OBVIOUS
<1>3. (4*q + 2) \div 4 = q /\ (4*q + 2) % 4 = 2
  OBVIOUS
<1>4. (4*q + 3) \div 4 = q /\ (4*q + 3) % 4 = 3
  OBVIOUS
<1>5. vcwDeinterleave(4*q) = <<0, 23 - q>>
  <2>1. PICK bit : bit = 4*q
    OBVIOUS
  <2> QED
    BY <1>1, <2>1 DEF vcwDeinterleave
<1>6. vcwDeinterleave(4*q + 1) = IF q <= 5 THEN <<0, 5 - q>> ELSE <<1, 28 - q>>
  <2>1. PICK bit : bit = 4*q + 1
    OBVIOUS
  <2> QED
    BY <1>2, <2>1 DEF vcwDeinterleave
<1>7. vcwDeinterleave(4*q + 2) = IF q <= 10 THEN <<1, 10 - q>> ELSE <<2, 21 - q>>
  <2>1. PICK bit : bit = 4*q + 2
    OBVIOUS
  <2> QED
    BY <1>3, <2>1 DEF vcwDeinterleave
<1>8. vcwDeinterleave(4*q + 3) = IF q <= 3 THEN <<2, 3 - q>> ELSE <<3, 17 - q>>
  <2>1. PICK bit : bit = 4*q + 3
    OBVIOUS
  <2> QED
    BY <1>4, <2>1 DEF vcwDeinterleave
<1> QED
  BY <1>5, <1>6, <1>7, <1>8

\* Every bit of the four words is on the air.
LEMMA OnAirSomewhere ==
  ASSUME NEW cw \in 0..3, NEW p \in 0..Width[cw + 1] - 1
  PROVE  \E bit \in 0..71 : vcwDeinterleave(bit) = <<cw, p>>
<1>1. ASSUME NEW q \in 0..17
      PROVE  4*q \in 0..71 /\ 4*q + 1 \in 0..71 /\ 4*q + 2 \in 0..71 /\ 4*q + 3 \in 0..71
  OBVIOUS
<1>2. CASE cw = 0
  <2>1. p \in 0..23
    BY <1>2 DEF Width
  <2>2. CASE p >= 6
    <3>1. PICK q \in 0..17 : q = 23 - p /\ p = 23 - q
      BY <2>1, <2>2
    <3>2. vcwDeinterleave(4*q) = <<0, 23 - q>>
      BY Deinterleaved
    <3> QED
      BY <1>1, <1>2, <3>1, <3>2
  <2>3. CASE p <= 5
    <3>1. PICK q \in 0..17 : q <= 5 /\ p = 5 - q
      <4>1. 5 - p \in 0..17 /\ 5 - p <= 5 /\ p = 5 - (5 - p)
        BY <2>1, <2>3
      <4> QED
        BY <4>1
    <3>2. vcwDeinterleave(4*q + 1) = <<0, 5 - q>>
      BY <3>1, Deinterleaved
    <3> QED
      BY <1>1, <1>2, <3>1, <3>2
  <2> QED
    BY <2>1, <2>2, <2>3
<1>3. CASE cw = 1
  <2>1. p \in 0..22
    BY <1>3 DEF Width
  <2>2. CASE p >= 11
    <3>1. PICK q \in 0..17 : ~(q <= 5) /\ p = 28 - q
      <4>1. 28 - p \in 0..17 /\ ~(28 - p <= 5) /\ p = 28 - (28 - p)
        BY <2>1, <2>2
      <4> QED
        BY <4>1
    <3>2. vcwDeinterleave(4*q + 1) = <<1, 28 - q>>
      BY <3>1, Deinterleaved
    <3> QED
      BY <1>1, <1>3, <3>1, <3>2
  <2>3. CASE p <= 10
    <3>1. PICK q \in 0..17 : q <= 10 /\ p = 10 - q
      <4>1. 10 - p \in 0..17 /\ 10 - p <= 10 /\ p = 10 - (10 - p)
        BY <2>1, <2>3
      <4> QED
        BY <4>1
    <3>2. vcwDeinterleave(4*q + 2) = <<1, 10 - q>>
      BY <3>1, Deinterleaved
    <3> QED
      BY <1>1, <1>3, <3>1, <3>2
  <2> QED
    BY <2>1, <2>2, <2>3
<1>4. CASE cw = 2
  <2>1. p \in 0..10
    BY <1>4 DEF Width
  <2>2. CASE p >= 4
    <3>1. PICK q \in 0..17 : ~(q <= 10) /\ p = 21 - q
      <4>1. 21 - p \in 0..17 /\ ~(21 - p <= 10) /\ p = 21 - (21 - p)
        BY <2>1, <2>2
      <4> QED
        BY <4>1
    <3>2. vcwDeinterleave(4*q + 2) = <<2, 21 - q>>
      BY <3>1, Deinterleaved
    <3> QED
      BY <1>1, <1>4, <3>1, <3>2
  <2>3. CASE p <= 3
    <3>1. PICK q \in 0..17 : q <= 3 /\ p = 3 - q
      <4>1. 3 - p \in 0..17 /\ 3 - p <= 3 /\ p = 3 - (3 - p)
        BY <2>1, <2>3
      <4> QED
        BY <4>1
    <3>2. vcwDeinterleave(4*q + 3) = <<2, 3 - q>>
      BY <3>1, Deinterleaved
    <3> QED
      BY <1>1, <1>4, <3>1, <3>2
  <2> QED
    BY <2>1, <2>2, <2>3
<1>5. CASE cw = 3
  <2>1. p \in 0..13
    BY <1>5 DEF Width
  <2>2. PICK q \in 0..17 : ~(q <= 3) /\ p = 17 - q
    <3>1. 17 - p \in 0..17 /\ ~(17 - p <= 3) /\ p = 17 - (17 - p)
      BY <2>1
    <3> QED
      BY <3>1
  <2>3. vcwDeinterleave(4*q + 3) = <<3, 17 - q>>
    BY <2>2, Deinterleaved
  <2> QED
    BY <1>1, <1>5, <2>2, <2>3
<1> QED
  BY <1>2, <1>3, <1>4, <1>5

\* And every bit on the air is of one of the words.
LEMMA OffAir ==
  ASSUME NEW bit \in 0..71
  PROVE  /\ vcwDeinterleave(bit)[1] \in 0..3
         /\ vcwDeinterleave(bit)[2] \in 0..Width[vcwDeinterleave(bit)[1] + 1] - 1
<1>1. PICK q \in 0..17 : bit = 4*q \/ bit = 4*q + 1 \/ bit = 4*q + 2 \/ bit = 4*q + 3
  OBVIOUS
<1>2. Width[1] = 24 /\ Width[2] = 23 /\ Width[3] = 11 /\ Width[4] = 14
  BY DEF Width
<1>3. CASE bit = 4*q
  BY <1>2, <1>3, Deinterleaved
<1>4. CASE bit = 4*q + 1
  BY <1>2, <1>4, Deinterleaved
<1>5. CASE bit = 4*q + 2
  BY <1>2, <1>5, Deinterleaved
<1>6. CASE bit = 4*q + 3
  BY <1>2, <1>6, Deinterleaved
<1> QED
  BY <1>1, <1>3, <1>4, <1>5, <1>6

-----------------------------------------------------------------------------
\* The words taken from a frame are no longer than they are, and of a frame that was made
\* from words they are those.
LEMMA VoiceTaken ==
  ASSUME NEW ones, ones \subseteq 0..71, NEW cw \in 0..3
  PROVE  extractVCW(ones)[cw] \subseteq 0..Width[cw + 1] - 1
<1>1. extractVCW(ones)[cw] = {vcwDeinterleave(bit)[2] : bit \in {o \in ones : vcwDeinterleave(o)[1] = cw}}
  BY DEF extractVCW
<1>2. ASSUME NEW bit \in ones, vcwDeinterleave(bit)[1] = cw
      PROVE  vcwDeinterleave(bit)[2] \in 0..Width[cw + 1] - 1
  BY <1>2, OffAir
<1> QED
  BY <1>1, <1>2

OnTheAir(c) == {bit \in 0..71 : vcwDeinterleave(bit)[2] \in c[vcwDeinterleave(bit)[1]]}

LEMMA VoiceBack ==
  ASSUME NEW c, NEW cw \in 0..3, c[cw] \subseteq 0..Width[cw + 1] - 1
  PROVE  extractVCW(OnTheAir(c))[cw] = c[cw]
<1>1. PICK ones : ones = OnTheAir(c)
  OBVIOUS
<1>2. extractVCW(ones)[cw] = {vcwDeinterleave(bit)[2] : bit \in {o \in ones : vcwDeinterleave(o)[1] = cw}}
  BY DEF extractVCW
<1>3. ASSUME NEW p \in c[cw] PROVE p \in extractVCW(ones)[cw]
  <2>1. p \in 0..Width[cw + 1] - 1
    BY <1>3
  <2>2. PICK bit \in 0..71 : vcwDeinterleave(bit) = <<cw, p>>
    BY <2>1, OnAirSomewhere
  <2>3. vcwDeinterleave(bit)[1] = cw /\ vcwDeinterleave(bit)[2] = p
    BY <2>2
  <2>4. bit \in ones
    BY <1>1, <1>3, <2>3 DEF OnTheAir
  <2> QED
    BY <1>2, <2>3, <2>4
<1>4. ASSUME NEW p \in extractVCW(ones)[cw] PROVE p \in c[cw]
  <2>1. PICK bit \in ones : vcwDeinterleave(bit)[1] = cw /\ vcwDeinterleave(bit)[2] = p
    BY <1>2, <1>4
  <2>2. vcwDeinterleave(bit)[2] \in c[vcwDeinterleave(bit)[1]]
    BY <1>1, <2>1 DEF OnTheAir
  <2> QED
    BY <2>1, <2>2
<1> QED
  BY <1>1, <1>3, <1>4

\* The sequence that masks a word is no longer than it.
LEMMA MaskType ==
  ASSUME NEW m
  PROVE  generatePRMask(m) \subseteq 0..22
<1>1. PICK seq : seq = PseudoRandom(SeedOf(m), 23)
  OBVIOUS
<1>2. generatePRMask(m) = {23 - 1 - k : k \in {j \in 0..23-1 : 1 + j \in seq}}
  BY <1>1 DEF generatePRMask, OnRow
<1>3. \A k \in 0..23-1 : 23 - 1 - k \in 0..22
  OBVIOUS
<1> QED
  BY <1>2, <1>3

\* Words differ where they do without the parity bit, and in that bit.
LEMMA DiffersBy ==
  ASSUME NEW a, a \subseteq 0..23, NEW b, b \subseteq 0..23
  PROVE  /\ BitsDiffer(Down(a), Down(b)) \in Nat
         /\ (0 \in a <=> 0 \in b) => BitsDiffer(a, b) = BitsDiffer(Down(a), Down(b))
         /\ ~(0 \in a <=> 0 \in b) => BitsDiffer(a, b) = BitsDiffer(Down(a), Down(b)) + 1
<1>1. PICK d : d = SymDiff(a, b) /\ d \subseteq 0..23
  BY DEF SymDiff
<1>2. d \ {0} = SymDiff(a \ {0}, b \ {0}) /\ (0 \in d <=> ~(0 \in a <=> 0 \in b))
  BY <1>1 DEF SymDiff
<1>3. BitsDiffer(Down(a), Down(b)) = Cardinality(d \ {0}) /\ BitsDiffer(a, b) = Cardinality(d)
  BY <1>1, <1>2, DownDiffers DEF BitsDiffer
<1>4. IsFiniteSet(d) /\ Cardinality(d) \in Nat
  BY <1>1, WordFinite
<1>5. CASE 0 \in d
  <2>1. Cardinality(d \ {0}) = Cardinality(d) - 1 /\ IsFiniteSet(d \ {0})
    BY <1>4, <1>5, FS_RemoveElement
  <2>2. Cardinality(d \ {0}) \in Nat
    BY <2>1, FS_CardinalityType
  <2> QED
    BY <1>2, <1>3, <1>4, <1>5, <2>1, <2>2
<1>6. CASE 0 \notin d
  <2>1. d \ {0} = d
    BY <1>6
  <2> QED
    BY <1>2, <1>3, <1>4, <1>6, <2>1
<1> QED
  BY <1>5, <1>6

\* What the parity bit tells is that the word decoded to, with its parity, is four bits away.
LEMMA Uncorrectable ==
  ASSUME NEW r, r \subseteq 0..23
  PROVE  Golay24DetectUncorrectable(r)
           <=> BitsDiffer(WithParity(golayEncode(golayDecode(Down(r)).data)), r) >= 4
<1>1. PICK w : w = Down(r) /\ w \subseteq 0..22
  BY DownSize
<1>2. PICK v : v = golayEncode(golayDecode(w).data) /\ v \subseteq 0..22
  BY <1>1, GolayDecodes, GolayEncoded DEF IsNearest
<1>3. PICK a : a = WithParity(v) /\ a \subseteq 0..23 /\ Down(a) = v
  BY <1>2, DownWithParity
<1>4. 0 \in a <=> OddWeight(v)
  <2>1. 0 \notin Shift(v, 1)
    BY <1>2 DEF Shift
  <2> QED
    BY <1>3, <2>1 DEF WithParity
<1>5. PICK n \in Nat : n = BitsDiffer(v, w) /\ n = Cardinality(SymDiff(w, v))
  <2>1. SymDiff(w, v) = SymDiff(v, w)
    BY DEF SymDiff
  <2>2. BitsDiffer(v, w) \in Nat
    BY <1>1, <1>3, DiffersBy
  <2> QED
    BY <2>1, <2>2 DEF BitsDiffer
<1>6. PICK odd, top \in BOOLEAN : (odd <=> OddWeight(v)) /\ (top <=> 0 \in r)
  <2>1. OddWeight(v) \in BOOLEAN
    BY DEF OddWeight
  <2> QED
    BY <2>1
<1>7. Golay24DetectUncorrectable(r) <=> n + (IF OddWeight(v) # (0 \in r) THEN 1 ELSE 0) >= 4
  BY <1>1, <1>2, <1>5 DEF Golay24DetectUncorrectable, Down
<1>8. BitsDiffer(a, r) = IF OddWeight(v) <=> (0 \in r) THEN n ELSE n + 1
  BY <1>1, <1>3, <1>4, <1>5, DiffersBy
<1>9. (OddWeight(v) # (0 \in r)) <=> ~(OddWeight(v) <=> (0 \in r))
  BY DEF OddWeight
<1>10. Golay24DetectUncorrectable(r) <=> BitsDiffer(a, r) >= 4
  <2>1. CASE OddWeight(v) <=> (0 \in r)
    <3>1. ~(OddWeight(v) # (0 \in r))
      BY <1>9, <2>1
    <3> QED
      BY <1>7, <1>8, <2>1, <3>1
  <2>2. CASE ~(OddWeight(v) <=> (0 \in r))
    <3>1. OddWeight(v) # (0 \in r)
      BY <1>9, <2>2
    <3> QED
      BY <1>7, <1>8, <2>2, <3>1
  <2> QED
    BY <2>1, <2>2
<1> QED
  BY <1>1, <1>2, <1>3, <1>10

-----------------------------------------------------------------------------
\* Of a voice frame of phase 2: with up to three errors in each of the two Golay words, of
\* which the second is masked by what the first says, the four words are what was sent; and
\* whatever the errors, the frame is told to be beyond correction just when the first word
\* is four bits from any (phase2/voice.go:98, golay.go:99).
VoiceRight == Decoded /\ job.code = "Voice" => Corrected /\ Honest

\* A voice frame of phase 2 with up to three errors in each of its Golay words is what was
\* sent, whatever its words are, and is refused just when the first of them cannot be
\* corrected (phase2/voice.go:98).
THEOREM VoiceCode == CSpec => []VoiceRight
<1>1. OfTheJob => VoiceRight
  <2> SUFFICES ASSUME OfTheJob, Decoded, job.code = "Voice" PROVE Corrected /\ Honest
    BY DEF VoiceRight
  <2>1. /\ job \in Jobs /\ sent = Encode(job.code, job.data)
        /\ received = Disturbed(job.code, sent, job.noise) /\ result = Decode(job.code, received)
    BY DEF OfTheJob, Decoded
  <2>2. job.data \in VoiceWords /\ job.noise \subseteq 0..71
    <3>1. WellFormed(job)
      BY <2>1, JobsAssumption
    <3> QED
      BY <3>1 DEF WellFormed
  <2>3. PICK u0 \in SUBSET (0..11), u1 \in SUBSET (0..11), u2 \in SUBSET (0..10), u3 \in SUBSET (0..13) :
          job.data = <<u0, u1, u2, u3>>
    BY <2>2 DEF VoiceWords
  <2>4. PICK g0, g1, mask : /\ g0 = golayEncode(u0) /\ g0 \subseteq 0..22
                            /\ g1 = golayEncode(u1) /\ g1 \subseteq 0..22
                            /\ mask = generatePRMask(u0) /\ mask \subseteq 0..22
    BY GolayEncoded, MaskType
  <2>5. PICK c : c = [cw \in 0..3 |-> IF cw = 0 THEN WithParity(g0)
                                      ELSE IF cw = 1 THEN SymDiff(g1, mask)
                                      ELSE job.data[cw + 1]]
    OBVIOUS
  <2>6. sent = OnTheAir(c)
    <3>1. sent = SendVoice(job.data)
      BY <2>1 DEF Encode, acchSpecFor
    <3>2. c = [cw \in 0..3 |-> IF cw = 0 THEN WithParity(golayEncode(job.data[1]))
                               ELSE IF cw = 1 THEN SymDiff(golayEncode(job.data[2]), generatePRMask(job.data[1]))
                               ELSE job.data[cw + 1]]
      BY <2>3, <2>4, <2>5
    <3> QED
      BY <3>1, <3>2 DEF SendVoice, OnTheAir
  <2>7. WithParity(g0) \subseteq 0..23 /\ Down(WithParity(g0)) = g0
    BY <2>4, DownWithParity
  <2>8. /\ Width[0 + 1] = 24 /\ Width[1 + 1] = 23 /\ Width[2 + 1] = 11 /\ Width[3 + 1] = 14
    BY DEF Width
  <2>9. /\ c[0] = WithParity(g0) /\ c[0] \subseteq 0..23
        /\ c[1] = SymDiff(g1, mask) /\ c[1] \subseteq 0..22
        /\ c[2] = u2 /\ c[3] = u3
    BY <2>3, <2>4, <2>5, <2>7 DEF SymDiff
  <2>10. PICK x : x = extractVCW(sent)
    OBVIOUS
  <2>11. x[0] = c[0] /\ x[1] = c[1] /\ x[2] = c[2] /\ x[3] = c[3]
    <3>1. c[0] \subseteq 0..Width[0 + 1] - 1 /\ c[1] \subseteq 0..Width[1 + 1] - 1
      BY <2>8, <2>9
    <3>2. c[2] \subseteq 0..Width[2 + 1] - 1 /\ c[3] \subseteq 0..Width[3 + 1] - 1
      BY <2>8, <2>9
    <3>3. 0 \in 0..3 /\ 1 \in 0..3 /\ 2 \in 0..3 /\ 3 \in 0..3
      OBVIOUS
    <3> QED
      BY <2>6, <2>10, <3>1, <3>2, <3>3, VoiceBack
  <2>12. received \subseteq 0..71
    <3>1. received = SymDiff(sent, job.noise)
      BY <2>1 DEF Disturbed, Table, Soft, ByBlock, ByWord, ByBit
    <3>2. sent \subseteq 0..71
      BY <2>6 DEF OnTheAir
    <3> QED
      BY <2>2, <3>1, <3>2 DEF SymDiff
  <2>13. PICK y : y = extractVCW(received)
    OBVIOUS
  <2>14. y[0] \subseteq 0..23 /\ y[1] \subseteq 0..22
    <3>1. 0 \in 0..3 /\ 1 \in 0..3
      OBVIOUS
    <3>2. y[0] \subseteq 0..Width[0 + 1] - 1
      BY <2>12, <2>13, <3>1, VoiceTaken
    <3>3. y[1] \subseteq 0..Width[1 + 1] - 1
      BY <2>12, <2>13, <3>1, VoiceTaken
    <3> QED
      BY <2>8, <3>2, <3>3
  <2>15. PICK w0 : w0 = Down(y[0]) /\ w0 \subseteq 0..22
    BY <2>14, DownSize
  <2>16. PICK m0 : m0 = golayDecode(w0).data /\ IsNearest(w0, m0)
    BY <2>15, GolayDecodes
  <2>17. PICK w1 : w1 = SymDiff(y[1], generatePRMask(m0)) /\ w1 \subseteq 0..22
    <3>1. generatePRMask(m0) \subseteq 0..22
      BY MaskType
    <3> QED
      BY <2>14, <3>1 DEF SymDiff
  <2>18. PICK m1 : m1 = golayDecode(w1).data /\ IsNearest(w1, m1)
    BY <2>17, GolayDecodes
  <2>19. Golay24Decode(y[0]) = golayDecode(w0)
    BY <2>15 DEF Golay24Decode, Down
  <2>20. /\ result.ok /\ result.frame.u = <<m0, m1, y[2], y[3]>>
         /\ result.frame.uncorrectable = Golay24DetectUncorrectable(y[0])
    <3>1. result = [ok |-> TRUE, frame |-> DecodeVoiceCW(received)]
      BY <2>1 DEF Decode, acchSpecFor
    <3>2. DecodeVoiceCW(received).u = <<m0, m1, y[2], y[3]>>
      BY <2>13, <2>16, <2>17, <2>18, <2>19 DEF DecodeVoiceCW
    <3>3. DecodeVoiceCW(received).uncorrectable = Golay24DetectUncorrectable(y[0])
      BY <2>13 DEF DecodeVoiceCW
    <3> QED
      BY <3>1, <3>2, <3>3
  <2>21. Honest
    <3>1. Golay24DetectUncorrectable(y[0]) <=> BitsDiffer(WithParity(golayEncode(m0)), y[0]) >= 4
      BY <2>14, <2>15, <2>16, Uncorrectable
    <3>2. result.frame.u[1] = m0
      BY <2>20
    <3>3. result.frame.uncorrectable <=> BitsDiffer(WithParity(golayEncode(result.frame.u[1])), extractVCW(received)[0]) >= 4
      BY <2>13, <2>20, <3>1, <3>2
    <3> QED
      BY <3>3 DEF Honest, Radius
  <2>22. Corrected
    <3>1. \A d : DataIn("Voice", d) = d.frame.u
      BY DEF DataIn, acchSpecFor
    <3>2. Meant("Voice", job.data) = job.data
      BY DEF Meant
    <3> SUFFICES ASSUME Near("Voice", sent, received) PROVE result.frame.u = job.data
      BY <2>20, <3>1, <3>2 DEF Corrected
    <3>3. /\ BitsDiffer(x[0] \ {0}, y[0] \ {0}) <= 3 /\ BitsDiffer(x[1], y[1]) <= 3
          /\ x[2] = y[2] /\ x[3] = y[3]
      BY <2>10, <2>13 DEF Near, Radius
    <3>4. m0 = u0
      <4>1. BitsDiffer(g0, w0) <= 3
        <5>1. BitsDiffer(c[0] \ {0}, y[0] \ {0}) = BitsDiffer(Down(c[0]), Down(y[0]))
          BY <2>9, <2>14, DownDiffers
        <5> QED
          BY <2>7, <2>9, <2>11, <2>15, <3>3, <5>1
      <4> QED
        BY <2>4, <2>16, <4>1 DEF IsNearest
    <3>5. m1 = u1
      <4>1. SymDiff(g1, w1) = SymDiff(SymDiff(g1, mask), y[1])
        BY <2>4, <2>17, <3>4 DEF SymDiff
      <4>2. BitsDiffer(g1, w1) <= 3
        BY <2>9, <2>11, <3>3, <4>1 DEF BitsDiffer
      <4> QED
        BY <2>4, <2>18, <4>2 DEF IsNearest
    <3> QED
      BY <2>3, <2>9, <2>11, <2>20, <3>3, <3>4, <3>5
  <2> QED
    BY <2>21, <2>22
<1> QED
  BY <1>1, JobSpec, PTL

-----------------------------------------------------------------------------
(* The voice frames of mbe.                                                *)

\* A sum has the sum of the data.
LEMMA DataOfSum ==
  ASSUME NEW a, NEW b, a \subseteq 0..22, b \subseteq 0..22
  PROVE  DataOf(SymDiff(a, b)) = SymDiff(DataOf(a), DataOf(b))
<1>1. ASSUME NEW w, w \subseteq 0..22, NEW i
      PROVE  i \in DataOf(w) <=> i \in 0..11 /\ i + 11 \in w
  <2>1. ASSUME i \in DataOf(w) PROVE i \in 0..11 /\ i + 11 \in w
    <3>1. PICK j \in w : j >= 11 /\ i = j - 11
      BY <2>1 DEF DataOf
    <3>2. j \in 11..22 /\ i + 11 = j
      BY <1>1, <3>1
    <3> QED
      BY <3>1, <3>2
  <2>2. ASSUME i \in 0..11, i + 11 \in w PROVE i \in DataOf(w)
    <3>1. i + 11 >= 11 /\ i = (i + 11) - 11
      BY <2>2
    <3> QED
      BY <2>2, <3>1 DEF DataOf
  <2> QED
    BY <2>1, <2>2
<1>2. PICK d : d = SymDiff(a, b) /\ d \subseteq 0..22
  BY DEF SymDiff
<1>3. ASSUME NEW i PROVE i \in DataOf(d) <=> i \in SymDiff(DataOf(a), DataOf(b))
  <2>1. i \in DataOf(d) <=> i \in 0..11 /\ i + 11 \in d
    BY <1>1, <1>2
  <2>2. i \in DataOf(a) <=> i \in 0..11 /\ i + 11 \in a
    BY <1>1
  <2>3. i \in DataOf(b) <=> i \in 0..11 /\ i + 11 \in b
    BY <1>1
  <2>4. i + 11 \in d <=> ~(i + 11 \in a <=> i + 11 \in b)
    BY <1>2 DEF SymDiff
  <2>5. i \in SymDiff(DataOf(a), DataOf(b)) <=> ~(i \in DataOf(a) <=> i \in DataOf(b))
    BY DEF SymDiff
  <2> QED
    BY <2>1, <2>2, <2>3, <2>4, <2>5
<1> QED
  BY <1>2, <1>3

\* Golay2312 leaves the data of the nearest word (mbe/ecc.go).
LEMMA MbeGolayDecodes ==
  ASSUME NEW w, w \subseteq 0..22
  PROVE  Golay2312(w).out \subseteq 0..22 /\ IsNearest(w, DataOf(Golay2312(w).out))
<1>0. PICK s : s = golaySyndrome(w) /\ s \subseteq 0..10
  BY GolaySyndromes
<1>1. PICK p : /\ p = ErrorOf(w) /\ IsError(p)
               /\ \A e \in golayTable : e.syndrome = s <=> e.pattern = p
  BY <1>0, ErrorIs
<1>2. PICK E : E = {d \in golayTable : d.syndrome = s}
  OBVIOUS
<1>3. golayMatrix(s) = DataOf(p)
  <2>1. golayMatrix(s) = UNION {DataOf(e.pattern) : e \in E}
    BY <1>2 DEF golayMatrix
  <2>2. \A e \in E : e.pattern = p
    BY <1>1, <1>2
  <2>3. CASE E = {}
    <3>1. s = {}
      <4>1. ASSUME s # {} PROVE FALSE
        <5>1. s \in (SUBSET (0..10)) \ {{}}
          BY <1>0, <4>1
        <5>2. s \in {e.syndrome : e \in golayTable}
          BY <5>1, GolayPerfect
        <5> QED
          BY <1>2, <2>3, <5>2
      <4> QED
        BY <4>1
    <3>2. p = {}
      BY <1>0, <1>1, <3>1 DEF ErrorOf
    <3>3. DataOf({}) = {}
      BY DEF DataOf
    <3> QED
      BY <2>1, <2>3, <3>2, <3>3
  <2>4. CASE E # {}
    <3>1. {DataOf(e.pattern) : e \in E} = {DataOf(p)}
      BY <2>2, <2>4
    <3> QED
      BY <2>1, <3>1
  <2> QED
    BY <2>3, <2>4
<1>4. PICK m : m = DataOf(SymDiff(w, p)) /\ IsNearest(w, m)
  BY <1>1, NearestIs
<1>5. SymDiff(DataOf(w), golayMatrix(s)) = m
  BY <1>0, <1>1, <1>3, <1>4, DataOfSum DEF IsError
<1>6. PICK low : low = {i \in w : i < 11} /\ low \subseteq 0..10
  <2>1. \A i \in 0..22 : i < 11 => i \in 0..10
    OBVIOUS
  <2> QED
    BY <2>1
<1>7. m \subseteq 0..11
  BY <1>4 DEF IsNearest
<1>8. PICK high : high = Shift(m, 11) /\ high \subseteq 11..22
  <2>1. Shift(m, 11) \subseteq 11..22
    BY <1>7 DEF Shift
  <2> QED
    BY <2>1
<1>9. Golay2312(w).out = high \cup low
  BY <1>0, <1>5, <1>6, <1>8 DEF Golay2312
<1>10. DataOf(high \cup low) = m
  <2>1. {j \in high \cup low : j >= 11} = high
    <3>1. (\A j \in high : j >= 11) /\ \A j \in low : ~(j >= 11)
      BY <1>6, <1>8
    <3> QED
      BY <3>1
  <2>2. {i - 11 : i \in high} = m
    <3>1. \A i \in m : (i + 11) - 11 = i
      BY <1>7
    <3> QED
      BY <1>8, <3>1 DEF Shift
  <2> QED
    BY <2>1, <2>2 DEF DataOf
<1>11. high \cup low \subseteq 0..22
  BY <1>6, <1>8
<1> QED
  BY <1>4, <1>9, <1>10, <1>11

\* What falls on a row is no longer than it.
LEMMA OnRowType ==
  ASSUME NEW ones, NEW first, NEW width \in Nat
  PROVE  OnRow(ones, first, width) \subseteq 0..width-1
<1>1. OnRow(ones, first, width) = {width - 1 - k : k \in {j \in 0..width-1 : first + j \in ones}}
  BY DEF OnRow
<1>2. \A k \in 0..width-1 : width - 1 - k \in 0..width-1
  OBVIOUS
<1> QED
  BY <1>1, <1>2

\* Moved up and down again, a word is what it was.
LEMMA DownUp ==
  ASSUME NEW c, c \subseteq 0..22
  PROVE  Down(Shift(c, 1)) = c
<1>1. PICK s : s = Shift(c, 1)
  OBVIOUS
<1>2. s \subseteq 1..23 /\ s \ {0} = s
  <2>1. s \subseteq 1..23
    BY <1>1 DEF Shift
  <2> QED
    BY <2>1
<1>3. {i - 1 : i \in s} = c
  <2>1. \A i \in c : (i + 1) - 1 = i
    OBVIOUS
  <2> QED
    BY <1>1, <2>1 DEF Shift
<1> QED
  BY <1>1, <1>2, <1>3 DEF Down

-----------------------------------------------------------------------------
\* A row of a voice frame is masked by what the one before it says, and not otherwise.
LEMMA AMBERows ==
  ASSUME NEW fr \in [0..3 -> SUBSET (0..23)]
  PROVE  /\ demodulateAmbe3600x2450Data(fr)[1] = SymDiff(fr[1], generatePRMask(DataOf(Down(fr[0]))))
         /\ demodulateAmbe3600x2450Data(fr) \in [0..3 -> SUBSET (0..23)]
         /\ \A r \in {0, 2, 3} : demodulateAmbe3600x2450Data(fr)[r] = fr[r]
<1>1. PICK d : d = DataOf(Down(fr[0]))
  OBVIOUS
<1>2. PICK mask : mask = generatePRMask(d) /\ mask \subseteq 0..22
  BY MaskType
<1>3. mask = OnRow(PseudoRandom(SeedOf(d), 23), 1, 23)
  BY <1>2 DEF generatePRMask
<1>4. demodulateAmbe3600x2450Data(fr) = [fr EXCEPT ![1] = SymDiff(fr[1], mask)]
  BY <1>1, <1>3 DEF demodulateAmbe3600x2450Data, Down
<1>5. mask \subseteq 0..23
  BY <1>2
<1>6. SymDiff(fr[1], mask) \in SUBSET (0..23)
  <2>1. fr[1] \subseteq 0..23
    OBVIOUS
  <2> QED
    BY <1>5, <2>1 DEF SymDiff
<1> QED
  BY <1>1, <1>2, <1>4, <1>6

\* Of an AMBE frame: with up to three errors in each of the two Golay words, the parity bit
\* apart, the data is what was sent (mbe/ambe3600.go, mbe/ecc.go).
AMBERight == Decoded /\ job.code = "AMBE" => Corrected

\* The voice decoder's AMBE frame is what was sent, with up to three errors in each of its
\* Golay words (mbe/ambe3600.go, mbe/ecc.go).
THEOREM AMBECode == CSpec => []AMBERight
<1>1. OfTheJob => AMBERight
  <2> SUFFICES ASSUME OfTheJob, Decoded, job.code = "AMBE" PROVE Corrected
    BY DEF AMBERight
  <2>1. /\ job \in Jobs /\ sent = Encode(job.code, job.data)
        /\ received = Disturbed(job.code, sent, job.noise) /\ result = Decode(job.code, received)
    BY DEF OfTheJob, Decoded
  <2>2. PICK noise : /\ noise = job.noise /\ job.data \in VoiceWords
                     /\ \A r \in DOMAIN noise : noise[r] \subseteq 0..(IF r = 0 THEN 23 ELSE 22)
    <3>1. WellFormed(job)
      BY <2>1, JobsAssumption
    <3> QED
      BY <3>1 DEF WellFormed
  <2>3. PICK u0 \in SUBSET (0..11), u1 \in SUBSET (0..11), u2 \in SUBSET (0..10), u3 \in SUBSET (0..13) :
          job.data = <<u0, u1, u2, u3>>
    BY <2>2 DEF VoiceWords
  <2>4. PICK g0, g1, mask : /\ g0 = golayEncode(u0) /\ g0 \subseteq 0..22 /\ DataOf(g0) = u0
                            /\ g1 = golayEncode(u1) /\ g1 \subseteq 0..22
                            /\ mask = generatePRMask(u0) /\ mask \subseteq 0..22
    BY GolayEncoded, MaskType
  <2>5. WithParity(g0) \subseteq 0..23 /\ Down(WithParity(g0)) = g0
    BY <2>4, DownWithParity
  <2>6. PICK rows : rows = [r \in 0..3 |-> IF r = 0 THEN WithParity(g0) ELSE IF r = 1 THEN g1 ELSE job.data[r + 1]]
    OBVIOUS
  <2>7. /\ rows[0] = WithParity(g0) /\ rows[1] = g1 /\ rows[2] = u2 /\ rows[3] = u3
        /\ rows \in [0..3 -> SUBSET (0..23)]
    <3>1. rows[0] = WithParity(g0) /\ rows[1] = g1 /\ rows[2] = u2 /\ rows[3] = u3
      BY <2>3, <2>6
    <3>2. g1 \subseteq 0..23 /\ u2 \subseteq 0..23 /\ u3 \subseteq 0..23
      BY <2>4
    <3>3. \A r \in 0..3 : r = 0 \/ r = 1 \/ r = 2 \/ r = 3
      OBVIOUS
    <3>4. \A r \in 0..3 : rows[r] \in SUBSET (0..23)
      BY <2>5, <3>1, <3>2, <3>3
    <3> QED
      BY <2>6, <3>1, <3>4
  <2>8. sent = demodulateAmbe3600x2450Data(rows)
    <3>1. sent = SendAMBE(job.data)
      BY <2>1 DEF Encode, acchSpecFor
    <3>2. rows = [r \in 0..3 |-> IF r = 0 THEN WithParity(golayEncode(job.data[1]))
                                 ELSE IF r = 1 THEN golayEncode(job.data[2]) ELSE job.data[r + 1]]
      BY <2>3, <2>4, <2>6
    <3> QED
      BY <3>1, <3>2 DEF SendAMBE, Table
  <2>9. /\ sent \in [0..3 -> SUBSET (0..23)]
        /\ sent[0] = WithParity(g0) /\ sent[1] = SymDiff(g1, mask) /\ sent[2] = u2 /\ sent[3] = u3
    BY <2>4, <2>5, <2>7, <2>8, AMBERows
  <2>10. received = [r \in 0..3 |-> IF r \in DOMAIN noise THEN SymDiff(sent[r], noise[r]) ELSE sent[r]]
    <3>1. received = [r \in DOMAIN sent |-> IF r \in DOMAIN noise THEN SymDiff(sent[r], noise[r]) ELSE sent[r]]
      BY <2>1, <2>2 DEF Disturbed, Table, Soft, ByBlock, ByWord, ByBit
    <3> QED
      BY <2>9, <3>1
  <2>11. received \in [0..3 -> SUBSET (0..23)] /\ received[1] \subseteq 0..22
    <3>1. \A r \in DOMAIN noise : noise[r] \subseteq 0..23
      BY <2>2
    <3>2. \A r \in 0..3 : received[r] \in SUBSET (0..23)
      BY <2>9, <2>10, <3>1 DEF SymDiff
    <3>3. 1 \in DOMAIN noise => noise[1] \subseteq 0..22
      BY <2>2
    <3>4. received[1] \subseteq 0..22
      BY <2>4, <2>9, <2>10, <3>3 DEF SymDiff
    <3> QED
      BY <2>10, <3>2, <3>4
  <2>12. PICK w0 : w0 = Down(received[0]) /\ w0 \subseteq 0..22
    <3>1. received[0] \subseteq 0..23
      BY <2>11
    <3> QED
      BY <3>1, DownSize
  <2>13. PICK o0 : o0 = Golay2312(w0).out /\ o0 \subseteq 0..22 /\ IsNearest(w0, DataOf(o0))
    BY <2>12, MbeGolayDecodes
  <2>14. PICK fr : fr = [received EXCEPT ![0] = Shift(o0, 1)]
    OBVIOUS
  <2>15. fr \in [0..3 -> SUBSET (0..23)] /\ Down(fr[0]) = o0 /\ \A r \in {1, 2, 3} : fr[r] = received[r]
    <3>1. Shift(o0, 1) \in SUBSET (0..23)
      BY <2>13 DEF Shift
    <3> QED
      BY <2>11, <2>13, <2>14, <3>1, DownUp
  <2>16. PICK out : out = demodulateAmbe3600x2450Data(fr)
    OBVIOUS
  <2>17. PICK w1 : w1 = out[1] /\ w1 = SymDiff(received[1], generatePRMask(DataOf(o0))) /\ w1 \subseteq 0..22
    <3>1. out[1] = SymDiff(received[1], generatePRMask(DataOf(o0)))
      BY <2>15, <2>16, AMBERows
    <3>2. generatePRMask(DataOf(o0)) \subseteq 0..22
      BY MaskType
    <3> QED
      BY <2>11, <3>1, <3>2 DEF SymDiff
  <2>18. PICK o1 : o1 = Golay2312(w1).out /\ IsNearest(w1, DataOf(o1))
    BY <2>17, MbeGolayDecodes
  <2>19. out[2] = received[2] /\ out[3] = received[3]
    BY <2>15, <2>16, AMBERows
  <2>20. result.ok /\ result.frame.data = <<DataOf(o0), DataOf(o1), received[2], received[3]>>
    <3>1. result = [ok |-> TRUE, frame |-> ProcessAMBE3600x2450Frame(received)]
      BY <2>1 DEF Decode, acchSpecFor
    <3>2. ProcessAMBE3600x2450Frame(received).data = <<DataOf(o0), DataOf(o1), out[2], out[3]>>
      BY <2>12, <2>13, <2>14, <2>16, <2>17, <2>18 DEF ProcessAMBE3600x2450Frame, Down
    <3> QED
      BY <2>19, <3>1, <3>2
  <2>21. \A d : DataIn("AMBE", d) = d.frame.data
    BY DEF DataIn, acchSpecFor
  <2>22. Meant("AMBE", job.data) = job.data
    BY DEF Meant
  <2> SUFFICES ASSUME Near("AMBE", sent, received) PROVE result.frame.data = job.data
    BY <2>20, <2>21, <2>22 DEF Corrected
  <2>23. /\ BitsDiffer(sent[0] \ {0}, received[0] \ {0}) <= 3 /\ BitsDiffer(sent[1], received[1]) <= 3
         /\ sent[2] = received[2] /\ sent[3] = received[3]
    BY DEF Near, Radius
  <2>24. DataOf(o0) = u0
    <3>1. BitsDiffer(g0, w0) <= 3
      <4>1. received[0] \subseteq 0..23
        BY <2>11
      <4>2. BitsDiffer(sent[0] \ {0}, received[0] \ {0}) = BitsDiffer(Down(sent[0]), Down(received[0]))
        BY <2>5, <2>9, <4>1, DownDiffers
      <4> QED
        BY <2>5, <2>9, <2>12, <2>23, <4>2
    <3> QED
      BY <2>4, <2>13, <3>1 DEF IsNearest
  <2>25. DataOf(o1) = u1
    <3>1. SymDiff(g1, w1) = SymDiff(SymDiff(g1, mask), received[1])
      BY <2>4, <2>17, <2>24 DEF SymDiff
    <3>2. BitsDiffer(g1, w1) <= 3
      BY <2>9, <2>23, <3>1 DEF BitsDiffer
    <3> QED
      BY <2>4, <2>18, <3>2 DEF IsNearest
  <2> QED
    BY <2>3, <2>9, <2>20, <2>23, <2>24, <2>25
<1> QED
  BY <1>1, JobSpec, PTL

-----------------------------------------------------------------------------
(* Hamming(15,11).                                                         *)

\* The syndrome of a sum is the sum of the syndromes.
LEMMA HammingSum ==
  ASSUME NEW a, NEW b, IsFiniteSet(a), IsFiniteSet(b)
  PROVE  HammingSyndrome(SymDiff(a, b)) = SymDiff(HammingSyndrome(a), HammingSyndrome(b))
<1>1. PICK c : c = SymDiff(a, b)
  OBVIOUS
<1>2. \A w, g : g \in HammingSyndrome(w) <=> g \in 1..4 /\ OddWeight(w \cap hammingGenerator[g])
  BY DEF HammingSyndrome
<1>3. ASSUME NEW g \in 1..4
      PROVE  g \in HammingSyndrome(c) <=> ~(g \in HammingSyndrome(a) <=> g \in HammingSyndrome(b))
  <2>1. PICK gen : gen = hammingGenerator[g]
    OBVIOUS
  <2>2. PICK p : p = a \cap gen
    OBVIOUS
  <2>3. PICK q : q = b \cap gen
    OBVIOUS
  <2>4. c \cap gen = SymDiff(p, q)
    BY <1>1, <2>2, <2>3 DEF SymDiff
  <2>5. p \subseteq a /\ q \subseteq b
    BY <2>2, <2>3
  <2>6. IsFiniteSet(p) /\ IsFiniteSet(q)
    BY <2>5, FS_Subset
  <2>7. OddWeight(SymDiff(p, q)) <=> ~(OddWeight(p) <=> OddWeight(q))
    BY <2>6, DiffSize
  <2>8. g \in HammingSyndrome(a) <=> OddWeight(p)
    BY <1>2, <2>1, <2>2
  <2>9. g \in HammingSyndrome(b) <=> OddWeight(q)
    BY <1>2, <2>1, <2>3
  <2>10. g \in HammingSyndrome(c) <=> OddWeight(SymDiff(p, q))
    BY <1>2, <2>1, <2>4
  <2> QED
    BY <2>7, <2>8, <2>9, <2>10
<1>4. ASSUME NEW g PROVE g \in HammingSyndrome(c) <=> g \in SymDiff(HammingSyndrome(a), HammingSyndrome(b))
  <2>1. g \in SymDiff(HammingSyndrome(a), HammingSyndrome(b))
          <=> ~(g \in HammingSyndrome(a) <=> g \in HammingSyndrome(b))
    BY DEF SymDiff
  <2>2. CASE g \in 1..4
    BY <1>3, <2>1, <2>2
  <2>3. CASE g \notin 1..4
    BY <1>2, <2>1, <2>3
  <2> QED
    BY <2>2, <2>3
<1> QED
  BY <1>1, <1>4

\* Of one position it is the rows that position is in.
LEMMA HammingOfOne ==
  ASSUME NEW p
  PROVE  HammingSyndrome({p}) = {g \in 1..4 : p \in hammingGenerator[g]}
<1>1. OddWeight({p}) /\ ~OddWeight({})
  <2>1. Cardinality({p}) = 1
    BY FS_Singleton
  <2>2. Cardinality({}) = 0
    BY FS_EmptySet
  <2> QED
    BY <2>1, <2>2 DEF OddWeight
<1>2. \A gen : {p} \cap gen = IF p \in gen THEN {p} ELSE {}
  OBVIOUS
<1>3. \A g : OddWeight({p} \cap hammingGenerator[g]) <=> p \in hammingGenerator[g]
  BY <1>1, <1>2
<1> QED
  BY <1>3 DEF HammingSyndrome

\* No two positions are in the same rows, and none is in none.
LEMMA HammingColumns ==
  /\ \A p \in 0..14 : HammingSyndrome({p}) # {}
  /\ \A p, q \in 0..14 : HammingSyndrome({p}) = HammingSyndrome({q}) => p = q
<1>1. /\ hammingGenerator[1] = {14, 13, 12, 11, 10, 9, 8, 3} /\ hammingGenerator[2] = {14, 13, 12, 11, 7, 6, 5, 2}
      /\ hammingGenerator[3] = {14, 13, 10, 9, 7, 6, 4, 1} /\ hammingGenerator[4] = {14, 12, 10, 8, 7, 5, 4, 0}
  BY DEF hammingGenerator
<1>2. \A p, g : g \in HammingSyndrome({p}) <=> g \in 1..4 /\ p \in hammingGenerator[g]
  BY HammingOfOne
<1>3. 1 \in 1..4 /\ 2 \in 1..4 /\ 3 \in 1..4 /\ 4 \in 1..4
  OBVIOUS
<1>4. \A p : /\ (1 \in HammingSyndrome({p}) <=> p \in {14, 13, 12, 11, 10, 9, 8, 3})
             /\ (2 \in HammingSyndrome({p}) <=> p \in {14, 13, 12, 11, 7, 6, 5, 2})
             /\ (3 \in HammingSyndrome({p}) <=> p \in {14, 13, 10, 9, 7, 6, 4, 1})
             /\ (4 \in HammingSyndrome({p}) <=> p \in {14, 12, 10, 8, 7, 5, 4, 0})
  BY <1>1, <1>2, <1>3
<1>5. ASSUME NEW p \in 0..14 PROVE HammingSyndrome({p}) # {}
  <2>1. \/ p \in {14, 13, 12, 11, 10, 9, 8, 3} \/ p \in {14, 13, 12, 11, 7, 6, 5, 2}
        \/ p \in {14, 13, 10, 9, 7, 6, 4, 1} \/ p \in {14, 12, 10, 8, 7, 5, 4, 0}
    OBVIOUS
  <2> QED
    BY <1>4, <2>1
<1>6. ASSUME NEW p \in 0..14, NEW q \in 0..14, HammingSyndrome({p}) = HammingSyndrome({q})
      PROVE  p = q
  <2>1. p \in {14, 13, 12, 11, 10, 9, 8, 3} <=> q \in {14, 13, 12, 11, 10, 9, 8, 3}
    BY <1>4, <1>6, Zenon
  <2>2. p \in {14, 13, 12, 11, 7, 6, 5, 2} <=> q \in {14, 13, 12, 11, 7, 6, 5, 2}
    BY <1>4, <1>6, Zenon
  <2>3. p \in {14, 13, 10, 9, 7, 6, 4, 1} <=> q \in {14, 13, 10, 9, 7, 6, 4, 1}
    BY <1>4, <1>6, Zenon
  <2>4. p \in {14, 12, 10, 8, 7, 5, 4, 0} <=> q \in {14, 12, 10, 8, 7, 5, 4, 0}
    BY <1>4, <1>6, Zenon
  <2> QED
    BY <2>1, <2>2, <2>3, <2>4
<1> QED
  BY <1>5, <1>6

\* The parity bits are each in one row.
LEMMA HammingOfParity ==
  ASSUME NEW y, y \subseteq 0..3
  PROVE  \A g \in 1..4 : g \in HammingSyndrome(y) <=> 4 - g \in y
<1>1. ASSUME NEW g \in 1..4, NEW i \in 0..3 PROVE i \in hammingGenerator[g] <=> i = 4 - g
  <2>1. g = 1 \/ g = 2 \/ g = 3 \/ g = 4
    OBVIOUS
  <2>2. i = 0 \/ i = 1 \/ i = 2 \/ i = 3
    OBVIOUS
  <2>3. CASE g = 1
    <3>1. hammingGenerator[g] = {14, 13, 12, 11, 10, 9, 8, 3}
      BY <2>3 DEF hammingGenerator
    <3> QED
      BY <2>3, <3>1
  <2>4. CASE g = 2
    <3>1. hammingGenerator[g] = {14, 13, 12, 11, 7, 6, 5, 2}
      BY <2>4 DEF hammingGenerator
    <3> QED
      BY <2>4, <3>1
  <2>5. CASE g = 3
    <3>1. hammingGenerator[g] = {14, 13, 10, 9, 7, 6, 4, 1}
      BY <2>5 DEF hammingGenerator
    <3> QED
      BY <2>5, <3>1
  <2>6. CASE g = 4
    <3>1. hammingGenerator[g] = {14, 12, 10, 8, 7, 5, 4, 0}
      BY <2>6 DEF hammingGenerator
    <3> QED
      BY <2>6, <3>1
  <2> QED
    BY <2>1, <2>3, <2>4, <2>5, <2>6
<1>2. OddWeight({}) <=> FALSE
  <2>1. Cardinality({}) = 0
    BY FS_EmptySet
  <2> QED
    BY <2>1 DEF OddWeight
<1>3. \A p : OddWeight({p})
  <2>1. \A p : Cardinality({p}) = 1
    BY FS_Singleton
  <2> QED
    BY <2>1 DEF OddWeight
<1>4. ASSUME NEW g \in 1..4 PROVE g \in HammingSyndrome(y) <=> 4 - g \in y
  <2>1. 4 - g \in 0..3
    OBVIOUS
  <2>2. \A i : i \in y \cap hammingGenerator[g] <=> i \in y /\ i = 4 - g
    BY <1>1
  <2>3. y \cap hammingGenerator[g] = IF 4 - g \in y THEN {4 - g} ELSE {}
    BY <2>2
  <2>4. g \in HammingSyndrome(y) <=> OddWeight(y \cap hammingGenerator[g])
    BY DEF HammingSyndrome
  <2> QED
    BY <1>2, <1>3, <2>3, <2>4
<1> QED
  BY <1>4

-----------------------------------------------------------------------------
\* The data of a Hamming word.
UpperOf(w) == {j - 4 : j \in {b \in w : b >= 4}}

\* There is a word of that data with no syndrome.
IsHammingWord(w, data) == w \subseteq 0..14 /\ HammingSyndrome(w) = {} /\ UpperOf(w) = data

LEMMA HammingWordIs ==
  ASSUME NEW data, data \subseteq 0..10
  PROVE  IsHammingWord(HammingWord(data), data)
<1>1. PICK s : s = Shift(data, 4) /\ s \subseteq 4..14
  <2>1. Shift(data, 4) \subseteq 4..14
    BY DEF Shift
  <2> QED
    BY <2>1
<1>2. PICK S : S = HammingSyndrome(s) /\ S \subseteq 1..4
  BY DEF HammingSyndrome
<1>3. PICK p : p = {i \in 0..3 : 4 - i \in S} /\ p \subseteq 0..3
  BY Zenon
<1>4. HammingSyndrome(p) = S
  <2>1. \A g \in 1..4 : g \in HammingSyndrome(p) <=> 4 - g \in p
    BY <1>3, HammingOfParity
  <2>2. \A g \in 1..4 : 4 - g \in 0..3 /\ 4 - (4 - g) = g
    OBVIOUS
  <2>3. \A g \in 1..4 : 4 - g \in p <=> g \in S
    BY <1>3, <2>2
  <2>4. HammingSyndrome(p) \subseteq 1..4
    BY DEF HammingSyndrome
  <2> QED
    BY <1>2, <2>1, <2>3, <2>4
<1>5. s \cup p = SymDiff(s, p)
  BY <1>1, <1>3 DEF SymDiff
<1>6. IsFiniteSet(s) /\ IsFiniteSet(p)
  <2>1. s \subseteq 0..14 /\ p \subseteq 0..14
    BY <1>1, <1>3
  <2> QED
    BY <2>1, WordFinite
<1>7. HammingSyndrome(s \cup p) = {}
  <2>1. HammingSyndrome(SymDiff(s, p)) = SymDiff(S, S)
    BY <1>2, <1>4, <1>6, HammingSum
  <2>2. SymDiff(S, S) = {}
    BY DEF SymDiff
  <2> QED
    BY <1>5, <2>1, <2>2
<1>8. PICK W : W = {s \cup q : q \in SUBSET (0..3)}
  OBVIOUS
<1>9. s \cup p \in W
  BY <1>3, <1>8
<1>10. HammingWord(data) = CHOOSE w \in W : HammingSyndrome(w) = {}
  BY <1>1, <1>8 DEF HammingWord
<1>11. PICK w \in W : w = HammingWord(data) /\ HammingSyndrome(w) = {}
  <2>1. \E w \in W : HammingSyndrome(w) = {}
    BY <1>7, <1>9
  <2> QED
    BY <1>10, <2>1
<1>12. PICK q \in SUBSET (0..3) : w = s \cup q
  BY <1>8
<1>13. w \subseteq 0..14
  <2>1. s \subseteq 0..14 /\ q \subseteq 0..14
    BY <1>1
  <2> QED
    BY <1>12, <2>1
<1>14. UpperOf(w) = data
  <2>1. {b \in w : b >= 4} = s
    <3>1. (\A b \in s : b >= 4) /\ \A b \in q : ~(b >= 4)
      BY <1>1
    <3> QED
      BY <1>12, <3>1
  <2>2. {j - 4 : j \in s} = data
    <3>1. \A i \in data : (i + 4) - 4 = i
      OBVIOUS
    <3> QED
      BY <1>1, <3>1 DEF Shift
  <2> QED
    BY <2>1, <2>2 DEF UpperOf
<1> QED
  BY <1>11, <1>13, <1>14 DEF IsHammingWord

\* One bit that is wrong is turned back, and none is turned when none is (mbe/ecc.go).
THEOREM Hamming1511Corrects ==
  ASSUME NEW c, c \subseteq 0..14, HammingSyndrome(c) = {},
         NEW w, w \subseteq 0..14, BitsDiffer(c, w) <= 1
  PROVE  Hamming1511(w).out = c
<1>1. PICK e : e = SymDiff(c, w) /\ e \subseteq 0..14 /\ w = SymDiff(c, e) /\ c = SymDiff(w, e)
  <2>1. PICK e : e = SymDiff(c, w)
    OBVIOUS
  <2>2. e \subseteq 0..14
    BY <2>1 DEF SymDiff
  <2>3. w = SymDiff(c, e) /\ c = SymDiff(w, e)
    BY <2>1 DEF SymDiff
  <2> QED
    BY <2>1, <2>2, <2>3
<1>2. IsFiniteSet(e) /\ Cardinality(e) \in Nat /\ Cardinality(e) <= 1 /\ IsFiniteSet(c)
  BY <1>1, WordFinite DEF BitsDiffer
<1>3. PICK s : s = HammingSyndrome(w) /\ s = HammingSyndrome(e)
  <2>1. HammingSyndrome(w) = SymDiff(HammingSyndrome(c), HammingSyndrome(e))
    BY <1>1, <1>2, HammingSum
  <2>2. \A x : SymDiff({}, x) = x
    BY DEF SymDiff
  <2> QED
    BY <2>1, <2>2
<1>4. Hamming1511(w).out = SymDiff(w, {p \in 0..14 : s # {} /\ HammingSyndrome({p}) = s})
  BY <1>3 DEF Hamming1511
<1>5. Cardinality(e) = 0 \/ Cardinality(e) = 1
  BY <1>2
<1>6. CASE Cardinality(e) = 0
  <2>1. e = {}
    BY <1>2, <1>6, FS_EmptySet
  <2>2. HammingSyndrome({}) = {}
    <3>1. \A g \in 1..4 : g \in HammingSyndrome({}) <=> 4 - g \in {}
      BY HammingOfParity
    <3>2. HammingSyndrome({}) \subseteq 1..4
      BY DEF HammingSyndrome
    <3> QED
      BY <3>1, <3>2
  <2>3. {p \in 0..14 : s # {} /\ HammingSyndrome({p}) = s} = e
    BY <1>3, <2>1, <2>2
  <2> QED
    BY <1>1, <1>4, <2>3
<1>7. CASE Cardinality(e) = 1
  <2>1. PICK x : e = {x}
    BY <1>2, <1>7, FS_Singleton
  <2>2. x \in 0..14
    BY <1>1, <2>1
  <2>3. s # {} /\ HammingSyndrome({x}) = s
    BY <1>3, <2>1, <2>2, HammingColumns
  <2>4. {p \in 0..14 : s # {} /\ HammingSyndrome({p}) = s} = e
    BY <2>1, <2>2, <2>3, HammingColumns
  <2> QED
    BY <1>1, <1>4, <2>4
<1> QED
  BY <1>5, <1>6, <1>7

-----------------------------------------------------------------------------
\* What a row is masked by, of a frame whose first row has that data.
RowMask(d, r) == OnRow(PseudoRandom(SeedOf(d), 114), IMBERowStart[r], IF r < 4 THEN 23 ELSE 15)

LEMMA IMBERows ==
  ASSUME NEW fr
  PROVE  /\ DOMAIN demodulateImbe7200x4400Data(fr) = 0..7
         /\ \A r \in 0..7 : demodulateImbe7200x4400Data(fr)[r] =
                IF r \in {0, 7} THEN fr[r] ELSE SymDiff(fr[r], RowMask(DataOf(fr[0]), r))
<1>1. PICK ones : ones = PseudoRandom(SeedOf(DataOf(fr[0])), 114)
  OBVIOUS
<1>2. demodulateImbe7200x4400Data(fr) =
        [i \in 0..7 |-> IF i \in {0, 7} THEN fr[i]
                        ELSE SymDiff(fr[i], OnRow(ones, IMBERowStart[i], IF i < 4 THEN 23 ELSE 15))]
  BY <1>1 DEF demodulateImbe7200x4400Data
<1>3. \A r : RowMask(DataOf(fr[0]), r) = OnRow(ones, IMBERowStart[r], IF r < 4 THEN 23 ELSE 15)
  BY <1>1 DEF RowMask
<1> QED
  BY <1>2, <1>3

\* How long a row is.
RowTop(r) == IF r < 4 THEN 22 ELSE 14

LEMMA RowMaskType ==
  ASSUME NEW d, NEW r \in 0..7
  PROVE  RowMask(d, r) \subseteq 0..RowTop(r)
<1>1. CASE r < 4
  <2>1. RowMask(d, r) \subseteq 0..23-1
    BY <1>1, OnRowType DEF RowMask
  <2> QED
    BY <1>1, <2>1 DEF RowTop
<1>2. CASE ~(r < 4)
  <2>1. RowMask(d, r) \subseteq 0..15-1
    BY <1>2, OnRowType DEF RowMask
  <2> QED
    BY <1>2, <2>1 DEF RowTop
<1> QED
  BY <1>1, <1>2

\* Masked twice, two rows differ as they did.
LEMMA MaskedTwice ==
  ASSUME NEW a, NEW b, NEW mask
  PROVE  BitsDiffer(a, SymDiff(b, mask)) = BitsDiffer(SymDiff(a, mask), b)
<1>1. SymDiff(a, SymDiff(b, mask)) = SymDiff(SymDiff(a, mask), b)
  BY DEF SymDiff
<1> QED
  BY <1>1 DEF BitsDiffer

\* The rows of a frame before it is masked.
IsRow(r, row, data) ==
    /\ row \subseteq 0..RowTop(r)
    /\ r < 4 => row = golayEncode(data) /\ data \subseteq 0..11 /\ DataOf(row) = data
    /\ r \in 4..6 => IsHammingWord(row, data)
    /\ r = 7 => row = data

LEMMA IMBEPlain ==
  ASSUME NEW u \in IMBEWords, NEW r \in 0..7
  PROVE  IsRow(r, IF r < 4 THEN golayEncode(u[r + 1]) ELSE IF r < 7 THEN HammingWord(u[r + 1]) ELSE u[8], u[r + 1])
<1>1. PICK data : data = u[r + 1]
  OBVIOUS
<1>2. r < 4 => data \subseteq 0..11
  BY <1>1 DEF IMBEWords
<1>3. r \in 4..6 => data \subseteq 0..10
  BY <1>1 DEF IMBEWords
<1>4. r = 7 => data \subseteq 0..6 /\ data = u[8]
  BY <1>1 DEF IMBEWords
<1>5. CASE r < 4
  <2>1. golayEncode(data) \subseteq 0..22 /\ DataOf(golayEncode(data)) = data
    BY <1>2, <1>5, GolayEncoded
  <2>2. r \notin 4..6 /\ r # 7
    BY <1>5
  <2> QED
    BY <1>1, <1>2, <1>5, <2>1, <2>2 DEF IsRow, RowTop
<1>6. CASE r \in 4..6
  <2>1. IsHammingWord(HammingWord(data), data)
    BY <1>3, <1>6, HammingWordIs
  <2>2. ~(r < 4) /\ r < 7 /\ r # 7
    BY <1>6
  <2> QED
    BY <1>1, <2>1, <2>2 DEF IsRow, RowTop, IsHammingWord
<1>7. CASE r = 7
  <2>1. u[8] \subseteq 0..14 /\ ~(r < 4) /\ ~(r < 7) /\ r \notin 4..6
    BY <1>4, <1>7
  <2> QED
    BY <1>1, <1>4, <1>7, <2>1 DEF IsRow, RowTop
<1> QED
  BY <1>5, <1>6, <1>7

\* Each row by its code.
LEMMA RowDecodes ==
  ASSUME NEW r \in 0..6, NEW row, NEW data, IsRow(r, row, data),
         NEW w, w \subseteq 0..RowTop(r), BitsDiffer(row, w) <= (IF r < 4 THEN 3 ELSE 1)
  PROVE  /\ r < 4 => DataOf(Golay2312(w).out) = data
         /\ r >= 4 => UpperOf(Hamming1511(w).out) = data
<1>1. CASE r < 4
  <2>1. w \subseteq 0..22
    BY <1>1 DEF RowTop
  <2>2. IsNearest(w, DataOf(Golay2312(w).out))
    BY <2>1, MbeGolayDecodes
  <2>3. row = golayEncode(data) /\ data \subseteq 0..11
    BY <1>1 DEF IsRow
  <2>4. BitsDiffer(golayEncode(data), w) <= 3
    BY <1>1, <2>3
  <2>5. data = DataOf(Golay2312(w).out)
    BY <2>2, <2>3, <2>4 DEF IsNearest
  <2> QED
    BY <1>1, <2>5
<1>2. CASE r \in 4..6
  <2>1. w \subseteq 0..14 /\ ~(r < 4)
    BY <1>2 DEF RowTop
  <2>2. IsHammingWord(row, data)
    BY <1>2 DEF IsRow
  <2>3. BitsDiffer(row, w) <= 1
    BY <2>1
  <2>4. row \subseteq 0..14 /\ HammingSyndrome(row) = {} /\ UpperOf(row) = data
    BY <2>2 DEF IsHammingWord
  <2>5. Hamming1511(w).out = row
    BY <2>1, <2>3, <2>4, Hamming1511Corrects
  <2> QED
    BY <2>1, <2>4, <2>5
<1> QED
  BY <1>1, <1>2

\* Of an IMBE frame: with up to three errors in each Golay row and one in each Hamming row,
\* the data of all eight is what was sent, although the mask of the other rows is only known
\* once the first is decoded (mbe/imbe.go, mbe/ecc.go).
IMBERight == Decoded /\ job.code = "IMBE" => Corrected

\* The voice decoder's IMBE frame is what was sent, with up to three errors in each Golay row
\* and one in each Hamming row (mbe/imbe.go, mbe/ecc.go).
THEOREM IMBECode == CSpec => []IMBERight
<1>1. OfTheJob => IMBERight
  <2> SUFFICES ASSUME OfTheJob, Decoded, job.code = "IMBE" PROVE Corrected
    BY DEF IMBERight
  <2>1. /\ job \in Jobs /\ sent = Encode(job.code, job.data)
        /\ received = Disturbed(job.code, sent, job.noise) /\ result = Decode(job.code, received)
    BY DEF OfTheJob, Decoded
  <2>2. PICK noise, u : /\ noise = job.noise /\ u = job.data /\ u \in IMBEWords
                        /\ \A r \in DOMAIN noise : noise[r] \subseteq 0..RowTop(r)
    <3>1. WellFormed(job)
      BY <2>1, JobsAssumption
    <3>2. \A r \in DOMAIN job.noise : job.noise[r] \subseteq 0..(IF r < 4 THEN 22 ELSE 14)
      BY <3>1 DEF WellFormed
    <3> QED
      BY <3>1, <3>2 DEF WellFormed, RowTop
  <2>3. PICK plain : plain = [r \in 0..7 |-> IF r < 4 THEN golayEncode(u[r + 1])
                                             ELSE IF r < 7 THEN HammingWord(u[r + 1]) ELSE u[8]]
    OBVIOUS
  <2>4. \A r \in 0..7 : IsRow(r, plain[r], u[r + 1])
    BY <2>2, <2>3, IMBEPlain
  <2>5. sent = demodulateImbe7200x4400Data(plain)
    <3>1. sent = SendIMBE(u)
      BY <2>1, <2>2 DEF Encode, acchSpecFor
    <3> QED
      BY <2>3, <3>1 DEF SendIMBE, Table
  <2>6. DataOf(plain[0]) = u[1]
    <3>1. 0 \in 0..7 /\ 0 < 4
      OBVIOUS
    <3>2. IsRow(0, plain[0], u[0 + 1])
      BY <2>4, <3>1
    <3>3. DataOf(plain[0]) = u[0 + 1]
      BY <3>1, <3>2 DEF IsRow
    <3> QED
      BY <3>3
  <2>7. /\ DOMAIN sent = 0..7
        /\ \A r \in 0..7 : sent[r] = IF r \in {0, 7} THEN plain[r] ELSE SymDiff(plain[r], RowMask(u[1], r))
    BY <2>5, <2>6, IMBERows
  <2>8. received = [r \in 0..7 |-> IF r \in DOMAIN noise THEN SymDiff(sent[r], noise[r]) ELSE sent[r]]
    <3>1. received = [r \in DOMAIN sent |-> IF r \in DOMAIN noise THEN SymDiff(sent[r], noise[r]) ELSE sent[r]]
      BY <2>1, <2>2 DEF Disturbed, Table, Soft, ByBlock, ByWord, ByBit
    <3> QED
      BY <2>7, <3>1
  <2>9. \A r \in 0..7 : received[r] \subseteq 0..RowTop(r)
    <3> TAKE r \in 0..7
    <3>1. plain[r] \subseteq 0..RowTop(r)
      BY <2>4 DEF IsRow
    <3>2. RowMask(u[1], r) \subseteq 0..RowTop(r)
      BY RowMaskType
    <3>3. sent[r] \subseteq 0..RowTop(r)
      BY <2>7, <3>1, <3>2 DEF SymDiff
    <3> QED
      BY <2>2, <2>8, <3>3 DEF SymDiff
  <2>10. PICK o0 : o0 = Golay2312(received[0]).out
    OBVIOUS
  <2>11. PICK fr : fr = [received EXCEPT ![0] = o0]
    OBVIOUS
  <2>12. fr[0] = o0 /\ \A r \in 1..7 : fr[r] = received[r]
    BY <2>8, <2>11
  <2>13. PICK rows : rows = demodulateImbe7200x4400Data(fr)
    OBVIOUS
  <2>14. /\ rows[7] = received[7]
         /\ \A r \in 1..6 : rows[r] = SymDiff(received[r], RowMask(DataOf(o0), r))
    <3>1. \A r \in 0..7 : rows[r] = IF r \in {0, 7} THEN fr[r] ELSE SymDiff(fr[r], RowMask(DataOf(o0), r))
      BY <2>12, <2>13, IMBERows
    <3>2. \A r \in 1..6 : r \in 0..7 /\ r \notin {0, 7} /\ r \in 1..7
      OBVIOUS
    <3>3. 7 \in 0..7 /\ 7 \in {0, 7} /\ 7 \in 1..7
      OBVIOUS
    <3>4. rows[7] = fr[7]
      BY <3>1, <3>3
    <3> QED
      BY <2>12, <3>1, <3>2, <3>3, <3>4
  <2>15. PICK data : /\ data = IMBEFECDecode(received).data
                     /\ data = [i \in 0..7 |->
                          IF i = 0 THEN DataOf(o0)
                          ELSE IF i < 4 THEN DataOf(Golay2312(rows[i]).out)
                          ELSE IF i < 7 THEN UpperOf(Hamming1511(rows[i]).out) ELSE rows[7]]
    <3>1. PICK code : code = [i \in 1..6 |-> IF i < 4 THEN Golay2312(rows[i]) ELSE Hamming1511(rows[i])]
      OBVIOUS
    <3>2. IMBEFECDecode(received).data =
            [i \in 0..7 |-> IF i = 0 THEN DataOf(o0)
                            ELSE IF i < 4 THEN DataOf(code[i].out)
                            ELSE IF i < 7 THEN UpperOf(code[i].out) ELSE rows[7]]
      BY <2>10, <2>11, <2>13, <3>1 DEF IMBEFECDecode, Table, UpperOf
    <3>3. \A i \in 1..6 : code[i] = IF i < 4 THEN Golay2312(rows[i]) ELSE Hamming1511(rows[i])
      BY <3>1
    <3>4. \A i \in 0..7 : (i # 0 /\ i < 4 => code[i] = Golay2312(rows[i]))
                          /\ (i # 0 /\ ~(i < 4) /\ i < 7 => code[i] = Hamming1511(rows[i]))
      BY <3>3
    <3> QED
      BY <3>2, <3>4
  <2>16. result.ok /\ result.frame.data = data
    <3>1. result = [ok |-> TRUE, frame |-> IMBEFECDecode(received)]
      BY <2>1 DEF Decode, acchSpecFor
    <3> QED
      BY <2>15, <3>1
  <2>17. \A d : DataIn("IMBE", d) = [r \in 1..8 |-> d.frame.data[r - 1]]
    BY DEF DataIn, acchSpecFor
  <2>18. Meant("IMBE", u) = u
    BY DEF Meant
  <2> SUFFICES ASSUME Near("IMBE", sent, received) PROVE [r \in 1..8 |-> data[r - 1]] = u
    <3>1. [r \in 1..8 |-> data[r - 1]] = u => DataIn(job.code, result) = Meant(job.code, job.data)
      <4>1. DataIn(job.code, result) = DataIn("IMBE", result) /\ Meant(job.code, job.data) = u
        BY <2>2, <2>18
      <4>2. DataIn("IMBE", result) = [r \in 1..8 |-> result.frame.data[r - 1]]
        BY <2>17
      <4>3. [r \in 1..8 |-> result.frame.data[r - 1]] = [r \in 1..8 |-> data[r - 1]]
        BY <2>16
      <4> QED
        BY <4>1, <4>2, <4>3
    <3>2. job.code # "PDU"
      OBVIOUS
    <3> QED
      BY <2>16, <3>1, <3>2 DEF Corrected
  <2>19. \A r \in 0..7 : BitsDiffer(sent[r], received[r]) <= (IF r < 4 THEN 3 ELSE IF r < 7 THEN 1 ELSE 0)
    BY DEF Near, Radius
  <2>20. DataOf(o0) = u[1]
    <3>1. 0 \in 0..7 /\ 0 \in 0..6 /\ 0 < 4 /\ 0 \in {0, 7}
      OBVIOUS
    <3>2. sent[0] = plain[0]
      BY <2>7, <3>1
    <3>3. BitsDiffer(plain[0], received[0]) <= (IF 0 < 4 THEN 3 ELSE 1)
      BY <2>19, <3>1, <3>2
    <3>4. IsRow(0, plain[0], u[0 + 1]) /\ received[0] \subseteq 0..RowTop(0)
      BY <2>4, <2>9, <3>1
    <3>5. DataOf(Golay2312(received[0]).out) = u[0 + 1]
      BY <3>1, <3>3, <3>4, RowDecodes
    <3> QED
      BY <2>10, <3>5
  <2>21. ASSUME NEW r \in 1..6 PROVE data[r] = u[r + 1]
    <3>1. r \in 0..7 /\ r \in 0..6 /\ r \notin {0, 7} /\ r # 0 /\ r < 7
      OBVIOUS
    <3>2. PICK mask : mask = RowMask(u[1], r) /\ mask \subseteq 0..RowTop(r)
      BY <3>1, RowMaskType
    <3>3. sent[r] = SymDiff(plain[r], mask) /\ rows[r] = SymDiff(received[r], mask)
      BY <2>7, <2>14, <2>20, <3>1, <3>2
    <3>4. BitsDiffer(plain[r], rows[r]) <= (IF r < 4 THEN 3 ELSE 1)
      BY <2>19, <3>1, <3>3, MaskedTwice
    <3>5. rows[r] \subseteq 0..RowTop(r)
      BY <2>9, <3>1, <3>2, <3>3 DEF SymDiff
    <3>6. IsRow(r, plain[r], u[r + 1])
      BY <2>4, <3>1
    <3>7. /\ r < 4 => DataOf(Golay2312(rows[r]).out) = u[r + 1]
          /\ r >= 4 => UpperOf(Hamming1511(rows[r]).out) = u[r + 1]
      BY <3>1, <3>4, <3>5, <3>6, RowDecodes
    <3> QED
      BY <2>15, <3>1, <3>7
  <2>22. data[7] = u[7 + 1]
    <3>1. sent[7] = plain[7] /\ plain[7] = u[7 + 1] /\ plain[7] \subseteq 0..14
      <4>1. 7 \in 0..7 /\ 7 \in {0, 7} /\ ~(7 < 4)
        OBVIOUS
      <4>2. IsRow(7, plain[7], u[7 + 1])
        BY <2>4, <4>1
      <4> QED
        BY <2>7, <4>1, <4>2 DEF IsRow, RowTop
    <3>2. received[7] \subseteq 0..14
      <4>1. 7 \in 0..7 /\ ~(7 < 4)
        OBVIOUS
      <4> QED
        BY <2>9, <4>1 DEF RowTop
    <3>3. PICK e : e = SymDiff(sent[7], received[7]) /\ e \subseteq 0..14
      BY <3>1, <3>2 DEF SymDiff
    <3>4. Cardinality(e) <= 0
      BY <2>19, <3>3 DEF BitsDiffer
    <3>5. IsFiniteSet(e) /\ Cardinality(e) \in Nat
      BY <3>3, WordFinite
    <3>6. e = {}
      <4>1. Cardinality(e) = 0
        BY <3>4, <3>5
      <4> QED
        BY <3>5, <4>1, FS_EmptySet
    <3>7. sent[7] = received[7]
      BY <3>3, <3>6 DEF SymDiff
    <3> QED
      BY <2>14, <2>15, <3>1, <3>7
  <2>23. \A r \in 0..7 : data[r] = u[r + 1]
    <3>1. data[0] = u[0 + 1]
      BY <2>15, <2>20
    <3>2. \A r \in 0..7 : r = 0 \/ r = 7 \/ r \in 1..6
      OBVIOUS
    <3> QED
      BY <2>21, <2>22, <3>1, <3>2
  <2>24. \A r \in 1..8 : r - 1 \in 0..7 /\ (r - 1) + 1 = r
    OBVIOUS
  <2>25. \A r \in 1..8 : data[r - 1] = u[r]
    BY <2>23, <2>24
  <2>26. u \in [1..8 -> SUBSET (0..11)]
    BY <2>2 DEF IMBEWords
  <2> QED
    BY <2>25, <2>26
<1> QED
  BY <1>1, JobSpec, PTL

-----------------------------------------------------------------------------
(* CRC-9.                                                                  *)

\* The bits that count, by their entry in the table, and the checksum that is sent.
CountedAs(i) == IF i < 7 THEN i ELSE i - 9
Counted(w)   == {CountedAs(i) : i \in w \ 7..15}
InField(w)   == {15 - i : i \in w \cap 7..15}
Calculated(w) == XorOf(crc9Checksums, 9, Counted(w))

LEMMA CheckIs ==
  ASSUME NEW w
  PROVE  checkCRC9(w) <=> SymDiff(Calculated(w), InField(w)) \in {{}, 0..8}
BY DEF checkCRC9, Calculated, Counted, CountedAs, InField

\* Each bit that counts has an entry of its own.
LEMMA CountedOnce ==
  /\ \A i \in (0..143) \ (7..15) : CountedAs(i) \in 0..134
  /\ \A i, j \in (0..143) \ (7..15) : CountedAs(i) = CountedAs(j) => i = j
BY DEF CountedAs

\* A bit that is turned is one of the two sums that is another.
LEMMA OneTurned ==
  ASSUME NEW w, w \subseteq 0..143, NEW i \in 0..143
  PROVE  /\ i \in 7..15 => /\ Counted(SymDiff(w, {i})) = Counted(w)
                           /\ InField(SymDiff(w, {i})) = SymDiff(InField(w), {15 - i})
         /\ i \notin 7..15 => /\ Counted(SymDiff(w, {i})) = SymDiff(Counted(w), {CountedAs(i)})
                              /\ InField(SymDiff(w, {i})) = InField(w)
<1>1. PICK v : v = SymDiff(w, {i}) /\ v \subseteq 0..143
  BY DEF SymDiff
<1>2. \A j : j \in v <=> ~(j \in w <=> j = i)
  BY <1>1 DEF SymDiff
<1>3. CASE i \in 7..15
  <2>1. v \ 7..15 = w \ 7..15
    BY <1>2, <1>3
  <2>2. ASSUME NEW x PROVE x \in InField(v) <=> x \in SymDiff(InField(w), {15 - i})
    <3>1. \A u : x \in InField(u) <=> \E j \in u \cap 7..15 : x = 15 - j
      BY DEF InField
    <3>2. \A j \in 7..15 : x = 15 - j => \A k \in 7..15 : x = 15 - k => k = j
      OBVIOUS
    <3>3. CASE \E j \in 7..15 : x = 15 - j
      <4>1. PICK j \in 7..15 : x = 15 - j
        BY <3>3
      <4>2. \A u : x \in InField(u) <=> j \in u
        BY <3>1, <3>2, <4>1
      <4>3. x \in {15 - i} <=> j = i
        BY <1>3, <4>1
      <4>4. x \in SymDiff(InField(w), {15 - i}) <=> ~(x \in InField(w) <=> x \in {15 - i})
        BY DEF SymDiff
      <4> QED
        BY <1>2, <4>2, <4>3, <4>4
    <3>4. CASE ~\E j \in 7..15 : x = 15 - j
      <4>1. x \notin InField(v) /\ x \notin InField(w) /\ x # 15 - i
        BY <1>3, <3>1, <3>4
      <4> QED
        BY <4>1 DEF SymDiff
    <3> QED
      BY <3>3, <3>4
  <2>3. InField(v) = SymDiff(InField(w), {15 - i})
    BY <2>2
  <2> QED
    BY <1>1, <1>3, <2>1, <2>3 DEF Counted
<1>4. CASE i \notin 7..15
  <2>1. v \cap 7..15 = w \cap 7..15
    BY <1>2, <1>4
  <2>2. ASSUME NEW x PROVE x \in Counted(v) <=> x \in SymDiff(Counted(w), {CountedAs(i)})
    <3>1. \A u : x \in Counted(u) <=> \E j \in u \ 7..15 : x = CountedAs(j)
      BY DEF Counted
    <3>3. CASE \E j \in (0..143) \ (7..15) : x = CountedAs(j)
      <4>1. PICK j \in (0..143) \ (7..15) : x = CountedAs(j)
        BY <3>3
      <4>2. ASSUME NEW u, u \subseteq 0..143 PROVE x \in Counted(u) <=> j \in u
        <5>1. ASSUME NEW k \in u \ 7..15, x = CountedAs(k) PROVE k = j
          <6>1. k \in (0..143) \ (7..15)
            BY <4>2
          <6> QED
            BY <4>1, <5>1, <6>1, CountedOnce
        <5> QED
          BY <3>1, <4>1, <5>1
      <4>3. x \in {CountedAs(i)} <=> j = i
        BY <1>4, <4>1, CountedOnce
      <4>4. x \in SymDiff(Counted(w), {CountedAs(i)}) <=> ~(x \in Counted(w) <=> x \in {CountedAs(i)})
        BY DEF SymDiff
      <4> QED
        BY <1>1, <1>2, <4>2, <4>3, <4>4
    <3>4. CASE ~\E j \in (0..143) \ (7..15) : x = CountedAs(j)
      <4>1. x \notin Counted(v) /\ x \notin Counted(w) /\ x # CountedAs(i)
        BY <1>1, <1>4, <3>1, <3>4
      <4> QED
        BY <4>1 DEF SymDiff
    <3> QED
      BY <3>3, <3>4
  <2>3. Counted(v) = SymDiff(Counted(w), {CountedAs(i)})
    BY <2>2
  <2> QED
    BY <1>1, <1>4, <2>1, <2>3 DEF InField
<1> QED
  BY <1>3, <1>4

\* A block that is accepted is not once any one of its bits is turned, of the serial number,
\* of the checksum or of the data (crc9.go:36).
THEOREM CRC9FindsOne ==
  ASSUME NEW w, w \subseteq 0..143, checkCRC9(w), NEW i \in 0..143
  PROVE  ~checkCRC9(SymDiff(w, {i}))
<1>1. PICK v : v = SymDiff(w, {i})
  OBVIOUS
<1>2. PICK x : /\ x \subseteq 0..8 /\ x \notin {{}, 0..8}
               /\ SymDiff(Calculated(v), InField(v)) = SymDiff(SymDiff(Calculated(w), InField(w)), x)
  <2>1. CASE i \in 7..15
    <3>1. Calculated(v) = Calculated(w) /\ InField(v) = SymDiff(InField(w), {15 - i})
      BY <1>1, <2>1, OneTurned DEF Calculated
    <3>2. {15 - i} \subseteq 0..8 /\ {15 - i} # {} /\ {15 - i} # 0..8
      <4>1. 15 - i \in 0..8
        BY <2>1
      <4>2. \E k \in 0..8 : k # 15 - i
        BY <4>1
      <4> QED
        BY <4>1, <4>2
    <3>3. SymDiff(Calculated(w), SymDiff(InField(w), {15 - i})) = SymDiff(SymDiff(Calculated(w), InField(w)), {15 - i})
      BY DEF SymDiff
    <3> QED
      BY <3>1, <3>2, <3>3
  <2>2. CASE i \notin 7..15
    <3>1. PICK j \in 0..134 : j = CountedAs(i)
      BY <2>2, CountedOnce
    <3>2. PICK y : y = crc9Checksums[j] /\ y \subseteq 0..8 /\ y \notin {{}, 0..8}
      BY CRC9Entries
    <3>3. Counted(v) = SymDiff(Counted(w), {j}) /\ InField(v) = InField(w)
      BY <1>1, <2>2, <3>1, OneTurned
    <3>4. IsFiniteSet(Counted(w)) /\ IsFiniteSet({j})
      <4>1. Counted(w) \subseteq 0..134
        <5>1. \A k \in w \ 7..15 : k \in (0..143) \ (7..15)
          OBVIOUS
        <5> QED
          BY <5>1, CountedOnce DEF Counted
      <4> QED
        BY <4>1, WordFinite, FS_Singleton
    <3>5. Calculated(v) = SymDiff(Calculated(w), XorOf(crc9Checksums, 9, {j}))
      BY <3>3, <3>4, XorOfSum DEF Calculated
    <3>6. XorOf(crc9Checksums, 9, {j}) = y
      <4>1. crc9Checksums[j] \subseteq 0..9-1
        BY <3>2
      <4> QED
        BY <3>2, <4>1, XorOfOne
    <3>7. SymDiff(SymDiff(Calculated(w), y), InField(w)) = SymDiff(SymDiff(Calculated(w), InField(w)), y)
      BY DEF SymDiff
    <3> QED
      BY <3>2, <3>3, <3>5, <3>6, <3>7
  <2> QED
    BY <2>1, <2>2
<1>3. PICK r : r = SymDiff(Calculated(w), InField(w)) /\ (r = {} \/ r = 0..8)
  BY CheckIs
<1>4. SymDiff(r, x) # {} /\ SymDiff(r, x) # 0..8
  <2>1. CASE r = {}
    <3>1. SymDiff(r, x) = x
      BY <2>1 DEF SymDiff
    <3> QED
      BY <1>2, <3>1
  <2>2. CASE r = 0..8
    <3>1. SymDiff(r, x) = (0..8) \ x
      BY <1>2, <2>2 DEF SymDiff
    <3> QED
      BY <1>2, <3>1
  <2> QED
    BY <1>3, <2>1, <2>2
<1> QED
  BY <1>1, <1>2, <1>3, <1>4, CheckIs

\* There is a checksum that is accepted for every data, and a block that nothing happened to
\* gives that data.
CRC9Right == Decoded /\ job.code = "CRC9" => Corrected

\* A confirmed data block that arrives as it was sent is accepted, and its data is what was
\* sent (crc9.go:36).
THEOREM CRC9Code == CSpec => []CRC9Right
<1>1. OfTheJob => CRC9Right
  <2> SUFFICES ASSUME OfTheJob, Decoded, job.code = "CRC9" PROVE Corrected
    BY DEF CRC9Right
  <2>1. /\ job \in Jobs /\ sent = Encode(job.code, job.data)
        /\ received = Disturbed(job.code, sent, job.noise) /\ result = Decode(job.code, received)
    BY DEF OfTheJob, Decoded
  <2>2. PICK data : data = job.data /\ data \subseteq 0..127
    <3>1. WellFormed(job)
      BY <2>1, JobsAssumption
    <3> QED
      BY <3>1 DEF WellFormed
  <2>3. PICK s : s = Shift(data, 16) /\ s \subseteq 16..143
    <3>1. Shift(data, 16) \subseteq 16..143
      BY <2>2 DEF Shift
    <3> QED
      BY <3>1
  <2>4. PICK calc : calc = Calculated(s) /\ calc \subseteq 0..8
    <3>1. Calculated(s) \subseteq 0..9-1
      BY DEF Calculated, XorOf
    <3> QED
      BY <3>1
  <2>5. ASSUME NEW c \in SUBSET (0..8)
        PROVE  /\ (s \cup {7 + b : b \in c}) \ 7..15 = s
               /\ InField(s \cup {7 + b : b \in c}) = {8 - b : b \in c}
    <3>1. PICK f : f = {7 + b : b \in c}
      OBVIOUS
    <3>2. f \subseteq 7..15
      <4>1. \A b \in c : 7 + b \in 7..15
        OBVIOUS
      <4> QED
        BY <3>1, <4>1
    <3>3. (s \cup f) \ 7..15 = s /\ (s \cup f) \cap 7..15 = f
      <4>1. \A i \in s : i \notin 7..15
        BY <2>3
      <4> QED
        BY <3>2, <4>1
    <3>4. {15 - i : i \in f} = {8 - b : b \in c}
      <4>1. \A b \in c : 15 - (7 + b) = 8 - b
        OBVIOUS
      <4>2. \A x : (\E i \in f : x = 15 - i) <=> \E b \in c : x = 15 - (7 + b)
        BY <3>1
      <4>3. \A x : (\E i \in f : x = 15 - i) <=> \E b \in c : x = 8 - b
        BY <4>1, <4>2
      <4> QED
        BY <4>3
    <3> QED
      BY <3>1, <3>3, <3>4 DEF InField
  <2>6. ASSUME NEW c \in SUBSET (0..8)
        PROVE  checkCRC9(s \cup {7 + b : b \in c}) <=> SymDiff(calc, {8 - b : b \in c}) \in {{}, 0..8}
    <3>1. Calculated(s \cup {7 + b : b \in c}) = calc
      <4>1. s \ 7..15 = s
        BY <2>3
      <4> QED
        BY <2>4, <2>5, <4>1 DEF Calculated, Counted
    <3> QED
      BY <2>5, <3>1, CheckIs
  <2>7. \E c \in SUBSET (0..8) : checkCRC9(s \cup {7 + b : b \in c})
    <3>1. PICK c : c = {8 - b : b \in calc} /\ c \in SUBSET (0..8)
      <4>1. \A b \in calc : 8 - b \in 0..8
        BY <2>4
      <4> QED
        BY <4>1
    <3>2. {8 - b : b \in c} = calc
      <4>1. \A b \in calc : 8 - (8 - b) = b
        BY <2>4
      <4> QED
        BY <3>1, <4>1
    <3>3. SymDiff(calc, calc) = {}
      BY DEF SymDiff
    <3> QED
      BY <2>6, <3>1, <3>2, <3>3
  <2>8. PICK c \in SUBSET (0..8) : /\ SendCRC9(data) = s \cup {7 + b : b \in c}
                                   /\ checkCRC9(s \cup {7 + b : b \in c})
    <3>1. PICK d : d = CHOOSE c \in SUBSET (0..8) : checkCRC9(s \cup {7 + b : b \in c})
      OBVIOUS
    <3>2. d \in SUBSET (0..8) /\ checkCRC9(s \cup {7 + b : b \in d})
      BY <2>7, <3>1
    <3>3. SendCRC9(data) = s \cup {7 + b : b \in d}
      BY <2>3, <3>1 DEF SendCRC9
    <3> QED
      BY <3>2, <3>3
  <2>9. sent = s \cup {7 + b : b \in c} /\ checkCRC9(sent)
    BY <2>1, <2>2, <2>8 DEF Encode, acchSpecFor
  <2>10. {i - 16 : i \in sent \ 0..15} = data
    <3>1. {7 + b : b \in c} \subseteq 0..15
      <4>1. \A b \in c : 7 + b \in 0..15
        OBVIOUS
      <4> QED
        BY <4>1
    <3>2. sent \ 0..15 = s
      BY <2>3, <2>9, <3>1
    <3>3. \A i \in data : (i + 16) - 16 = i
      BY <2>2
    <3> QED
      BY <2>3, <3>2, <3>3 DEF Shift
  <2>11. \A a, b : Near("CRC9", a, b) <=> a = b
    BY DEF Near, Radius
  <2>12. \A d : DataIn("CRC9", d) = d.data
    BY DEF DataIn, acchSpecFor
  <2>13. Meant("CRC9", data) = data
    BY DEF Meant
  <2> SUFFICES ASSUME sent = received PROVE result.ok /\ result.data = data
    BY <2>2, <2>11, <2>12, <2>13 DEF Corrected
  <2>14. result = [ok |-> checkCRC9(received), data |-> {i - 16 : i \in received \ 0..15}]
    BY <2>1 DEF Decode, acchSpecFor
  <2> QED
    BY <2>9, <2>10, <2>14
<1> QED
  BY <1>1, JobSpec, PTL

-----------------------------------------------------------------------------
(* ADP.                                                                    *)

\* Every byte of the keystream that a codeword is deciphered with is there, and is for no
\* other codeword of the superframe (adp.go:98, adp.go:150).
THEOREM KeystreamUsedOnce ==
  ASSUME NEW phase2 \in BOOLEAN
  PROVE  /\ \A w \in 0..17 : UsedFor(phase2, w) \subseteq 0..ADPKeystreamLen-1
         /\ \A v, w \in 0..17 : v # w => UsedFor(phase2, v) \cap UsedFor(phase2, w) = {}
<1>1. CASE phase2
  <2>1. \A w \in 0..17 : UsedFor(phase2, w) = 256 + 7*w .. 256 + 7*w + 6
    <3> TAKE w \in 0..17
    <3>1. (w % 4) + (w \div 4) * 4 = w
      OBVIOUS
    <3>2. CodewordOffsetP2(w \div 4, w % 4) = 256 + 7*w
      BY <3>1 DEF CodewordOffsetP2
    <3> QED
      BY <1>1, <3>2 DEF UsedFor
  <2>2. \A w \in 0..17 : 256 + 7*w .. 256 + 7*w + 6 \subseteq 0..468
    OBVIOUS
  <2>3. \A v, w \in 0..17 : v # w => (256 + 7*v .. 256 + 7*v + 6) \cap (256 + 7*w .. 256 + 7*w + 6) = {}
    OBVIOUS
  <2> QED
    BY <2>1, <2>2, <2>3 DEF ADPKeystreamLen
<1>2. CASE ~phase2
  <2>1. PICK at \in [0..17 -> Int] :
          at = [w \in 0..17 |-> IF w = 17 THEN 11*w + 271 ELSE IF w >= 8 THEN 11*w + 269 ELSE 11*w + 267]
    <3>1. PICK at : at = [w \in 0..17 |-> IF w = 17 THEN 11*w + 271 ELSE IF w >= 8 THEN 11*w + 269 ELSE 11*w + 267]
      OBVIOUS
    <3>2. \A w \in 0..17 : at[w] \in Int
      BY <3>1
    <3> QED
      BY <3>1, <3>2
  <2>2. \A w \in 0..17 : UsedFor(phase2, w) = at[w] .. at[w] + 10
    <3> TAKE w \in 0..17
    <3>1. CASE w >= 9
      <4>1. w % 9 = w - 9
        BY <3>1
      <4>2. CodewordOffset(w % 9, w >= 9) = at[w]
        BY <2>1, <3>1, <4>1 DEF CodewordOffset
      <4> QED
        BY <1>2, <4>2 DEF UsedFor
    <3>2. CASE ~(w >= 9)
      <4>1. w % 9 = w
        BY <3>2
      <4>2. CodewordOffset(w % 9, w >= 9) = at[w]
        BY <2>1, <3>2, <4>1 DEF CodewordOffset
      <4> QED
        BY <1>2, <4>2 DEF UsedFor
    <3> QED
      BY <3>1, <3>2
  <2>3. \A w \in 0..17 : 0 <= at[w] /\ at[w] + 10 <= 468
    BY <2>1
  <2>4. \A v, w \in 0..17 : v < w => at[v] + 10 < at[w]
    BY <2>1
  <2>5. \A v, w \in 0..17 : v < w => (at[v] .. at[v] + 10) \cap (at[w] .. at[w] + 10) = {}
    BY <2>4
  <2>6. \A v, w \in 0..17 : v # w => v < w \/ w < v
    OBVIOUS
  <2>7. \A v, w \in 0..17 : v # w => (at[v] .. at[v] + 10) \cap (at[w] .. at[w] + 10) = {}
    BY <2>5, <2>6
  <2>8. \A w \in 0..17 : at[w] .. at[w] + 10 \subseteq 0..468
    BY <2>3
  <2>9. \A w \in 0..17 : UsedFor(phase2, w) \subseteq 0..ADPKeystreamLen-1
    <3>1. ADPKeystreamLen - 1 = 468
      BY DEF ADPKeystreamLen
    <3>2. \A w \in 0..17 : UsedFor(phase2, w) \subseteq 0..468
      BY <2>2, <2>8
    <3> QED
      BY <3>1, <3>2
  <2>10. \A v, w \in 0..17 : v # w => UsedFor(phase2, v) \cap UsedFor(phase2, w) = {}
    BY <2>2, <2>7
  <2> QED
    BY <2>9, <2>10
<1> QED
  BY <1>1, <1>2

-----------------------------------------------------------------------------
\* A word turned round, which turned round again is what it was.
Reflected(n, a) == {n - i : i \in a}

LEMMA TurnedTwice ==
  ASSUME NEW n \in Int, NEW a \in SUBSET Int
  PROVE  Reflected(n, Reflected(n, a)) = a
<1>1. PICK A : A = Reflected(n, a) /\ A = {n - j : j \in a}
  BY DEF Reflected
<1>2. \A j \in a : n - (n - j) = j
  OBVIOUS
<1>3. ASSUME NEW x \in a PROVE x \in Reflected(n, A)
  <2>1. n - x \in A
    BY <1>1
  <2>2. x = n - (n - x)
    BY <1>2
  <2> QED
    BY <2>1, <2>2 DEF Reflected
<1>4. ASSUME NEW x \in Reflected(n, A) PROVE x \in a
  <2>1. PICK i \in A : x = n - i
    BY <1>4 DEF Reflected
  <2>2. PICK j \in a : i = n - j
    BY <1>1, <2>1
  <2> QED
    BY <1>2, <2>1, <2>2
<1> QED
  BY <1>1, <1>3, <1>4

\* A codeword in its bytes, and back.
LEMMA PackedAndBack ==
  /\ \A u \in VoiceWords : PackCW(u) \subseteq 0..48 /\ UnpackCW(PackCW(u)) = u
  /\ \A p \in SUBSET (0..48) : UnpackCW(p) \in VoiceWords /\ PackCW(UnpackCW(p)) = p
<1>1. ASSUME NEW u \in VoiceWords
      PROVE  PackCW(u) \subseteq 0..48 /\ UnpackCW(PackCW(u)) = u
  <2>1. PICK a \in SUBSET (0..11), b \in SUBSET (0..11), c \in SUBSET (0..10), d \in SUBSET (0..13) :
          u = <<a, b, c, d>>
    BY DEF VoiceWords
  <2>2. PICK A : A = Reflected(11, a) /\ A \subseteq 0..11
    <3>1. \A i \in a : 11 - i \in 0..11
      OBVIOUS
    <3> QED
      BY <3>1 DEF Reflected
  <2>3. PICK B : B = Reflected(23, b) /\ B \subseteq 12..23
    <3>1. \A i \in b : 23 - i \in 12..23
      OBVIOUS
    <3> QED
      BY <3>1 DEF Reflected
  <2>4. PICK C : C = Reflected(34, c) /\ C \subseteq 24..34
    <3>1. \A i \in c : 34 - i \in 24..34
      OBVIOUS
    <3> QED
      BY <3>1 DEF Reflected
  <2>5. PICK D : D = Reflected(48, d) /\ D \subseteq 35..48
    <3>1. \A i \in d : 48 - i \in 35..48
      OBVIOUS
    <3> QED
      BY <3>1 DEF Reflected
  <2>6. PICK p : p = PackCW(u) /\ p = A \cup B \cup C \cup D
    BY <2>1, <2>2, <2>3, <2>4, <2>5 DEF PackCW, Reflected
  <2>7. p \subseteq 0..48
    <3>1. A \subseteq 0..48 /\ B \subseteq 0..48 /\ C \subseteq 0..48 /\ D \subseteq 0..48
      BY <2>2, <2>3, <2>4, <2>5
    <3> QED
      BY <2>6, <3>1
  <2>8. p \cap 0..11 = A /\ p \cap 12..23 = B /\ p \cap 24..34 = C /\ p \cap 35..48 = D
    <3>1. /\ \A i \in A : i \in 0..11 /\ i \notin 12..23 /\ i \notin 24..34 /\ i \notin 35..48
          /\ \A i \in B : i \in 12..23 /\ i \notin 0..11 /\ i \notin 24..34 /\ i \notin 35..48
          /\ \A i \in C : i \in 24..34 /\ i \notin 0..11 /\ i \notin 12..23 /\ i \notin 35..48
          /\ \A i \in D : i \in 35..48 /\ i \notin 0..11 /\ i \notin 12..23 /\ i \notin 24..34
      BY <2>2, <2>3, <2>4, <2>5
    <3> QED
      BY <2>6, <3>1
  <2>9. /\ Reflected(11, A) = a /\ Reflected(23, B) = b
        /\ Reflected(34, C) = c /\ Reflected(48, D) = d
    <3>1. a \in SUBSET Int /\ b \in SUBSET Int /\ c \in SUBSET Int /\ d \in SUBSET Int
      OBVIOUS
    <3>2. Reflected(11, A) = a
      BY <2>2, <3>1, TurnedTwice
    <3>3. Reflected(23, B) = b
      BY <2>3, <3>1, TurnedTwice
    <3>4. Reflected(34, C) = c
      BY <2>4, <3>1, TurnedTwice
    <3>5. Reflected(48, D) = d
      BY <2>5, <3>1, TurnedTwice
    <3> QED
      BY <3>2, <3>3, <3>4, <3>5
  <2>10. UnpackCW(p) = <<Reflected(11, A), Reflected(23, B), Reflected(34, C), Reflected(48, D)>>
    BY <2>8 DEF UnpackCW, Reflected
  <2> QED
    BY <2>1, <2>6, <2>7, <2>9, <2>10
<1>2. ASSUME NEW p \in SUBSET (0..48)
      PROVE  UnpackCW(p) \in VoiceWords /\ PackCW(UnpackCW(p)) = p
  <2>1. PICK A, B, C, D : A = p \cap 0..11 /\ B = p \cap 12..23 /\ C = p \cap 24..34 /\ D = p \cap 35..48
    OBVIOUS
  <2>2. PICK a : a = Reflected(11, A) /\ a \in SUBSET (0..11)
    <3>1. \A i \in A : 11 - i \in 0..11
      BY <2>1
    <3> QED
      BY <3>1 DEF Reflected
  <2>3. PICK b : b = Reflected(23, B) /\ b \in SUBSET (0..11)
    <3>1. \A i \in B : 23 - i \in 0..11
      BY <2>1
    <3> QED
      BY <3>1 DEF Reflected
  <2>4. PICK c : c = Reflected(34, C) /\ c \in SUBSET (0..10)
    <3>1. \A i \in C : 34 - i \in 0..10
      BY <2>1
    <3> QED
      BY <3>1 DEF Reflected
  <2>5. PICK d : d = Reflected(48, D) /\ d \in SUBSET (0..13)
    <3>1. \A i \in D : 48 - i \in 0..13
      BY <2>1
    <3> QED
      BY <3>1 DEF Reflected
  <2>6. UnpackCW(p) = <<a, b, c, d>>
    BY <2>1, <2>2, <2>3, <2>4, <2>5 DEF UnpackCW, Reflected
  <2>7. UnpackCW(p) \in VoiceWords
    BY <2>2, <2>3, <2>4, <2>5, <2>6 DEF VoiceWords
  <2>8. PackCW(UnpackCW(p)) = Reflected(11, a) \cup Reflected(23, b) \cup Reflected(34, c) \cup Reflected(48, d)
    BY <2>6 DEF PackCW, Reflected
  <2>9. Reflected(11, a) = A
    <3>1. A \in SUBSET Int
      BY <2>1
    <3> QED
      BY <2>2, <3>1, TurnedTwice
  <2>10. Reflected(23, b) = B
    <3>1. B \in SUBSET Int
      BY <2>1
    <3> QED
      BY <2>3, <3>1, TurnedTwice
  <2>11. Reflected(34, c) = C
    <3>1. C \in SUBSET Int
      BY <2>1
    <3> QED
      BY <2>4, <3>1, TurnedTwice
  <2>12. Reflected(48, d) = D
    <3>1. D \in SUBSET Int
      BY <2>1
    <3> QED
      BY <2>5, <3>1, TurnedTwice
  <2>13. A \cup B \cup C \cup D = p
    <3>1. \A i \in p : i \in 0..11 \/ i \in 12..23 \/ i \in 24..34 \/ i \in 35..48
      OBVIOUS
    <3> QED
      BY <2>1, <3>1
  <2> QED
    BY <2>7, <2>8, <2>9, <2>10, <2>11, <2>12, <2>13
<1> QED
  BY <1>1, <1>2

-----------------------------------------------------------------------------
\* Deciphered with what it was enciphered with, a superframe is what it was.
LEMMA CipheredTwice ==
  ASSUME NEW phase2 \in BOOLEAN, NEW stream,
         NEW cw \in [0..17 -> IF phase2 THEN VoiceWords ELSE SUBSET (0..87)]
  PROVE  Ciphered(phase2, stream, Ciphered(phase2, stream, cw)) = cw
<1>1. CASE phase2
  <2>1. PICK S : S = [w \in 0..17 |-> StreamOnes(stream, CodewordOffsetP2(w \div 4, w % 4), 0..55)]
    OBVIOUS
  <2>2. ASSUME NEW w \in 0..17, NEW p
        PROVE  XORCodewordP2(stream, p, w \div 4, w % 4) = SymDiff(p, S[w]) \cap 0..48
    BY <2>1 DEF XORCodewordP2
  <2>3. ASSUME NEW c
        PROVE  /\ DOMAIN Ciphered(phase2, stream, c) = 0..17
               /\ \A w \in 0..17 : Ciphered(phase2, stream, c)[w] = UnpackCW(SymDiff(PackCW(c[w]), S[w]) \cap 0..48)
    <3>1. Ciphered(phase2, stream, c) =
            [w \in 0..17 |-> UnpackCW(XORCodewordP2(stream, PackCW(c[w]), w \div 4, w % 4))]
      BY <1>1 DEF Ciphered, Table
    <3> QED
      BY <2>2, <3>1
  <2>4. PICK once : once = Ciphered(phase2, stream, cw)
    OBVIOUS
  <2>5. PICK twice : twice = Ciphered(phase2, stream, once)
    OBVIOUS
  <2>6. ASSUME NEW w \in 0..17 PROVE twice[w] = cw[w]
    <3>1. PICK u \in VoiceWords : u = cw[w]
      BY <1>1
    <3>2. PICK p : p = PackCW(u) /\ p \subseteq 0..48 /\ UnpackCW(p) = u
      BY PackedAndBack
    <3>3. PICK q \in SUBSET (0..48) : q = SymDiff(p, S[w]) \cap 0..48
      OBVIOUS
    <3>4. once[w] = UnpackCW(q) /\ PackCW(UnpackCW(q)) = q
      BY <2>3, <2>4, <3>1, <3>2, <3>3, PackedAndBack
    <3>5. SymDiff(q, S[w]) \cap 0..48 = p
      BY <3>2, <3>3 DEF SymDiff
    <3>6. twice[w] = UnpackCW(SymDiff(PackCW(once[w]), S[w]) \cap 0..48)
      BY <2>3, <2>5
    <3>7. PackCW(once[w]) = q
      BY <3>4
    <3>8. twice[w] = UnpackCW(SymDiff(q, S[w]) \cap 0..48)
      BY <3>6, <3>7
    <3>9. twice[w] = UnpackCW(p)
      BY <3>5, <3>8
    <3> QED
      BY <3>1, <3>2, <3>9
  <2>8. twice = [w \in 0..17 |-> twice[w]]
    <3>1. twice = [w \in 0..17 |-> UnpackCW(XORCodewordP2(stream, PackCW(once[w]), w \div 4, w % 4))]
      BY <1>1, <2>5 DEF Ciphered, Table
    <3> QED
      BY <3>1
  <2> QED
    BY <2>4, <2>5, <2>6, <2>8
<1>2. CASE ~phase2
  <2>1. PICK S : S = [w \in 0..17 |-> StreamOnes(stream, CodewordOffset(w % 9, w >= 9), 0..87)]
    OBVIOUS
  <2>2. ASSUME NEW w \in 0..17, NEW p
        PROVE  XORCodeword(stream, p, w % 9, w >= 9) = SymDiff(p, S[w])
    BY <2>1 DEF XORCodeword
  <2>3. ASSUME NEW c
        PROVE  Ciphered(phase2, stream, c) = [w \in 0..17 |-> SymDiff(c[w], S[w])]
    <3>1. Ciphered(phase2, stream, c) = [w \in 0..17 |-> XORCodeword(stream, c[w], w % 9, w >= 9)]
      BY <1>2 DEF Ciphered, Table
    <3> QED
      BY <2>2, <3>1
  <2>4. PICK once : once = Ciphered(phase2, stream, cw)
    OBVIOUS
  <2>5. \A w \in 0..17 : SymDiff(once[w], S[w]) = cw[w]
    <3> TAKE w \in 0..17
    <3>1. once[w] = SymDiff(cw[w], S[w])
      BY <2>3, <2>4
    <3> QED
      BY <3>1 DEF SymDiff
  <2>6. Ciphered(phase2, stream, once) = [w \in 0..17 |-> SymDiff(once[w], S[w])]
    BY <2>3
  <2> QED
    BY <2>4, <2>5, <2>6
<1> QED
  BY <1>1, <1>2

\* What ADP has enciphered under one indicator is the voice again once it is deciphered under
\* the same, of the words of a superframe of voice bursts and of two LDUs alike (adp.go:98,
\* adp.go:150).
ADPRight == Decoded /\ job.code = "ADP" => Corrected

\* A superframe that ADP has enciphered is the voice it was once it is deciphered under the
\* same message indicator (adp.go:98, adp.go:150).
THEOREM ADPCipher == CSpec => []ADPRight
<1>1. OfTheJob => ADPRight
  <2> SUFFICES ASSUME OfTheJob, Decoded, job.code = "ADP" PROVE Corrected
    BY DEF ADPRight
  <2>1. /\ job \in Jobs /\ sent = Encode(job.code, job.data)
        /\ received = Disturbed(job.code, sent, job.noise) /\ result = Decode(job.code, received)
    BY DEF OfTheJob, Decoded
  <2>2. PICK phase2 \in BOOLEAN :
          job.data \in [phase2 : {phase2}, mi : Seq(0..255),
                        cw : [0..17 -> IF phase2 THEN VoiceWords ELSE SUBSET (0..87)]]
    <3>1. WellFormed(job)
      BY <2>1, JobsAssumption
    <3> QED
      BY <3>1 DEF WellFormed
  <2>3. PICK mi, cw : /\ job.data = [phase2 |-> phase2, mi |-> mi, cw |-> cw]
                      /\ cw \in [0..17 -> IF phase2 THEN VoiceWords ELSE SUBSET (0..87)]
    BY <2>2
  <2>4. PICK stream : stream = Prepare(Key, mi).bytes
    OBVIOUS
  <2>5. \A c : WithADP([phase2 |-> phase2, mi |-> mi, cw |-> c]) =
                 [phase2 |-> phase2, mi |-> mi, cw |-> Ciphered(phase2, stream, c)]
    BY <2>4 DEF WithADP
  <2>6. sent = [phase2 |-> phase2, mi |-> mi, cw |-> Ciphered(phase2, stream, cw)]
    <3>1. sent = WithADP(job.data)
      BY <2>1 DEF Encode, acchSpecFor
    <3> QED
      BY <2>3, <2>5, <3>1
  <2>7. WithADP(sent) = job.data
    BY <2>3, <2>5, <2>6, CipheredTwice
  <2>8. \A a, b : Near("ADP", a, b) <=> a = b
    BY DEF Near, Radius
  <2>9. \A d : DataIn("ADP", d) = d.data
    BY DEF DataIn, acchSpecFor
  <2>10. Meant("ADP", job.data) = job.data
    BY DEF Meant
  <2> SUFFICES ASSUME sent = received PROVE result.ok /\ result.data = job.data
    BY <2>8, <2>9, <2>10 DEF Corrected
  <2>11. result = [ok |-> TRUE, data |-> WithADP(received)]
    BY <2>1 DEF Decode, acchSpecFor
  <2> QED
    BY <2>7, <2>11
<1> QED
  BY <1>1, JobSpec, PTL
=============================================================================
