------------------------- MODULE TalkerAliasProofs --------------------------
(***************************************************************************)
(* What the assembler of Motorola aliases does to a set that it collects,  *)
(* for whatever it has collected and whatever comes: the lemmas that the   *)
(* proofs about the frame decoder and about a Phase 2 slot rest on.        *)
(***************************************************************************)
EXTENDS TalkerAlias, TLAPS

SomePiece == [of : Talkers \cup {Nobody}, num : Nat]

\* Pieces by number, as many as there are.
PieceMaps == UNION {[nums -> SomePiece] : nums \in SUBSET Nat}

Assemblers ==
    [seq : Nat, count : Nat, tg : Talkers \cup {Nobody}, first : PieceMaps, blocks : PieceMaps,
     complete : BOOLEAN, failed : Nat]

LEMMA NoBlocks == <<>> \in PieceMaps
<1>1. <<>> \in [{} -> SomePiece]
  OBVIOUS
<1>2. {} \in SUBSET Nat
  OBVIOUS
<1> QED
  BY <1>1, <1>2 DEF PieceMaps

\* The pieces collected, with one more.
LEMMA OneMore ==
  ASSUME NEW blocks \in PieceMaps, NEW block, block.num \in Nat, block.piece \in SomePiece
  PROVE  WithBlock(blocks, block) \in PieceMaps
<1>1. PICK nums \in SUBSET Nat : blocks \in [nums -> SomePiece]
  BY DEF PieceMaps
<1>2. WithBlock(blocks, block) \in [{block.num} \cup nums -> SomePiece]
  BY <1>1 DEF WithBlock
<1>3. {block.num} \cup nums \in SUBSET Nat
  OBVIOUS
<1> QED
  BY <1>2, <1>3 DEF PieceMaps

LEMMA NewAssembler == NewMotorola \in Assemblers
BY NoBlocks DEF NewMotorola, Assemblers

\* A header begins a set, unless it is corrupt.
LEMMA HeaderBegins ==
  ASSUME NEW a \in Assemblers,
         NEW h, h.seq \in Nat, h.count \in Nat, h.tg \in Talkers, h.first \in PieceMaps
  PROVE  LET b == addMotorolaHeader(a, h)
         IN  /\ b \in Assemblers
             /\ \/ b = a
                \/ b.seq = h.seq /\ b.tg = h.tg /\ b.first = h.first /\ b.blocks = <<>>
BY NoBlocks DEF addMotorolaHeader, Assemblers

\* An alias that decodes has its talker's last piece, and no piece of another.
LEMMA WholeText ==
  ASSUME NEW text, NEW t \in MotorolaAliasDecode(text)
  PROVE  /\ t \in Talkers /\ BlocksOf[t] \in DOMAIN text /\ text[BlocksOf[t]].of = t
         /\ \A i \in DOMAIN text : text[i].of = t
<1>1. /\ t \in Talkers /\ BlocksOf[t] \in DOMAIN text /\ text[BlocksOf[t]] = Piece(t, BlocksOf[t])
      /\ \A i \in DOMAIN text : text[i] = Piece(t, i)
  BY DEF MotorolaAliasDecode
<1> QED
  BY <1>1 DEF Piece

\* A block leaves what the header said alone.  It is collected, if it is of the set; or the
\* set is dropped.  An alias that it completes is the first of the header, and all its
\* pieces, the last one too, were collected or came with the header.
LEMMA BlockAdds ==
  ASSUME NEW a \in Assemblers, NEW block, block.num \in Nat, block.piece \in SomePiece
  PROVE  LET added == addMotorolaBlock(a, block)
             blocks == WithBlock(a.blocks, block)
         IN  /\ added.asm \in Assemblers
             /\ added.asm.seq = a.seq /\ added.asm.count = a.count
             /\ added.asm.tg = a.tg /\ added.asm.first = a.first
             /\ \/ added.asm.blocks \in {<<>>, a.blocks}
                \/ added.asm.blocks = blocks /\ block.seq = a.seq
             /\ a.complete => added.asm.complete
             /\ \/ added.alias = NoAlias
                \/ /\ ~a.complete /\ added.asm.complete /\ block.seq = a.seq
                   /\ AllPresent(a, blocks)
                   /\ added.alias.tg = a.tg /\ added.alias.of \in Talkers
                   /\ added.alias \in Aliases
                   /\ BlocksOf[added.alias.of] \in DOMAIN TextOf(a, blocks)
                   /\ TextOf(a, blocks)[BlocksOf[added.alias.of]].of = added.alias.of
                   /\ \A i \in DOMAIN TextOf(a, blocks) :
                        TextOf(a, blocks)[i].of = added.alias.of
<1> DEFINE added == addMotorolaBlock(a, block)
           blocks == WithBlock(a.blocks, block)
           whose == MotorolaAliasDecode(TextOf(a, blocks))
           now(asm) == [asm |-> asm, alias |-> NoAlias]
<1>1. a.blocks \in PieceMaps
  BY DEF Assemblers
<1>2. blocks \in PieceMaps
  BY <1>1, OneMore
<1>3. CASE GivenUp(a)
  <2>1. added = now(a)
    BY <1>3 DEF addMotorolaBlock
  <2> QED
    BY <2>1
<1>4. CASE ~GivenUp(a) /\ ~ThisAlias(a, block)
  <2>1. added = now([a EXCEPT !.blocks = <<>>])
    BY <1>4 DEF addMotorolaBlock
  <2> QED
    BY <1>4, <2>1, NoBlocks DEF GivenUp, Assemblers
<1>5. CASE ~GivenUp(a) /\ ThisAlias(a, block)
  <2>1. ~a.complete /\ block.seq = a.seq
    BY <1>5 DEF GivenUp, ThisAlias
  <2>2. CASE ~AllPresent(a, blocks)
    <3>1. added = now([a EXCEPT !.blocks = blocks])
      BY <1>5, <2>2 DEF addMotorolaBlock
    <3> QED
      BY <1>2, <2>1, <3>1 DEF Assemblers
  <2>3. CASE AllPresent(a, blocks) /\ whose = {}
    <3> DEFINE g == [a EXCEPT !.blocks = <<>>]
    <3>1. added = now(FailedSet(a))
      BY <1>5, <2>3 DEF addMotorolaBlock
    <3>2. /\ g \in Assemblers /\ g.seq = a.seq /\ g.count = a.count /\ g.tg = a.tg
          /\ g.first = a.first /\ g.blocks = <<>>
      BY NoBlocks DEF Assemblers
    <3>3. FailedSet(a) = [g EXCEPT !.failed = g.failed + 1]
      BY DEF Assemblers, FailedSet
    <3>4. g.failed + 1 \in Nat
      BY <3>2 DEF Assemblers
    <3> HIDE DEF g
    <3>5. FailedSet(a) \in Assemblers
      BY <3>2, <3>3, <3>4 DEF Assemblers
    <3>6. LET f == FailedSet(a)
          IN  f.seq = a.seq /\ f.count = a.count /\ f.tg = a.tg /\ f.first = a.first /\ f.blocks = <<>>
      BY <3>2, <3>3 DEF Assemblers
    <3> QED
      BY <2>1, <3>1, <3>5, <3>6
  <2>4. CASE AllPresent(a, blocks) /\ whose # {}
    <3> DEFINE f == [a EXCEPT !.blocks = blocks, !.complete = TRUE]
               t == CHOOSE u \in whose : TRUE
               alias == [done |-> TRUE, of |-> t, tg |-> a.tg]
    <3>1. added = [asm |-> f, alias |-> alias]
      BY <1>5, <2>4 DEF addMotorolaBlock
    <3>2. f \in Assemblers
      BY <1>2 DEF Assemblers
    <3>3. /\ f.seq = a.seq /\ f.count = a.count /\ f.tg = a.tg /\ f.first = a.first
          /\ f.blocks = blocks /\ f.complete
      BY DEF Assemblers
    <3>4. t \in whose
      BY <2>4
    <3>5. /\ t \in Talkers /\ BlocksOf[t] \in DOMAIN TextOf(a, blocks)
          /\ TextOf(a, blocks)[BlocksOf[t]].of = t
          /\ \A i \in DOMAIN TextOf(a, blocks) : TextOf(a, blocks)[i].of = t
      <4>1. t \in Talkers /\ BlocksOf[t] \in DOMAIN TextOf(a, blocks)
        BY <3>4, WholeText
      <4>2. TextOf(a, blocks)[BlocksOf[t]].of = t
        BY <3>4, WholeText
      <4>3. \A i \in DOMAIN TextOf(a, blocks) : TextOf(a, blocks)[i].of = t
        BY <3>4, WholeText
      <4> QED
        BY <4>1, <4>2, <4>3
    <3>6. alias \in Aliases
      BY <3>5 DEF Aliases, Assemblers
    <3>7. added.asm = f /\ added.alias = alias /\ alias.of = t /\ alias.tg = a.tg
      BY <3>1
    <3> HIDE DEF f, t, alias
    <3> QED
      BY <2>1, <2>4, <3>2, <3>3, <3>5, <3>6, <3>7
  <2> QED
    BY <2>2, <2>3, <2>4
<1> QED
  BY <1>3, <1>4, <1>5

\* A block that does not end the collection: of another set, which drops what there is; or
\* of this one, which is not complete, or fails, or is given out.
LEMMA BlockCases ==
  ASSUME NEW a \in Assemblers, ~GivenUp(a), NEW block, block.num \in Nat, block.piece \in SomePiece
  PROVE  LET added == addMotorolaBlock(a, block)
             blocks == WithBlock(a.blocks, block)
         IN  /\ added.alias.done \/ (added.asm.complete = a.complete /\ added.alias = NoAlias)
             /\ ~ThisAlias(a, block) => added.asm.blocks = <<>> /\ added.asm.failed = a.failed
             /\ ThisAlias(a, block) =>
                  \/ ~AllPresent(a, blocks) /\ added.asm.blocks = blocks /\ added.asm.failed = a.failed
                  \/ /\ AllPresent(a, blocks) /\ MotorolaAliasDecode(TextOf(a, blocks)) = {}
                     /\ added.asm.blocks = <<>> /\ added.asm.failed = a.failed + 1
                  \/ /\ AllPresent(a, blocks) /\ added.alias.done
                     /\ added.asm.blocks = blocks /\ added.asm.failed = a.failed
<1> DEFINE added == addMotorolaBlock(a, block)
           blocks == WithBlock(a.blocks, block)
           whose == MotorolaAliasDecode(TextOf(a, blocks))
           now(asm) == [asm |-> asm, alias |-> NoAlias]
<1>1. CASE ~ThisAlias(a, block)
  <2>1. added = now([a EXCEPT !.blocks = <<>>])
    BY <1>1 DEF addMotorolaBlock
  <2> QED
    BY <1>1, <2>1 DEF Assemblers
<1>2. CASE ThisAlias(a, block) /\ ~AllPresent(a, blocks)
  <2>1. added = now([a EXCEPT !.blocks = blocks])
    BY <1>2 DEF addMotorolaBlock
  <2> QED
    BY <1>2, <2>1 DEF Assemblers
<1>3. CASE ThisAlias(a, block) /\ AllPresent(a, blocks) /\ whose = {}
  <2> DEFINE g == [a EXCEPT !.blocks = <<>>]
  <2>1. added = now(FailedSet(a))
    BY <1>3 DEF addMotorolaBlock
  <2>2. g \in Assemblers /\ g.blocks = <<>> /\ g.failed = a.failed /\ g.complete = a.complete
    BY NoBlocks DEF Assemblers
  <2>3. FailedSet(a) = [g EXCEPT !.failed = g.failed + 1]
    BY DEF Assemblers, FailedSet
  <2> HIDE DEF g
  <2>4. FailedSet(a).blocks = <<>> /\ FailedSet(a).failed = a.failed + 1
        /\ FailedSet(a).complete = a.complete
    BY <2>2, <2>3 DEF Assemblers
  <2> QED
    BY <1>3, <2>1, <2>4
<1>4. CASE ThisAlias(a, block) /\ AllPresent(a, blocks) /\ whose # {}
  <2> DEFINE f == [a EXCEPT !.blocks = blocks, !.complete = TRUE]
  <2>1. added.asm = f /\ added.alias.done
    BY <1>4 DEF addMotorolaBlock
  <2>2. f.blocks = blocks /\ f.failed = a.failed
    BY DEF Assemblers
  <2> QED
    BY <1>4, <2>1, <2>2
<1> QED
  BY <1>1, <1>2, <1>3, <1>4

\* The pieces of one talker, all of them, are his alias.
LEMMA AllHis ==
  ASSUME NEW a, a.first = <<>>, NEW t \in Talkers, a.count = BlocksOf[t],
         NEW blocks, \A n \in 1..a.count : blocks[n] = Piece(t, n)
  PROVE  t \in MotorolaAliasDecode(TextOf(a, blocks))
<1>1. BlocksOf[t] \in Nat \ {0}
  BY AliasParams
<1>2. DOMAIN TextOf(a, blocks) = 1..a.count /\ \A i \in 1..a.count : TextOf(a, blocks)[i] = blocks[i]
  BY DEF TextOf
<1> QED
  BY <1>1, <1>2 DEF MotorolaAliasDecode

-----------------------------------------------------------------------------
(* Harris.                                                                 *)

\* The text with a piece added, unless it says it already.
Say(text, p) == IF p = NoPiece \/ Contains(text, p) THEN text ELSE Append(text, p)

\* The fold over four pieces: what it is for the pieces of a set of positions.
LEMMA FourSaid ==
  ASSUME NEW pieces, DOMAIN pieces = 1..4
  PROVE  HarrisAliasString(pieces)
           = Say(Say(Say(Say(<<>>, pieces[1]), pieces[2]), pieces[3]), pieces[4])
<1> DEFINE said1(s) == IF 1 \in s THEN Say(<<>>, pieces[1]) ELSE <<>>
           said2(s) == IF 2 \in s THEN Say(said1(s), pieces[2]) ELSE said1(s)
           said3(s) == IF 3 \in s THEN Say(said2(s), pieces[3]) ELSE said2(s)
           said4(s) == IF 4 \in s THEN Say(said3(s), pieces[4]) ELSE said3(s)
           Rec(g) == [s \in SUBSET (1..4) |->
                        IF s = {} THEN <<>> ELSE Say(g[s \ {Max(s)}], pieces[Max(s)])]
           said == [s \in SUBSET (1..4) |-> said4(s)]
           iter == CHOOSE g : g = Rec(g)
<1>1. HarrisAliasString(pieces) = iter[1..4]
  BY Zenon DEF HarrisAliasString, FoldLeft, MapThenFoldSet, Say
<1>2. ASSUME NEW s \in SUBSET (1..4), NEW k \in s, \A j \in s : j <= k
      PROVE  Max(s) = k
  <2>1. \A x \in s : (\A i \in s : x >= i) => x = k
    BY <1>2
  <2>2. Max(s) \in s /\ \A j \in s : Max(s) >= j
    <3>1. \E x \in s : \A j \in s : x >= j
      BY <1>2
    <3> QED
      BY <3>1 DEF Max
  <2> QED
    BY <2>1, <2>2
<1>3. ASSUME NEW s \in SUBSET (1..4)
      PROVE  said4(s) = IF s = {} THEN <<>> ELSE Say(said4(s \ {Max(s)}), pieces[Max(s)])
  <2>1. CASE s = {}
    BY <2>1
  <2>2. CASE 4 \in s
    <3>1. Max(s) = 4
      BY <1>2, <2>2
    <3>2. said3(s \ {4}) = said3(s) /\ 4 \notin s \ {4}
      OBVIOUS
    <3> QED
      BY <2>2, <3>1, <3>2
  <2>3. CASE 4 \notin s /\ 3 \in s
    <3>1. Max(s) = 3
      BY <1>2, <2>3
    <3>2. said2(s \ {3}) = said2(s) /\ 3 \notin s \ {3}
      OBVIOUS
    <3> QED
      BY <2>3, <3>1, <3>2
  <2>4. CASE 4 \notin s /\ 3 \notin s /\ 2 \in s
    <3>1. Max(s) = 2
      BY <1>2, <2>4
    <3>2. said1(s \ {2}) = said1(s) /\ 2 \notin s \ {2}
      OBVIOUS
    <3> QED
      BY <2>4, <3>1, <3>2
  <2>5. CASE s = {1}
    <3>1. Max(s) = 1
      BY <1>2, <2>5
    <3> QED
      BY <2>5, <3>1
  <2>6. \/ s = {} \/ 4 \in s \/ (4 \notin s /\ 3 \in s) \/ (4 \notin s /\ 3 \notin s /\ 2 \in s)
        \/ s = {1}
    <3>1. \A j \in s : j \in {1, 2, 3, 4}
      OBVIOUS
    <3> QED
      BY <3>1
  <2> HIDE DEF said4
  <2> QED
    BY <2>1, <2>2, <2>3, <2>4, <2>5, <2>6
<1> HIDE DEF said4
<1>4. iter = Rec(iter)
  <2>1. said = Rec(said)
    <3>1. ASSUME NEW s \in SUBSET (1..4)
          PROVE  said[s] = IF s = {} THEN <<>> ELSE Say(said[s \ {Max(s)}], pieces[Max(s)])
      <4>1. s \ {Max(s)} \in SUBSET (1..4)
        OBVIOUS
      <4>2. said[s] = said4(s) /\ said[s \ {Max(s)}] = said4(s \ {Max(s)})
        BY <4>1
      <4> HIDE DEF said
      <4> QED
        BY <1>3, <4>2
    <3>2. said = [s \in SUBSET (1..4) |-> said[s]]
      OBVIOUS
    <3> HIDE DEF said
    <3> QED
      BY <3>1, <3>2
  <2> HIDE DEF said, Rec
  <2> QED
    BY <2>1
<1> HIDE DEF iter
<1>5. ASSUME NEW k \in 1..4
      PROVE  iter[1..k] = Say(iter[1..(k - 1)], pieces[k])
  <2>1. Max(1..k) = k
    BY <1>2
  <2>2. (1..k) \ {k} = 1..(k - 1) /\ 1..k # {} /\ 1..k \in SUBSET (1..4)
    OBVIOUS
  <2>3. Rec(iter)[1..k] = Say(iter[(1..k) \ {k}], pieces[k])
    BY <2>1, <2>2
  <2> QED
    BY <1>4, <2>2, <2>3
<1>6. iter[1..0] = <<>>
  <2>1. Rec(iter)[{}] = <<>> /\ 1..0 = {}
    OBVIOUS
  <2> QED
    BY <1>4, <2>1
<1> HIDE DEF Rec
<1>7. /\ iter[1..4] = Say(iter[1..3], pieces[4]) /\ iter[1..3] = Say(iter[1..2], pieces[3])
      /\ iter[1..2] = Say(iter[1..1], pieces[2]) /\ iter[1..1] = Say(iter[1..0], pieces[1])
  <2>1. 4 - 1 = 3 /\ 3 - 1 = 2 /\ 2 - 1 = 1 /\ 1 - 1 = 0 /\ 1 \in 1..4 /\ 2 \in 1..4 /\ 3 \in 1..4 /\ 4 \in 1..4
    OBVIOUS
  <2> QED
    BY <1>5, <2>1
<1> QED
  BY <1>1, <1>6, <1>7
=============================================================================
