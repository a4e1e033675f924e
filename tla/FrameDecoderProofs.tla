------------------------- MODULE FrameDecoderProofs -------------------------
(***************************************************************************)
(* What holds of the frame decoder's alias and identity for every set of   *)
(* talkers and every length and numbering of their aliases, with TLAPS     *)
(* proofs: a Motorola alias is given out once, is of him who talks and,    *)
(* once it has come through, is given out; a Harris one only grows; the    *)
(* identity carried over was heard since the last reset.                   *)
(***************************************************************************)
EXTENDS FrameDecoder, TalkerAliasProofs

\* A header was heard if there is a set to collect, and what is collected has its number.
OfOneSet(a) ==
    /\ a \in Assemblers
    /\ a.count # 0 => a.tg # Nobody
    /\ a.tg # Nobody => AliasSeq[a.tg] = a.seq
    /\ a.first = <<>>
    /\ \A n \in DOMAIN a.blocks : a.blocks[n].of # Nobody => AliasSeq[a.blocks[n].of] = a.seq

\* What an alias is given out for has not been given out before.
MotoInv == OfOneSet(moto) /\ make \in Makes /\ talker \in Talkers /\ (told => moto.complete)

\* Who is carried over was heard.
LCInv == lastLC.who \in heard \cup {Nobody}

-----------------------------------------------------------------------------
\* A header begins a set of its own.
LEMMA HeaderSound ==
  ASSUME NEW a, OfOneSet(a), NEW t \in Talkers, NEW count \in Nat
  PROVE  OfOneSet(addMotorolaHeader(a, HeaderOf(t, count)))
<1> DEFINE h == HeaderOf(t, count)
           b == addMotorolaHeader(a, h)
<1>1. h.seq = AliasSeq[t] /\ h.count = count /\ h.tg = t /\ h.first = <<>>
  BY DEF HeaderOf
<1>2. AliasSeq[t] \in Nat
  BY AirParams
<1>3. a \in Assemblers
  BY DEF OfOneSet
<1> HIDE DEF h
<1>4. /\ b \in Assemblers
      /\ b = a \/ (b.seq = h.seq /\ b.tg = h.tg /\ b.first = h.first /\ b.blocks = <<>>)
  BY <1>1, <1>2, <1>3, NoBlocks, HeaderBegins
<1>5. t # Nobody
  BY AliasParams
<1>6. OfOneSet(b)
  <2> HIDE DEF b
  <2> QED
    BY <1>1, <1>4, <1>5 DEF OfOneSet
<1> QED
  BY <1>6 DEF h

\* A block adds to a set of its own number or ends it; the alias that completes it is one
\* of that number, and the first of this header.
LEMMA BlockSound ==
  ASSUME NEW a, OfOneSet(a),
         NEW block, block.num \in Nat, block.piece \in SomePiece,
         block.piece.of # Nobody => AliasSeq[block.piece.of] = block.seq
  PROVE  LET added == addMotorolaBlock(a, block)
         IN  /\ OfOneSet(added.asm)
             /\ a.complete => added.asm.complete
             /\ added.alias.done => /\ ~a.complete /\ added.asm.complete
                                    /\ AliasSeq[added.alias.of] = AliasSeq[added.alias.tg]
<1> DEFINE added == addMotorolaBlock(a, block)
           blocks == WithBlock(a.blocks, block)
<1>1. a \in Assemblers
  BY DEF OfOneSet
<1>2. /\ added.asm \in Assemblers
      /\ added.asm.seq = a.seq /\ added.asm.count = a.count
      /\ added.asm.tg = a.tg /\ added.asm.first = a.first
      /\ \/ added.asm.blocks \in {<<>>, a.blocks}
         \/ added.asm.blocks = blocks /\ block.seq = a.seq
      /\ a.complete => added.asm.complete
  BY <1>1, BlockAdds
<1>3. block.seq = a.seq =>
        \A n \in DOMAIN blocks : blocks[n].of # Nobody => AliasSeq[blocks[n].of] = a.seq
  BY DEF WithBlock, OfOneSet
<1>4. OfOneSet(added.asm)
  <2>1. CASE added.asm.blocks = <<>>
    BY <1>2, <2>1 DEF OfOneSet
  <2>2. CASE added.asm.blocks = a.blocks
    BY <1>2, <2>2 DEF OfOneSet
  <2>3. CASE added.asm.blocks = blocks /\ block.seq = a.seq
    <3> HIDE DEF added, blocks
    <3> QED
      BY <1>2, <1>3, <2>3 DEF OfOneSet
  <2> QED
    BY <1>2, <2>1, <2>2, <2>3
<1>5. ASSUME added.alias.done
      PROVE  ~a.complete /\ added.asm.complete /\ AliasSeq[added.alias.of] = AliasSeq[added.alias.tg]
  <2> DEFINE t == added.alias.of
             text == TextOf(a, blocks)
  <2>1. added.alias # NoAlias
    BY <1>5 DEF NoAlias
  <2>2. /\ ~a.complete /\ added.asm.complete /\ block.seq = a.seq
        /\ AllPresent(a, blocks) /\ added.alias.tg = a.tg
        /\ t \in Talkers /\ BlocksOf[t] \in DOMAIN text /\ text[BlocksOf[t]].of = t
    BY <1>1, <2>1, BlockAdds
  <2> HIDE DEF added, blocks, t
  <2>3. BlocksOf[t] \in 1..a.count /\ blocks[BlocksOf[t]].of = t
    BY <2>2 DEF TextOf, OfOneSet
  <2>4. BlocksOf[t] \in DOMAIN blocks /\ a.count # 0 /\ t # Nobody
    BY <1>1, <2>2, <2>3, AliasParams DEF AllPresent, Assemblers
  <2>5. AliasSeq[t] = a.seq
    BY <1>3, <2>2, <2>3, <2>4
  <2>6. AliasSeq[a.tg] = a.seq
    BY <2>4 DEF OfOneSet
  <2> QED
    BY <2>2, <2>5, <2>6 DEF t
<1> QED
  BY <1>2, <1>4, <1>5

-----------------------------------------------------------------------------
LEMMA MotoInit == FDInit => MotoInv
<1> SUFFICES ASSUME FDInit PROVE MotoInv
  OBVIOUS
<1>1. moto \in Assemblers
  BY NewAssembler DEF FDInit
<1>2. moto.count = 0 /\ moto.tg = Nobody /\ moto.first = <<>> /\ DOMAIN moto.blocks = {}
  BY DEF FDInit, NewMotorola
<1>3. make \in Makes /\ talker \in Talkers
  BY AirParams DEF FDInit
<1> QED
  BY <1>1, <1>2, <1>3 DEF FDInit, MotoInv, OfOneSet

\* What a word does to the assembler, and what the history makes of it.
LEMMA WordStep ==
  ASSUME MotoInv, NEW lc \in Words, NEW blank, ~blank.alias.done,
         blank \in [who : Talkers \cup {Nobody}, alias : Aliases, text : {<<>>}, fix : {<<>>}],
         Assemble(lc, blank), Note(lc), UNCHANGED air
  PROVE  /\ MotoInv'
         /\ frame'.alias.done => ~told /\ AliasSeq[frame'.alias.of] = AliasSeq[frame'.alias.tg]
<1> USE DEF MotoInv
<1>1. talker' = talker /\ make' = make
  BY DEF air
<1>2. CASE lc.kind = "motoHeader"
  <2>1. moto' = addMotorolaHeader(moto, HeaderOf(talker, lc.count)) /\ frame' = blank
    BY <1>2 DEF Assemble
  <2>2. lc.count \in Nat
    BY <1>2, AliasParams DEF Words
  <2>3. OfOneSet(moto')
    BY <2>1, <2>2, HeaderSound
  <2>4. CASE lc.count > 0
    BY <1>1, <1>2, <2>1, <2>3, <2>4 DEF Note, NoteHeader
  <2>5. CASE ~(lc.count > 0)
    <3>1. told' = told
      BY <1>2, <2>5 DEF Note, history
    <3>2. moto' = moto
      BY <2>1, <2>2, <2>5, AliasParams DEF addMotorolaHeader, HeaderOf
    <3> QED
      BY <1>1, <2>1, <2>3, <3>1, <3>2
  <2> QED
    BY <2>4, <2>5
<1>3. CASE lc.kind = "motoBlock"
  <2> DEFINE block == [num |-> lc.num, seq |-> AliasSeq[talker], piece |-> Piece(lc.of, lc.num)]
             added == addMotorolaBlock(moto, block)
  <2>1. moto' = added.asm /\ frame' = [blank EXCEPT !.alias = added.alias]
    BY <1>3 DEF Assemble
  <2>2. lc.num \in Nat /\ lc.of \in {talker, Nobody}
    BY <1>3, AliasParams DEF Words
  <2>3. /\ block.num \in Nat /\ block.piece \in SomePiece
        /\ block.piece.of # Nobody => AliasSeq[block.piece.of] = block.seq
    BY <2>2 DEF Piece, SomePiece, MotoInv
  <2>4. /\ OfOneSet(added.asm)
        /\ moto.complete => added.asm.complete
        /\ added.alias.done => /\ ~moto.complete /\ added.asm.complete
                               /\ AliasSeq[added.alias.of] = AliasSeq[added.alias.tg]
    <3> HIDE DEF block
    <3> QED
      BY <2>3, BlockSound
  <2>5. frame'.alias = added.alias
    BY <2>1
  <2>6. told' = (told \/ frame'.alias.done)
    BY <1>3 DEF Note, NoteBlock
  <2> HIDE DEF added
  <2> QED
    BY <1>1, <2>1, <2>4, <2>5, <2>6
<1>4. CASE lc.kind \in {"voice", "other", "harris", "harrisGPS"}
  <2>1. moto' = moto /\ frame'.alias = blank.alias
    BY <1>4 DEF Assemble, assembler
  <2>2. told' = told
    BY <1>4 DEF Note, history, NoteHarris
  <2> QED
    BY <1>1, <2>1, <2>2
<1> QED
  BY <1>2, <1>3, <1>4 DEF Words

\* Every step.
LEMMA MotoStep ==
  ASSUME MotoInv, [FDNext]_vars
  PROVE  /\ MotoInv'
         /\ [frame'.alias.done =>
               ~told /\ AliasSeq[frame'.alias.of] = AliasSeq[frame'.alias.tg]]_vars
<1>1. \A who : LET blank == [Blank EXCEPT !.who = who]
              IN  /\ ~blank.alias.done
                  /\ who \in Talkers \cup {Nobody} =>
                       blank \in [who : Talkers \cup {Nobody}, alias : Aliases,
                                  text : {<<>>}, fix : {<<>>}]
  BY DEF Blank, NoAlias, Aliases
<1>2. ~Blank.alias.done
        /\ Blank \in [who : Talkers \cup {Nobody}, alias : Aliases, text : {<<>>}, fix : {<<>>}]
  BY DEF Blank, NoAlias, Aliases
<1>3. ASSUME NEW lc \in Words, LDU1(lc)
      PROVE  MotoInv' /\ (frame'.alias.done =>
               ~told /\ AliasSeq[frame'.alias.of] = AliasSeq[frame'.alias.tg])
  <2>1. Identity(lc) \in Talkers \cup {Nobody}
    BY DEF Identity, MotoInv
  <2> QED
    BY <1>1, <1>3, <2>1, WordStep DEF LDU1
<1>4. ASSUME NEW lc \in Words, TDUlc(lc)
      PROVE  MotoInv' /\ (frame'.alias.done =>
               ~told /\ AliasSeq[frame'.alias.of] = AliasSeq[frame'.alias.tg])
  BY <1>2, <1>4, WordStep DEF TDUlc
<1>5. CASE LDU1NoLC \/ LDU2 \/ OtherUnit \/ Reset \/ \E decodes \in BOOLEAN : HDU(decodes)
  <2>1. moto' = moto /\ told' = told /\ talker' = talker /\ make' = make
    BY <1>5 DEF LDU1NoLC, LDU2, OtherUnit, Reset, HDU, air, assembler, history
  <2>2. ~frame'.alias.done
    BY <1>1, <1>2, <1>5 DEF LDU1NoLC, LDU2, OtherUnit, Reset, HDU
  <2> QED
    BY <2>1, <2>2 DEF MotoInv
<1>6. CASE NextTalker
  BY <1>2, <1>6, AirParams DEF NextTalker, assembler, history, MotoInv
<1>7. CASE UNCHANGED vars
  BY <1>7 DEF vars, air, assembler, history, MotoInv
<1> QED
  BY <1>3, <1>4, <1>5, <1>6, <1>7 DEF FDNext, ProcessFrame

LEMMA MotoInvariant == FDSpec => []MotoInv
BY MotoInit, MotoStep, PTL DEF FDSpec

\* An alias is given out once for each header, and is one of the number that the header
\* announced, whatever headers and blocks come in whatever order
\* (alias_assembler.go:59-62, 76-79, 129).
THEOREM AliasOnceProp == FDSpec => AliasOnce
<1>1. MotoInv /\ [FDNext]_vars =>
        [frame'.alias.done =>
           /\ ~told
           /\ \/ frame'.alias.of = frame'.alias.tg
              \/ AliasSeq[frame'.alias.of] = AliasSeq[frame'.alias.tg]]_vars
  BY MotoStep
<1> QED
  BY <1>1, MotoInvariant, PTL DEF FDSpec, AliasOnce

-----------------------------------------------------------------------------
\* As long as no alias was given out, a set that was announced has a block missing.
Unfinished(a) == ~a.complete /\ a.count # 0 => ~AllPresent(a, a.blocks)

\* A header begins a set of which all is missing.
LEMMA HeaderUnfinished ==
  ASSUME NEW a, Unfinished(a), NEW h
  PROVE  Unfinished(addMotorolaHeader(a, h))
<1> DEFINE b == addMotorolaHeader(a, h)
<1>1. CASE h.count \in 1..aliasMaxBlocks
  <2>1. b.count = h.count /\ DOMAIN b.blocks = {}
    BY <1>1 DEF addMotorolaHeader
  <2>2. 1 \in 1..b.count
    BY <1>1, <2>1, AliasParams
  <2> QED
    BY <2>1, <2>2 DEF Unfinished, AllPresent
<1>2. CASE h.count \notin 1..aliasMaxBlocks
  BY <1>2 DEF addMotorolaHeader
<1> QED
  BY <1>1, <1>2

\* A block that completes a set was the one missing, and so the alias is of him who sent it.
LEMMA BlockCompletes ==
  ASSUME NEW a, OfOneSet(a), Unfinished(a),
         NEW block, block.num \in Nat, block.piece \in SomePiece
  PROVE  LET added == addMotorolaBlock(a, block)
         IN  /\ Unfinished(added.asm)
             /\ added.alias.done => added.alias.of \in Talkers /\ added.alias.of = block.piece.of
<1> DEFINE added == addMotorolaBlock(a, block)
           blocks == WithBlock(a.blocks, block)
           text == TextOf(a, blocks)
<1>1. a \in Assemblers /\ a.first = <<>> /\ a.count \in Nat
  BY DEF OfOneSet, Assemblers
<1>2. /\ DOMAIN blocks = {block.num} \cup DOMAIN a.blocks
      /\ blocks[block.num] = block.piece
  BY DEF WithBlock
<1>3. DOMAIN text = 1..a.count /\ \A i \in 1..a.count : text[i] = blocks[i]
  BY <1>1 DEF TextOf
<1>4. added.asm.count = a.count
  BY <1>1, BlockAdds
<1>5. ASSUME added.alias.done
      PROVE  /\ added.asm.complete
             /\ added.alias.of \in Talkers /\ added.alias.of = block.piece.of
  <2>1. added.alias # NoAlias
    BY <1>5 DEF NoAlias
  <2>2. /\ ~a.complete /\ added.asm.complete /\ AllPresent(a, blocks)
        /\ added.alias.of \in Talkers /\ BlocksOf[added.alias.of] \in DOMAIN text
    BY <1>1, <2>1, BlockAdds
  <2>3. \A i \in DOMAIN text : text[i].of = added.alias.of
    BY <1>1, <2>1, BlockAdds
  <2> HIDE DEF added, blocks, text
  <2>4. a.count # 0
    BY <1>1, <1>3, <2>2
  <2>5. PICK i \in 1..a.count : i \notin DOMAIN a.blocks
    BY <2>2, <2>4 DEF Unfinished, AllPresent
  <2>6. i = block.num
    BY <1>2, <2>2, <2>5 DEF AllPresent
  <2> QED
    BY <1>2, <1>3, <2>2, <2>3, <2>5, <2>6
<1>6. Unfinished(added.asm)
  <2>1. CASE GivenUp(a)
    BY <2>1 DEF addMotorolaBlock
  <2>2. CASE ~GivenUp(a)
    <3>1. \/ added.alias.done
          \/ added.asm.blocks = <<>>
          \/ ~AllPresent(a, blocks) /\ added.asm.blocks = blocks
      BY <1>1, <2>2, BlockCases
    <3>2. CASE added.alias.done
      BY <1>5, <3>2 DEF Unfinished
    <3>3. CASE added.asm.blocks = <<>>
      <4>1. a.count # 0 => 1 \in 1..a.count
        BY <1>1
      <4>2. DOMAIN <<>> = {}
        OBVIOUS
      <4> HIDE DEF added
      <4> QED
        BY <1>4, <3>3, <4>1, <4>2 DEF Unfinished, AllPresent
    <3>4. CASE ~AllPresent(a, blocks) /\ added.asm.blocks = blocks
      <4> HIDE DEF added, blocks
      <4> QED
        BY <1>4, <3>4 DEF Unfinished, AllPresent
    <3> QED
      BY <3>1, <3>2, <3>3, <3>4
  <2> QED
    BY <2>1, <2>2
<1> QED
  BY <1>5, <1>6

\* What a word does: the alias it completes is of him who talks.
LEMMA WordCompletes ==
  ASSUME MotoInv, Unfinished(moto), NEW lc \in Words,
         NEW who, Assemble(lc, [Blank EXCEPT !.who = who])
  PROVE  /\ Unfinished(moto') /\ frame'.who = who
         /\ frame'.alias.done => frame'.alias.of = talker
<1> DEFINE blank == [Blank EXCEPT !.who = who]
<1>1. blank.who = who /\ blank.alias = NoAlias /\ ~NoAlias.done
  BY DEF Blank, NoAlias
<1>2. CASE lc.kind = "motoHeader"
  <2>1. moto' = addMotorolaHeader(moto, HeaderOf(talker, lc.count)) /\ frame' = blank
    BY <1>2 DEF Assemble
  <2> QED
    BY <1>1, <2>1, HeaderUnfinished
<1>3. CASE lc.kind = "motoBlock"
  <2> DEFINE block == [num |-> lc.num, seq |-> AliasSeq[talker], piece |-> Piece(lc.of, lc.num)]
             added == addMotorolaBlock(moto, block)
  <2>1. moto' = added.asm /\ frame' = [blank EXCEPT !.alias = added.alias]
    BY <1>3 DEF Assemble
  <2>2. frame'.alias = added.alias /\ frame'.who = who
    BY <2>1 DEF Blank
  <2>3. lc.num \in Nat /\ lc.of \in {talker, Nobody} /\ talker \in Talkers
    BY <1>3, AliasParams DEF Words, MotoInv
  <2>4. block.num \in Nat /\ block.piece \in SomePiece /\ block.piece.of = lc.of
    BY <2>3 DEF Piece, SomePiece
  <2>5. /\ Unfinished(added.asm)
        /\ added.alias.done => added.alias.of \in Talkers /\ added.alias.of = lc.of
    <3> HIDE DEF block
    <3> QED
      BY <2>4, BlockCompletes DEF MotoInv
  <2> HIDE DEF added
  <2> QED
    BY <2>1, <2>2, <2>3, <2>5, AliasParams
<1>4. CASE lc.kind \notin {"motoHeader", "motoBlock"}
  <2>1. moto' = moto
    BY <1>4 DEF Assemble, assembler
  <2>2. frame'.who = who /\ frame'.alias = NoAlias
    BY <1>1, <1>4 DEF Assemble, Blank
  <2> QED
    BY <1>1, <2>1, <2>2
<1> QED
  BY <1>2, <1>3, <1>4

\* The identity that a frame gives out is of one heard since the last reset, be it carried
\* over; and a Motorola alias is of him who talks, although the assembler is never reset and
\* its header and first blocks may be of others (frame.go:276-299, 465-490,
\* alias_assembler.go:34-124).
THEOREM NamesWhoTalksInv == FDSpec => []NamesWhoTalks
<1> DEFINE Inv == LCInv /\ Unfinished(moto) /\ NamesWhoTalks
<1>1. FDInit => Inv
  BY DEF FDInit, NoLC, Blank, NoAlias, NewMotorola, Unfinished, LCInv, NamesWhoTalks
<1>2. MotoInv /\ Inv /\ [FDNext]_vars => Inv'
  <2> SUFFICES ASSUME MotoInv, Inv, [FDNext]_vars PROVE Inv'
    OBVIOUS
  <2>1. ASSUME NEW lc \in Words, LDU1(lc) PROVE Inv'
    <3>1. /\ Unfinished(moto') /\ frame'.who = Identity(lc)
          /\ frame'.alias.done => frame'.alias.of = talker
      BY <2>1, WordCompletes DEF LDU1
    <3> QED
      BY <2>1, <3>1 DEF LDU1, air, LCInv, NamesWhoTalks
  <2>2. ASSUME NEW lc \in Words, TDUlc(lc) PROVE Inv'
    <3>1. Blank = [Blank EXCEPT !.who = Nobody]
      BY DEF Blank
    <3>2. /\ Unfinished(moto') /\ frame'.who = Nobody
          /\ frame'.alias.done => frame'.alias.of = talker
      BY <2>2, <3>1, WordCompletes DEF TDUlc
    <3> QED
      BY <2>2, <3>2 DEF TDUlc, air, LCInv, NamesWhoTalks
  <2>3. CASE LDU1NoLC \/ LDU2 \/ OtherUnit \/ Reset \/ NextTalker
    <3>1. moto' = moto /\ ~frame'.alias.done
      BY <2>3 DEF LDU1NoLC, LDU2, OtherUnit, Reset, NextTalker, assembler, Blank, NoAlias
    <3>2. LCInv' /\ frame'.who \in heard' \cup {Nobody}
      BY <2>3 DEF LDU1NoLC, LDU2, OtherUnit, Reset, NextTalker, Carried, NoLC, Blank, LCInv
    <3> QED
      BY <3>1, <3>2 DEF NamesWhoTalks
  <2>4. ASSUME NEW decodes \in BOOLEAN, HDU(decodes) PROVE Inv'
    BY <2>4 DEF HDU, assembler, Blank, NoAlias, LCInv, NamesWhoTalks
  <2>5. CASE UNCHANGED vars
    BY <2>5 DEF vars, air, assembler, LCInv, NamesWhoTalks
  <2> QED
    BY <2>1, <2>2, <2>3, <2>4, <2>5 DEF FDNext, ProcessFrame
<1> QED
  BY <1>1, <1>2, MotoInvariant, PTL DEF FDSpec

-----------------------------------------------------------------------------
(* Types.                                                                  *)

\* What an assembler has collected is in range.
InRange(a) ==
    /\ a.seq \in 0..15 /\ a.count \in 0..aliasMaxBlocks /\ a.tg \in Talkers \cup {Nobody}
    /\ a.failed \in 0..aliasMaxFailedSets /\ a.complete \in BOOLEAN
    /\ \A num \in DOMAIN a.blocks : num \in 1..aliasMaxBlocks /\ a.blocks[num] \in Pieces

HarrisBlocks == [blocks : [1..4 -> Pieces], complete : BOOLEAN]
GPSBlocks    == [blocks : [1..2 -> Pieces], complete : BOOLEAN]

TypeInv == MotoInv /\ FDTypeOK

LEMMA MaxTypes ==
  /\ aliasMaxBlocks \in Nat /\ aliasMaxBlocks >= 4 /\ aliasMaxFailedSets \in Nat \ {0}
  /\ \A t \in Talkers : BlocksOf[t] \in 1..aliasMaxBlocks /\ AliasSeq[t] \in 0..15
BY AliasParams, AirParams

LEMMA HeaderInRange ==
  ASSUME NEW a, InRange(a), NEW t \in Talkers, NEW count \in Nat
  PROVE  InRange(addMotorolaHeader(a, HeaderOf(t, count)))
<1>1. CASE count \notin 1..aliasMaxBlocks
  BY <1>1 DEF addMotorolaHeader, HeaderOf
<1>2. CASE count \in 1..aliasMaxBlocks
  <2> DEFINE b == addMotorolaHeader(a, HeaderOf(t, count))
  <2>1. /\ b.seq = AliasSeq[t] /\ b.count = count /\ b.tg = t /\ b.failed = 0 /\ b.complete = FALSE
        /\ DOMAIN b.blocks = {}
    BY <1>2 DEF addMotorolaHeader, HeaderOf
  <2>2. b.complete \in BOOLEAN
    BY <2>1
  <2>3. InRange(b)
    <3> HIDE DEF b
    <3> QED
      BY <1>2, <2>1, <2>2, MaxTypes DEF InRange
  <2> QED
    BY <2>3
<1> QED
  BY <1>1, <1>2

LEMMA BlockInRange ==
  ASSUME NEW a \in Assemblers, InRange(a),
         NEW block, block.num \in 1..aliasMaxBlocks, block.piece \in Pieces
  PROVE  LET added == addMotorolaBlock(a, block)
         IN  InRange(added.asm) /\ added.alias \in Aliases
<1> DEFINE added == addMotorolaBlock(a, block)
           blocks == WithBlock(a.blocks, block)
<1>1. block.num \in Nat /\ block.piece \in SomePiece
  BY MaxTypes DEF Pieces, SomePiece
<1>2. /\ added.asm \in Assemblers
      /\ added.asm.seq = a.seq /\ added.asm.count = a.count /\ added.asm.tg = a.tg
      /\ added.asm.blocks \in {<<>>, a.blocks} \/ added.asm.blocks = blocks
      /\ added.alias = NoAlias \/ added.alias \in Aliases
  BY <1>1, BlockAdds
<1>3. added.asm.failed \in 0..aliasMaxFailedSets
  <2>1. CASE GivenUp(a)
    BY <2>1 DEF addMotorolaBlock, InRange
  <2>2. CASE ~GivenUp(a)
    <3>1. added.asm.failed \in {a.failed, a.failed + 1}
      BY <1>1, <2>2, BlockCases
    <3>2. a.failed \in 0..aliasMaxFailedSets /\ a.failed < aliasMaxFailedSets
      BY <2>2, MaxTypes DEF GivenUp, InRange
    <3> HIDE DEF added
    <3> QED
      BY <3>1, <3>2, MaxTypes
  <2> QED
    BY <2>1, <2>2
<1>4. \A num \in DOMAIN blocks : num \in 1..aliasMaxBlocks /\ blocks[num] \in Pieces
  BY DEF WithBlock, InRange
<1>5. NoAlias \in Aliases
  BY DEF NoAlias, Aliases
<1> HIDE DEF added, blocks
<1>6. added.asm.complete \in BOOLEAN
  BY <1>2 DEF Assemblers
<1>7. InRange(added.asm)
  BY <1>2, <1>3, <1>4, <1>6 DEF InRange
<1> QED
  BY <1>2, <1>5, <1>7 DEF added

LEMMA HarrisTyped ==
  ASSUME NEW h \in HarrisBlocks, NEW pos \in 1..4, NEW piece \in Pieces
  PROVE  addHarris(h, pos, piece).asm \in HarrisBlocks
<1> DEFINE blocks == [h.blocks EXCEPT ![pos] = piece]
<1>1. blocks \in [1..4 -> Pieces] /\ (blocks[HarrisLast] # NoPiece) \in BOOLEAN
  BY DEF HarrisBlocks
<1>2. addHarris(h, pos, piece).asm
        \in {h, [h EXCEPT !.blocks = blocks],
             [blocks |-> blocks, complete |-> blocks[HarrisLast] # NoPiece]}
  BY DEF addHarris
<1>3. [h EXCEPT !.blocks = blocks] \in HarrisBlocks
  BY <1>1 DEF HarrisBlocks
<1>4. [blocks |-> blocks, complete |-> blocks[HarrisLast] # NoPiece] \in HarrisBlocks
  <2> DEFINE last == blocks[HarrisLast] # NoPiece
  <2>1. last \in BOOLEAN
    OBVIOUS
  <2> HIDE DEF blocks, last
  <2>2. [blocks |-> blocks, complete |-> last] \in HarrisBlocks
    BY <1>1, <2>1 DEF HarrisBlocks
  <2> QED
    BY <2>2 DEF last
<1> QED
  BY <1>2, <1>3, <1>4

LEMMA GPSTyped ==
  ASSUME NEW g \in GPSBlocks, NEW pos \in 1..2, NEW piece \in Pieces, NEW inRange
  PROVE  addHarrisGPSBlock(g, pos, piece, inRange).asm \in GPSBlocks
<1> DEFINE blocks == [g.blocks EXCEPT ![pos] = piece]
<1>1. blocks \in [1..2 -> Pieces]
  BY DEF GPSBlocks
<1>2. addHarrisGPSBlock(g, pos, piece, inRange).asm
        \in {g, [g EXCEPT !.blocks = blocks], NewHarrisGPS, [blocks |-> blocks, complete |-> TRUE]}
  BY DEF addHarrisGPSBlock
<1>3. NewHarrisGPS \in GPSBlocks
  BY MaxTypes DEF NewHarrisGPS, GPSBlocks, NoPiece, Piece, Pieces
<1>4. [g EXCEPT !.blocks = blocks] \in GPSBlocks
  BY <1>1 DEF GPSBlocks
<1>5. [blocks |-> blocks, complete |-> TRUE] \in GPSBlocks
  <2> HIDE DEF blocks
  <2>1. TRUE \in BOOLEAN
    OBVIOUS
  <2> QED
    BY <1>1, <2>1 DEF GPSBlocks
<1> QED
  BY <1>2, <1>3, <1>4, <1>5

\* A word keeps the assemblers' types, and gives out an alias or none.
LEMMA AssembleTyped ==
  ASSUME TypeInv, NEW lc \in Words, NEW blank, blank \in [who : Talkers \cup {Nobody}, alias : Aliases,
                                                          text : {<<>>}, fix : {<<>>}],
         Assemble(lc, blank)
  PROVE  /\ InRange(moto') /\ harris' \in HarrisBlocks /\ harrisGPS' \in GPSBlocks
         /\ frame'.who \in Talkers \cup {Nobody} /\ frame'.alias \in Aliases
<1> USE DEF TypeInv
<1>1. /\ InRange(moto) /\ harris \in HarrisBlocks /\ harrisGPS \in GPSBlocks
      /\ moto \in Assemblers /\ talker \in Talkers
  BY DEF FDTypeOK, InRange, HarrisBlocks, GPSBlocks, MotoInv, OfOneSet
<1>2. \A of \in {talker, Nobody} : \A num \in 1..aliasMaxBlocks : Piece(of, num) \in Pieces
  BY <1>1, MaxTypes DEF Piece, Pieces
<1>3. CASE lc.kind = "motoHeader"
  <2>1. lc.count \in Nat
    BY <1>3, <1>1, MaxTypes DEF Words
  <2>2. InRange(addMotorolaHeader(moto, HeaderOf(talker, lc.count)))
    BY <1>1, <2>1, HeaderInRange
  <2> QED
    BY <1>1, <1>3, <2>2 DEF Assemble
<1>4. CASE lc.kind = "motoBlock"
  <2> DEFINE block == [num |-> lc.num, seq |-> AliasSeq[talker], piece |-> Piece(lc.of, lc.num)]
             added == addMotorolaBlock(moto, block)
  <2>1. moto' = added.asm /\ frame' = [blank EXCEPT !.alias = added.alias]
        /\ UNCHANGED <<harris, harrisGPS>>
    BY <1>4 DEF Assemble
  <2>2. lc.num \in 1..aliasMaxBlocks /\ lc.of \in {talker, Nobody}
    BY <1>1, <1>4, MaxTypes DEF Words
  <2>3. block.num \in 1..aliasMaxBlocks /\ block.piece \in Pieces
    BY <1>2, <2>2
  <2>4. InRange(added.asm) /\ added.alias \in Aliases
    <3> HIDE DEF block
    <3> QED
      BY <1>1, <2>3, BlockInRange
  <2> HIDE DEF added
  <2> QED
    BY <1>1, <2>1, <2>4
<1>5. CASE lc.kind = "harris"
  <2> DEFINE piece == Piece(talker, HarrisText[talker][lc.pos])
             added == addHarris(harris, lc.pos, piece)
  <2>1. harris' = added.asm /\ frame' = [blank EXCEPT !.text = added.text]
        /\ UNCHANGED <<moto, harrisGPS>>
    BY <1>5 DEF Assemble
  <2>2. lc.pos \in 1..4
    BY <1>5 DEF Words
  <2>3. piece \in Pieces
    <3>1. HarrisText[talker][lc.pos] \in 1..aliasMaxBlocks
      BY <1>1, <2>2, MaxTypes, AirParams
    <3> QED
      BY <1>2, <3>1
  <2>4. added.asm \in HarrisBlocks
    <3> HIDE DEF piece
    <3> QED
      BY <1>1, <2>2, <2>3, HarrisTyped
  <2> HIDE DEF added
  <2> QED
    BY <1>1, <2>1, <2>4
<1>6. CASE lc.kind = "harrisGPS"
  <2> DEFINE added == addHarrisGPSBlock(harrisGPS, lc.pos, Piece(talker, lc.pos), lc.inRange)
  <2>1. harrisGPS' = added.asm /\ frame' = [blank EXCEPT !.fix = added.fix]
        /\ UNCHANGED <<moto, harris>>
    BY <1>6 DEF Assemble
  <2>2. lc.pos \in 1..2 /\ lc.pos \in 1..aliasMaxBlocks
    BY <1>6, MaxTypes DEF Words
  <2>4. added.asm \in GPSBlocks
    BY <1>1, <1>2, <2>2, GPSTyped
  <2> HIDE DEF added
  <2> QED
    BY <1>1, <2>1, <2>4
<1>7. CASE lc.kind \in {"voice", "other"}
  BY <1>1, <1>7 DEF Assemble, assembler
<1> QED
  BY <1>3, <1>4, <1>5, <1>6, <1>7 DEF Words

\* The history counts no further than it has to.
LEMMA NoteTyped ==
  ASSUME TypeInv, NEW lc, Note(lc)
  PROVE  header' \in Talkers \cup {Nobody} /\ passes' \in 0..2 /\ spoilt' \in 0..aliasMaxFailedSets
<1> USE MaxTypes DEF TypeInv, FDTypeOK
<1>1. CASE Note(lc) /\ lc.kind = "motoHeader" /\ lc.count > 0
  BY <1>1 DEF Note, NoteHeader
<1>2. CASE lc.kind = "motoBlock"
  BY <1>2 DEF Note, NoteBlock
<1>3. CASE lc.kind # "motoBlock" /\ ~(lc.kind = "motoHeader" /\ lc.count > 0)
  BY <1>3 DEF Note, NoteHarris, history
<1> QED
  BY <1>1, <1>2, <1>3

LEMMA TypeInit == FDInit => TypeInv
<1> SUFFICES ASSUME FDInit PROVE FDTypeOK
  BY MotoInit DEF TypeInv
<1> USE MaxTypes DEF FDInit
<1>1. /\ moto.seq = 0 /\ moto.count = 0 /\ moto.tg = Nobody /\ moto.failed = 0
      /\ moto.complete = FALSE /\ DOMAIN moto.blocks = {}
  BY DEF NewMotorola
<1>2. moto.complete \in BOOLEAN
  BY <1>1
<1>3. harris \in [blocks : [1..4 -> Pieces], complete : BOOLEAN]
      /\ harrisGPS \in [blocks : [1..2 -> Pieces], complete : BOOLEAN]
  BY DEF NewHarris, NewHarrisGPS, NoPiece, Piece, Pieces
<1>4. lastLC \in [valid : BOOLEAN, who : Talkers \cup {Nobody}]
  BY DEF NoLC
<1>5. frame.who \in Talkers \cup {Nobody} /\ frame.alias \in Aliases
  BY DEF Blank, NoAlias, Aliases
<1>6. make \in Makes /\ talker \in Talkers
  BY AirParams
<1> QED
  BY <1>1, <1>2, <1>3, <1>4, <1>5, <1>6 DEF FDTypeOK

LEMMA TypeStep == TypeInv /\ [FDNext]_vars => TypeInv'
<1> SUFFICES ASSUME TypeInv, [FDNext]_vars PROVE FDTypeOK'
  BY MotoStep DEF TypeInv
<1>1. /\ make \in Makes /\ talker \in Talkers
      /\ lastLC \in [valid : BOOLEAN, who : Talkers \cup {Nobody}]
      /\ InRange(moto) /\ harris \in HarrisBlocks /\ harrisGPS \in GPSBlocks
      /\ frame.who \in Talkers \cup {Nobody} /\ frame.alias \in Aliases
      /\ heard \subseteq Talkers \cup {Nobody}
      /\ header \in Talkers \cup {Nobody} /\ passes \in 0..2 /\ spoilt \in 0..aliasMaxFailedSets
  BY DEF TypeInv, FDTypeOK, InRange, HarrisBlocks, GPSBlocks
<1>2. \A who \in Talkers \cup {Nobody} :
        [Blank EXCEPT !.who = who] \in [who : Talkers \cup {Nobody}, alias : Aliases,
                                        text : {<<>>}, fix : {<<>>}]
  BY DEF Blank, NoAlias, Aliases
<1>3. Blank \in [who : Talkers \cup {Nobody}, alias : Aliases, text : {<<>>}, fix : {<<>>}]
  BY DEF Blank, NoAlias, Aliases
<1>4. ASSUME NEW lc \in Words, NEW blank,
             blank \in [who : Talkers \cup {Nobody}, alias : Aliases, text : {<<>>}, fix : {<<>>}],
             Assemble(lc, blank), Note(lc), UNCHANGED air,
             lastLC' \in [valid : BOOLEAN, who : Talkers \cup {Nobody}],
             heard' \subseteq Talkers \cup {Nobody}
      PROVE  FDTypeOK'
  BY <1>1, <1>4, AssembleTyped, NoteTyped DEF air, FDTypeOK, InRange, HarrisBlocks, GPSBlocks
<1>5. ASSUME NEW lc \in Words, LDU1(lc) PROVE FDTypeOK'
  <2>1. Identity(lc) \in Talkers \cup {Nobody}
    BY <1>1 DEF Identity
  <2>2. /\ Assemble(lc, [Blank EXCEPT !.who = Identity(lc)]) /\ Note(lc) /\ UNCHANGED air
        /\ lastLC' = [valid |-> TRUE, who |-> Identity(lc)] /\ heard' = heard \cup {Identity(lc)}
    BY <1>5 DEF LDU1
  <2>3. lastLC' \in [valid : BOOLEAN, who : Talkers \cup {Nobody}]
    BY <2>1, <2>2
  <2>4. heard' \subseteq Talkers \cup {Nobody}
    BY <1>1, <2>1, <2>2
  <2> QED
    BY <1>2, <1>4, <2>1, <2>2, <2>3, <2>4
<1>6. ASSUME NEW lc \in Words, TDUlc(lc) PROVE FDTypeOK'
  BY <1>1, <1>3, <1>4, <1>6 DEF TDUlc
<1>7. CASE LDU1NoLC \/ LDU2 \/ OtherUnit \/ \E decodes \in BOOLEAN : HDU(decodes)
  <2>1. /\ UNCHANGED <<air, lastLC, assembler, history>>
        /\ \E who \in Talkers \cup {Nobody} : frame' = [Blank EXCEPT !.who = who] \/ frame' = Blank
        /\ heard' \in {heard, heard \cup {talker}}
    BY <1>1, <1>7 DEF LDU1NoLC, LDU2, OtherUnit, HDU, Carried
  <2>2. frame'.who \in Talkers \cup {Nobody} /\ frame'.alias \in Aliases
    BY <1>2, <1>3, <2>1
  <2> QED
    BY <1>1, <2>1, <2>2 DEF air, assembler, history, FDTypeOK, InRange, HarrisBlocks, GPSBlocks
<1>8. CASE Reset
  <2>1. NoLC \in [valid : BOOLEAN, who : Talkers \cup {Nobody}]
    BY DEF NoLC
  <2> QED
    BY <1>1, <1>3, <1>8, <2>1
       DEF Reset, air, assembler, history, FDTypeOK, InRange, HarrisBlocks, GPSBlocks
<1>9. CASE NextTalker
  BY <1>1, <1>3, <1>9, AirParams
     DEF NextTalker, air, assembler, history, FDTypeOK, InRange, HarrisBlocks, GPSBlocks
<1>10. CASE UNCHANGED vars
  BY <1>1, <1>10
     DEF vars, air, assembler, history, FDTypeOK, InRange, HarrisBlocks, GPSBlocks
<1> QED
  BY <1>5, <1>6, <1>7, <1>8, <1>9, <1>10 DEF FDNext, ProcessFrame

LEMMA Typed == FDSpec => []TypeInv
BY TypeInit, TypeStep, PTL DEF FDSpec

\* What is kept between units stays in range, whatever headers and blocks come in whatever
\* order: no set has more blocks than an alias may, and no more sets fail than are allowed
\* to (alias_assembler.go:34-130).
THEOREM FDTypeInv == FDSpec => []FDTypeOK
BY Typed, PTL DEF TypeInv

-----------------------------------------------------------------------------
(* What becomes of a Motorola alias that keeps coming.                     *)

\* Whether a block that was collected is the one that the talker of the header sent, and
\* whether there is one of his set that is not.
His(t, blocks, num) == num \in DOMAIN blocks /\ blocks[num] = Piece(t, num)
Odd(t, asm) == \E num \in 1..asm.count : /\ num \in DOMAIN asm.blocks
                                         /\ asm.blocks[num] # Piece(t, num)

\* Until his alias is given out, every set that failed is accounted for by a block that was
\* spoilt, and one more if a set with such a block is being collected.  His blocks are all
\* there since the last spoilt one, or a set failed since; in which case the blocks that
\* came later are his.
Due ==
    /\ header \in Talkers
    /\ moto.seq = AliasSeq[header] /\ moto.count = BlocksOf[header]
    /\ ~moto.complete
    /\ moto.failed <= spoilt /\ (Odd(header, moto) => moto.failed < spoilt)
    /\ \/ passes = 0 /\ \A num \in got : His(header, moto.blocks, num)
       \/ passes = 0 /\ ~Odd(header, moto) /\ spoilt > 0
       \/ passes = 1 /\ ~Odd(header, moto) /\ spoilt > 0 /\ \A num \in got : His(header, moto.blocks, num)

DueInv == header # Nobody /\ ~told /\ spoilt < aliasMaxFailedSets => Due

\* A header begins a set of which nothing is there.
LEMMA HeaderDue ==
  ASSUME TypeInv, NEW lc \in Words, lc.kind = "motoHeader", lc.count > 0,
         moto' = addMotorolaHeader(moto, HeaderOf(talker, lc.count)), NoteHeader(lc)
  PROVE  DueInv'
<1>1. talker \in Talkers /\ lc.count = BlocksOf[talker] /\ lc.count \in 1..aliasMaxBlocks
  BY MaxTypes DEF TypeInv, FDTypeOK, Words
<1>2. /\ moto'.seq = AliasSeq[talker] /\ moto'.count = lc.count /\ moto'.failed = 0
      /\ ~moto'.complete /\ DOMAIN moto'.blocks = {}
  BY <1>1 DEF addMotorolaHeader, HeaderOf
<1>3. header' = talker /\ passes' = 0 /\ got' = {} /\ spoilt' = 0
  BY DEF NoteHeader
<1>4. ~Odd(header', moto')
  BY <1>2 DEF Odd
<1> QED
  BY <1>1, <1>2, <1>3, <1>4 DEF DueInv, Due

LEMMA BlockDue ==
  ASSUME TypeInv, DueInv, NEW lc \in Words, lc.kind = "motoBlock",
         NEW block, block = [num |-> lc.num, seq |-> AliasSeq[talker], piece |-> Piece(lc.of, lc.num)],
         NEW added, added = addMotorolaBlock(moto, block),
         moto' = added.asm, frame'.alias = added.alias, NoteBlock(lc)
  PROVE  DueInv'
<1> SUFFICES ASSUME header' # Nobody, ~told', spoilt' < aliasMaxFailedSets PROVE Due'
  BY DEF DueInv
<1> DEFINE blocks == WithBlock(moto.blocks, block)
           now == IF Good(lc) THEN got \cup {lc.num} ELSE {}
           all == Good(lc) /\ now = 1..BlocksOf[talker]
<1>1. /\ header' = header /\ ~told /\ ~added.alias.done
      /\ passes' = (IF ~Good(lc) THEN 0 ELSE IF all /\ passes < 2 THEN passes + 1 ELSE passes)
      /\ got' = IF all THEN {} ELSE now
      /\ spoilt' = IF Good(lc) \/ spoilt = aliasMaxFailedSets THEN spoilt ELSE spoilt + 1
  BY DEF NoteBlock
<1>2. /\ spoilt \in Nat /\ spoilt < aliasMaxFailedSets /\ aliasMaxFailedSets \in Nat
      /\ moto.failed \in Nat /\ moto.count \in Nat /\ talker \in Talkers /\ moto \in Assemblers
      /\ moto.first = <<>>
  BY <1>1, MaxTypes DEF TypeInv, FDTypeOK, MotoInv, OfOneSet
<1>3. Due
  BY <1>1, <1>2 DEF DueInv
<1>4. /\ block.num = lc.num /\ block.seq = AliasSeq[talker] /\ block.piece = Piece(lc.of, lc.num)
      /\ lc.num \in 1..BlocksOf[talker] /\ lc.of \in {talker, Nobody}
      /\ block.num \in Nat /\ block.piece \in SomePiece
  BY <1>2, MaxTypes DEF Words, Piece, SomePiece
<1>5. ~GivenUp(moto)
  BY <1>2, <1>3 DEF GivenUp, Due
<1>6. moto'.seq = moto.seq /\ moto'.count = moto.count
  BY <1>2, <1>4, BlockAdds
<1>7. /\ ~moto'.complete
      /\ ~ThisAlias(moto, block) => moto'.blocks = <<>> /\ moto'.failed = moto.failed
      /\ ThisAlias(moto, block) =>
           \/ ~AllPresent(moto, blocks) /\ moto'.blocks = blocks /\ moto'.failed = moto.failed
           \/ /\ AllPresent(moto, blocks) /\ MotorolaAliasDecode(TextOf(moto, blocks)) = {}
              /\ moto'.blocks = <<>> /\ moto'.failed = moto.failed + 1
  BY <1>1, <1>2, <1>3, <1>4, <1>5, BlockCases DEF Due
<1>8. moto'.blocks = <<>> => ~Odd(header', moto')
  <2>1. DOMAIN <<>> = {}
    OBVIOUS
  <2> QED
    BY <2>1 DEF Odd
<1>9. CASE ~Good(lc)
  <2>1. passes' = 0 /\ got' = {} /\ spoilt' = spoilt + 1
    BY <1>1, <1>2, <1>9
  <2>2. moto'.failed <= spoilt + 1 /\ (moto'.blocks # <<>> => moto'.failed = moto.failed)
        /\ moto.failed <= spoilt
    BY <1>2, <1>3, <1>7 DEF Due
  <2>3. moto'.failed <= spoilt' /\ (Odd(header', moto') => moto'.failed < spoilt')
    BY <1>2, <1>8, <2>1, <2>2
  <2>4. header' \in Talkers /\ moto'.seq = AliasSeq[header'] /\ moto'.count = BlocksOf[header']
    BY <1>1, <1>3, <1>6 DEF Due
  <2> QED
    BY <1>7, <2>1, <2>3, <2>4 DEF Due
<1>10. CASE Good(lc)
  <2>1. /\ header = talker /\ lc.of = header /\ ThisAlias(moto, block) /\ spoilt' = spoilt
        /\ lc.num \in 1..moto.count /\ moto.count = BlocksOf[talker] /\ header \in Talkers
    BY <1>1, <1>3, <1>4, <1>10 DEF Good, Due, ThisAlias
  <2>2. /\ DOMAIN blocks = {lc.num} \cup DOMAIN moto.blocks
        /\ His(header, blocks, lc.num)
        /\ \A n \in DOMAIN moto.blocks : n # lc.num => blocks[n] = moto.blocks[n]
    BY <1>4, <2>1 DEF WithBlock, His
  <2>3. ASSUME \A num \in got : His(header, moto.blocks, num)
        PROVE  \A num \in got \cup {lc.num} : His(header, blocks, num)
    BY <2>2, <2>3 DEF His
  <2>4. ASSUME NEW m \in 1..moto.count, m \in DOMAIN blocks, blocks[m] # Piece(header, m)
        PROVE  Odd(header, moto)
    BY <2>2, <2>4 DEF Odd, His
  <2>5. ASSUME 1..moto.count \subseteq got \cup {lc.num}, \A num \in got : His(header, moto.blocks, num)
        PROVE  AllPresent(moto, blocks) /\ \A num \in 1..moto.count : His(header, blocks, num)
    BY <2>3, <2>5 DEF AllPresent, His
  <2>6. header' \in Talkers /\ moto'.seq = AliasSeq[header'] /\ moto'.count = BlocksOf[header']
    BY <1>1, <1>3, <1>6 DEF Due
  <2> HIDE DEF blocks
  <2>7. CASE ~AllPresent(moto, blocks) /\ moto'.blocks = blocks /\ moto'.failed = moto.failed
    <3>1. Odd(header', moto') => Odd(header, moto)
      BY <1>1, <1>6, <2>4, <2>7 DEF Odd
    <3>2. moto'.failed <= spoilt' /\ (Odd(header', moto') => moto'.failed < spoilt')
      BY <1>3, <2>1, <2>7, <3>1 DEF Due
    <3>3. \A num : His(header', moto'.blocks, num) <=> His(header, blocks, num)
      BY <1>1, <2>7 DEF His
    <3>4. CASE all
      <4>1. ~(\A num \in got : His(header, moto.blocks, num))
        BY <1>10, <2>1, <2>5, <2>7, <3>4
      <4>2. passes = 0 /\ ~Odd(header, moto) /\ spoilt > 0
        BY <1>3, <4>1 DEF Due
      <4>3. passes' = 1 /\ got' = {}
        BY <1>1, <1>10, <3>4, <4>2
      <4> QED
        BY <1>7, <2>1, <2>6, <3>1, <3>2, <4>2, <4>3 DEF Due
    <3>5. CASE ~all
      <4>1. passes' = passes /\ got' = got \cup {lc.num}
        BY <1>1, <1>10, <3>5
      <4>2. (\A num \in got : His(header, moto.blocks, num)) => (\A num \in got' : His(header', moto'.blocks, num))
        BY <2>3, <3>3, <4>1
      <4>3. \/ passes' = 0 /\ \A num \in got' : His(header', moto'.blocks, num)
            \/ passes' = 0 /\ ~Odd(header', moto') /\ spoilt' > 0
            \/ passes' = 1 /\ ~Odd(header', moto') /\ spoilt' > 0 /\ \A num \in got' : His(header', moto'.blocks, num)
        BY <1>3, <2>1, <3>1, <4>1, <4>2 DEF Due
      <4> QED
        BY <1>7, <2>6, <3>2, <4>3 DEF Due
    <3> QED
      BY <3>4, <3>5
  <2>8. CASE /\ AllPresent(moto, blocks) /\ MotorolaAliasDecode(TextOf(moto, blocks)) = {}
             /\ moto'.blocks = <<>> /\ moto'.failed = moto.failed + 1
    <3>1. ~(\A n \in 1..moto.count : blocks[n] = Piece(header, n))
      BY <1>2, <2>1, <2>8, AllHis
    <3>2. Odd(header, moto)
      BY <2>4, <2>8, <3>1 DEF AllPresent
    <3>3. passes = 0 /\ (\A num \in got : His(header, moto.blocks, num)) /\ moto.failed < spoilt
      BY <1>3, <3>2 DEF Due
    <3>4. ~all
      BY <1>10, <2>1, <2>5, <3>1, <3>3 DEF His
    <3>5. passes' = 0 /\ moto'.failed <= spoilt' /\ spoilt' > 0
      BY <1>1, <1>2, <1>10, <2>1, <2>8, <3>3, <3>4
    <3> QED
      BY <1>7, <1>8, <2>6, <2>8, <3>5 DEF Due
  <2> QED
    BY <1>7, <2>1, <2>7, <2>8
<1> QED
  BY <1>9, <1>10

LEMMA WordDue ==
  ASSUME TypeInv, DueInv, NEW lc \in Words,
         NEW blank, blank \in [who : Talkers \cup {Nobody}, alias : Aliases, text : {<<>>}, fix : {<<>>}],
         Assemble(lc, blank), Note(lc)
  PROVE  DueInv'
<1>1. CASE lc.kind = "motoHeader" /\ lc.count > 0
  <2>1. moto' = addMotorolaHeader(moto, HeaderOf(talker, lc.count)) /\ NoteHeader(lc)
    BY <1>1 DEF Assemble, Note
  <2> QED
    BY <1>1, <2>1, HeaderDue
<1>2. CASE lc.kind = "motoBlock"
  <2>1. PICK block : block = [num |-> lc.num, seq |-> AliasSeq[talker], piece |-> Piece(lc.of, lc.num)]
    OBVIOUS
  <2>2. PICK added : added = addMotorolaBlock(moto, block)
    OBVIOUS
  <2>3. moto' = added.asm /\ frame' = [blank EXCEPT !.alias = added.alias] /\ NoteBlock(lc)
    BY <1>2, <2>1, <2>2 DEF Assemble, Note
  <2>4. frame'.alias = added.alias
    BY <2>3
  <2> QED
    BY <1>2, <2>1, <2>2, <2>3, <2>4, BlockDue
<1>3. CASE lc.kind # "motoBlock" /\ ~(lc.kind = "motoHeader" /\ lc.count > 0)
  <2>1. UNCHANGED <<header, passes, got, spoilt, told>>
    BY <1>3 DEF Note, NoteHarris, history
  <2>2. moto' = moto
    <3>1. CASE lc.kind = "motoHeader"
      <4>1. lc.count \notin 1..aliasMaxBlocks
        BY <1>3, <3>1, MaxTypes
      <4> QED
        BY <3>1, <4>1 DEF Assemble, addMotorolaHeader, HeaderOf
    <3>2. CASE lc.kind # "motoHeader"
      BY <1>3, <3>2 DEF Assemble, assembler
    <3> QED
      BY <3>1, <3>2
  <2> QED
    BY <2>1, <2>2 DEF DueInv, Due, Odd, His
<1> QED
  BY <1>1, <1>2, <1>3

LEMMA DueStep == TypeInv /\ DueInv /\ [FDNext]_vars => DueInv'
<1> SUFFICES ASSUME TypeInv, DueInv, [FDNext]_vars PROVE DueInv'
  OBVIOUS
<1>1. \A who \in Talkers \cup {Nobody} :
        [Blank EXCEPT !.who = who] \in [who : Talkers \cup {Nobody}, alias : Aliases,
                                        text : {<<>>}, fix : {<<>>}]
  BY DEF Blank, NoAlias, Aliases
<1>2. Blank \in [who : Talkers \cup {Nobody}, alias : Aliases, text : {<<>>}, fix : {<<>>}]
  BY DEF Blank, NoAlias, Aliases
<1>3. ASSUME NEW lc \in Words, LDU1(lc) PROVE DueInv'
  <2>1. Identity(lc) \in Talkers \cup {Nobody}
    BY DEF Identity, TypeInv, FDTypeOK
  <2> QED
    BY <1>1, <1>3, <2>1, WordDue DEF LDU1
<1>4. ASSUME NEW lc \in Words, TDUlc(lc) PROVE DueInv'
  BY <1>2, <1>4, WordDue DEF TDUlc
<1>5. CASE \/ LDU1NoLC \/ LDU2 \/ OtherUnit \/ Reset \/ NextTalker \/ UNCHANGED vars
           \/ \E decodes \in BOOLEAN : HDU(decodes)
  <2>1. UNCHANGED <<moto, header, passes, got, spoilt, told>>
    BY <1>5 DEF LDU1NoLC, LDU2, OtherUnit, Reset, HDU, NextTalker, assembler, history, vars
  <2> QED
    BY <2>1 DEF DueInv, Due, Odd, His
<1> QED
  BY <1>3, <1>4, <1>5 DEF FDNext, ProcessFrame

\* A talker's Motorola alias is given out once his blocks have all come through after his
\* header: at once, if nothing else came in between, and the next time at the latest if
\* something did; a set that a bad block spoilt takes nothing with it but itself
\* (alias_assembler.go:63-130).
THEOREM MotorolaDeliveredInv == FDSpec => []MotorolaDelivered
<1>1. FDInit => DueInv
  BY DEF FDInit, DueInv
<1>2. TypeInv /\ DueInv => MotorolaDelivered
  <2> SUFFICES ASSUME TypeInv, DueInv, header # Nobody, spoilt < aliasMaxFailedSets, ~told
               PROVE  ~(passes >= (IF spoilt = 0 THEN 1 ELSE 2))
    BY DEF MotorolaDelivered
  <2>1. Due /\ spoilt \in 0..aliasMaxFailedSets
    BY DEF DueInv, TypeInv, FDTypeOK
  <2> QED
    BY <2>1, MaxTypes DEF Due
<1> QED
  BY <1>1, <1>2, DueStep, Typed, PTL DEF FDSpec

-----------------------------------------------------------------------------
(* What is said of a Harris alias.                                         *)

\* What was said last is what the blocks make, once the first two are there; and if the
\* last one is there too, no more is heard.
SaidInv ==
    /\ said = IF harris.blocks[1] = NoPiece \/ harris.blocks[2] = NoPiece THEN <<>>
              ELSE HarrisAliasString(harris.blocks)
    /\ harris.blocks[4] # NoPiece /\ ~harris.complete
         => harris.blocks[1] = NoPiece \/ harris.blocks[2] = NoPiece

\* A piece is said after what was, or not at all.
LEMMA SaidAfter ==
  ASSUME NEW text \in Seq(Pieces), NEW p \in Pieces
  PROVE  /\ Say(text, p) \in Seq(Pieces)
         /\ IsPrefix(text, Say(text, p))
         /\ text # <<>> => Say(text, p) # <<>>
         /\ Say(text, NoPiece) = text
<1>1. Say(text, NoPiece) = text
  BY DEF Say
<1>2. CASE Say(text, p) = text
  BY <1>1, <1>2 DEF IsPrefix
<1>3. CASE Say(text, p) = Append(text, p)
  <2>1. Append(text, p) \in Seq(Pieces) /\ Len(Append(text, p)) = Len(text) + 1
    OBVIOUS
  <2>2. SubSeq(Append(text, p), 1, Len(text)) = text /\ SubSeq(text, 1, Len(text)) = text
    OBVIOUS
  <2>3. Append(text, p) # <<>>
    <3>1. Len(text) \in Nat /\ Len(<<>>) = 0
      OBVIOUS
    <3> QED
      BY <2>1, <3>1
  <2> QED
    BY <1>1, <1>3, <2>1, <2>2, <2>3 DEF IsPrefix
<1> QED
  BY <1>2, <1>3 DEF Say

LEMMA FirstSaid ==
  ASSUME NEW p \in Pieces, p # NoPiece
  PROVE  Say(<<>>, p) \in Seq(Pieces) /\ Say(<<>>, p) # <<>>
<1>1. ~Contains(<<>>, p)
  BY DEF Contains
<1>2. Say(<<>>, p) = Append(<<>>, p)
  BY <1>1 DEF Say
<1>3. <<>> \in Seq(Pieces)
  OBVIOUS
<1>4. Append(<<>>, p) \in Seq(Pieces) /\ Len(Append(<<>>, p)) = 1 /\ Len(<<>>) = 0
  BY <1>3
<1>5. Append(<<>>, p) # <<>>
  BY <1>4
<1> QED
  BY Zenon, <1>2, <1>4, <1>5

\* What four blocks say, of which the first two are there: it is something, and adding the
\* third or the last of them only adds to it.
LEMMA BlockSaid ==
  ASSUME NEW old \in [1..4 -> Pieces], old[1] # NoPiece, old[2] # NoPiece
  PROVE  /\ HarrisAliasString(old) \in Seq(Pieces) /\ HarrisAliasString(old) # <<>>
         /\ \A pos \in 3..4, p \in Pieces :
              old[pos] = NoPiece /\ old[4] = NoPiece
                => IsPrefix(HarrisAliasString(old), HarrisAliasString([old EXCEPT ![pos] = p]))
<1>1. PICK two : two = Say(Say(<<>>, old[1]), old[2])
  OBVIOUS
<1>2. two \in Seq(Pieces) /\ two # <<>>
  BY <1>1, FirstSaid, SaidAfter
<1>3. HarrisAliasString(old) = Say(Say(two, old[3]), old[4])
  BY <1>1, FourSaid
<1>4. HarrisAliasString(old) \in Seq(Pieces) /\ HarrisAliasString(old) # <<>>
  BY <1>2, <1>3, SaidAfter
<1>5. ASSUME NEW p \in Pieces, old[4] = NoPiece
      PROVE  IsPrefix(HarrisAliasString(old), HarrisAliasString([old EXCEPT ![4] = p]))
  <2>1. PICK new : new = [old EXCEPT ![4] = p]
    OBVIOUS
  <2>2. /\ DOMAIN new = 1..4 /\ new[1] = old[1] /\ new[2] = old[2] /\ new[3] = old[3]
        /\ new[4] = p
    BY <2>1
  <2>3. HarrisAliasString(new) = Say(Say(two, old[3]), p)
    BY <1>1, <2>2, FourSaid
  <2>4. Say(two, old[3]) \in Seq(Pieces) /\ HarrisAliasString(old) = Say(two, old[3])
    BY <1>2, <1>3, <1>5, SaidAfter
  <2> QED
    BY <2>1, <2>3, <2>4, SaidAfter
<1>6. ASSUME NEW p \in Pieces, old[4] = NoPiece, old[3] = NoPiece
      PROVE  IsPrefix(HarrisAliasString(old), HarrisAliasString([old EXCEPT ![3] = p]))
  <2>1. PICK new : new = [old EXCEPT ![3] = p]
    OBVIOUS
  <2>2. /\ DOMAIN new = 1..4 /\ new[1] = old[1] /\ new[2] = old[2] /\ new[3] = p
        /\ new[4] = NoPiece
    BY <1>6, <2>1
  <2>3. HarrisAliasString(new) = Say(Say(two, p), NoPiece)
    BY <1>1, <2>2, FourSaid
  <2>4. Say(two, p) \in Seq(Pieces) /\ HarrisAliasString(new) = Say(two, p)
    BY <1>2, <2>3, SaidAfter
  <2>5. HarrisAliasString(old) = two
    BY <1>2, <1>3, <1>6, SaidAfter
  <2> QED
    BY <1>2, <2>1, <2>4, <2>5, SaidAfter
<1> QED
  BY <1>4, <1>5, <1>6

\* A block that is heard keeps what was said, and says more of it.
LEMMA HarrisSays ==
  ASSUME NEW h \in HarrisBlocks, NEW pos \in 1..4, NEW p \in Pieces, p # NoPiece,
         h.blocks[4] # NoPiece /\ ~h.complete => h.blocks[1] = NoPiece \/ h.blocks[2] = NoPiece,
         NEW text, text = IF h.blocks[1] = NoPiece \/ h.blocks[2] = NoPiece THEN <<>>
                          ELSE HarrisAliasString(h.blocks),
         NEW added, added = addHarris(h, pos, p),
         NEW now, now = IF added.text = <<>> THEN text ELSE added.text
  PROVE  /\ IsPrefix(text, now)
         /\ now = IF added.asm.blocks[1] = NoPiece \/ added.asm.blocks[2] = NoPiece THEN <<>>
                  ELSE HarrisAliasString(added.asm.blocks)
         /\ added.asm.blocks[4] # NoPiece /\ ~added.asm.complete
              => added.asm.blocks[1] = NoPiece \/ added.asm.blocks[2] = NoPiece
<1>1. h.blocks \in [1..4 -> Pieces]
  BY DEF HarrisBlocks
<1>2. PICK blocks : blocks = [h.blocks EXCEPT ![pos] = p]
  OBVIOUS
<1>3. /\ blocks \in [1..4 -> Pieces] /\ blocks[pos] = p
      /\ \A n \in 1..4 : n # pos => blocks[n] = h.blocks[n]
  BY <1>1, <1>2
<1>4. CASE h.complete \/ h.blocks[pos] # NoPiece
  <2>1. added.asm = h /\ added.text = <<>>
    BY <1>4 DEF addHarris, Kept
  <2>2. IsPrefix(text, text)
    <3>1. text \in Seq(Pieces)
      <4>1. CASE h.blocks[1] # NoPiece /\ h.blocks[2] # NoPiece
        BY <1>1, <4>1, BlockSaid
      <4> QED
        BY <4>1
    <3> QED
      BY <3>1 DEF IsPrefix
  <2> QED
    BY <2>1, <2>2
<1>5. CASE ~h.complete /\ h.blocks[pos] = NoPiece
  <2>1. CASE blocks[1] = NoPiece \/ blocks[2] = NoPiece
    <3>1. added.asm = [h EXCEPT !.blocks = blocks] /\ added.text = <<>>
      BY <1>2, <1>5, <2>1 DEF addHarris, Kept
    <3>2. added.asm.blocks = blocks
      BY <3>1 DEF HarrisBlocks
    <3>3. h.blocks[1] = NoPiece \/ h.blocks[2] = NoPiece
      BY <1>3, <1>5, <2>1
    <3>4. text = <<>> /\ now = <<>>
      BY <3>1, <3>3
    <3> QED
      BY <2>1, <3>2, <3>4 DEF IsPrefix
  <2>2. CASE blocks[1] # NoPiece /\ blocks[2] # NoPiece
    <3>1. /\ added.asm = [blocks |-> blocks, complete |-> blocks[HarrisLast] # NoPiece]
          /\ added.text = HarrisAliasString(blocks)
      BY <1>2, <1>5, <2>2 DEF addHarris, Kept
    <3>2. added.asm.blocks = blocks /\ (blocks[4] # NoPiece => added.asm.complete)
      <4>1. PICK last \in BOOLEAN : last = (blocks[HarrisLast] # NoPiece)
        OBVIOUS
      <4>2. added.asm = [blocks |-> blocks, complete |-> last]
        BY <3>1, <4>1
      <4>3. added.asm.blocks = blocks /\ added.asm.complete = last
        BY <4>2
      <4> QED
        BY <4>1, <4>3 DEF HarrisLast
    <3>3. HarrisAliasString(blocks) # <<>> /\ now = HarrisAliasString(blocks)
      BY <1>3, <2>2, <3>1, BlockSaid
    <3>4. IsPrefix(text, now)
      <4>1. CASE h.blocks[1] = NoPiece \/ h.blocks[2] = NoPiece
        <5>1. text = <<>> /\ now \in Seq(Pieces)
          BY <1>3, <2>2, <3>3, <4>1, BlockSaid
        <5> QED
          BY <5>1 DEF IsPrefix
      <4>2. CASE h.blocks[1] # NoPiece /\ h.blocks[2] # NoPiece
        <5>1. pos \in 3..4 /\ h.blocks[4] = NoPiece /\ text = HarrisAliasString(h.blocks)
          BY <1>5, <4>2
        <5> QED
          BY <1>1, <1>2, <1>5, <3>3, <4>2, <5>1, BlockSaid
      <4> QED
        BY <4>1, <4>2
    <3> QED
      BY <2>2, <3>2, <3>3, <3>4
  <2> QED
    BY <2>1, <2>2
<1> QED
  BY <1>4, <1>5

LEMMA SaidStep == TypeInv /\ SaidInv /\ [FDNext]_vars => SaidInv' /\ IsPrefix(said, said')
<1> SUFFICES ASSUME TypeInv, SaidInv, [FDNext]_vars PROVE SaidInv' /\ IsPrefix(said, said')
  OBVIOUS
<1>1. harris \in HarrisBlocks /\ talker \in Talkers /\ talker # Nobody
  BY AliasParams DEF TypeInv, FDTypeOK, HarrisBlocks
<1>2. ASSUME UNCHANGED <<harris, said>> PROVE SaidInv' /\ IsPrefix(said, said')
  <2>1. said \in Seq(Pieces)
    <3>1. harris.blocks \in [1..4 -> Pieces]
      BY <1>1 DEF HarrisBlocks
    <3>2. CASE harris.blocks[1] # NoPiece /\ harris.blocks[2] # NoPiece
      BY <3>1, <3>2, BlockSaid DEF SaidInv
    <3> QED
      BY <3>2 DEF SaidInv
  <2>2. IsPrefix(said, said)
    BY <2>1 DEF IsPrefix
  <2> QED
    BY <1>2, <2>2 DEF SaidInv
<1>3. ASSUME NEW lc \in Words, NEW blank, Assemble(lc, blank), Note(lc),
             blank \in [who : Talkers \cup {Nobody}, alias : Aliases, text : {<<>>}, fix : {<<>>}]
      PROVE  SaidInv' /\ IsPrefix(said, said')
  <2>1. CASE lc.kind = "harris"
    <3>1. lc.pos \in 1..4
      BY <2>1 DEF Words
    <3>2. PICK p : p = Piece(talker, HarrisText[talker][lc.pos])
      OBVIOUS
    <3>3. p \in Pieces /\ p # NoPiece
      <4>1. HarrisText[talker][lc.pos] \in 1..4 /\ aliasMaxBlocks \in Nat /\ aliasMaxBlocks >= 4
        BY <1>1, <3>1, AirParams, AliasParams
      <4> QED
        BY <1>1, <3>2, <4>1 DEF Pieces, Piece, NoPiece
    <3>4. PICK added : added = addHarris(harris, lc.pos, p)
      OBVIOUS
    <3>5. harris' = added.asm /\ frame' = [blank EXCEPT !.text = added.text] /\ NoteHarris(lc)
      BY <1>3, <2>1, <3>2, <3>4 DEF Assemble, Note
    <3>6. frame'.text = added.text
      BY <1>3, <3>5
    <3>7. said' = IF added.text = <<>> THEN said ELSE added.text
      BY <3>5, <3>6 DEF NoteHarris
    <3>8. PICK now : now = IF added.text = <<>> THEN said ELSE added.text
      OBVIOUS
    <3>9. /\ IsPrefix(said, now)
          /\ now = IF added.asm.blocks[1] = NoPiece \/ added.asm.blocks[2] = NoPiece THEN <<>>
                   ELSE HarrisAliasString(added.asm.blocks)
          /\ added.asm.blocks[4] # NoPiece /\ ~added.asm.complete
               => added.asm.blocks[1] = NoPiece \/ added.asm.blocks[2] = NoPiece
      BY <1>1, <3>1, <3>3, <3>4, <3>8, HarrisSays DEF SaidInv
    <3> QED
      BY <3>5, <3>7, <3>8, <3>9 DEF SaidInv
  <2>2. CASE lc.kind # "harris"
    BY <1>2, <1>3, <2>2 DEF Assemble, Note, NoteHeader, NoteBlock, history, assembler
  <2> QED
    BY <2>1, <2>2
<1>4. /\ Blank \in [who : Talkers \cup {Nobody}, alias : Aliases, text : {<<>>}, fix : {<<>>}]
      /\ \A who \in Talkers \cup {Nobody} :
           [Blank EXCEPT !.who = who] \in [who : Talkers \cup {Nobody}, alias : Aliases,
                                           text : {<<>>}, fix : {<<>>}]
  BY DEF Blank, NoAlias, Aliases
<1>5. ASSUME NEW lc \in Words, LDU1(lc) PROVE SaidInv' /\ IsPrefix(said, said')
  <2>1. Identity(lc) \in Talkers \cup {Nobody}
    BY <1>1 DEF Identity
  <2> QED
    BY <1>3, <1>4, <1>5, <2>1 DEF LDU1
<1>6. ASSUME NEW lc \in Words, TDUlc(lc) PROVE SaidInv' /\ IsPrefix(said, said')
  BY <1>3, <1>4, <1>6 DEF TDUlc
<1>7. CASE \/ LDU1NoLC \/ LDU2 \/ OtherUnit \/ Reset \/ NextTalker \/ UNCHANGED vars
           \/ \E decodes \in BOOLEAN : HDU(decodes)
  BY <1>2, <1>7
     DEF LDU1NoLC, LDU2, OtherUnit, Reset, HDU, NextTalker, assembler, history, vars
<1> QED
  BY <1>5, <1>6, <1>7 DEF FDNext, ProcessFrame

\* What has been shown of a Harris alias stays at the head of all that is shown after it,
\* whoever's blocks fill the places that are left: the two places left once anything is
\* shown are the last two, and with the fourth the assembler stops
\* (alias_assembler.go:155-185).
THEOREM HarrisGrowsProp == FDSpec => HarrisGrows
<1>1. FDInit => SaidInv
  BY DEF FDInit, SaidInv, NewHarris
<1>2. FDSpec => []SaidInv
  BY <1>1, SaidStep, Typed, PTL DEF FDSpec
<1>3. TypeInv /\ SaidInv /\ [FDNext]_vars => [IsPrefix(said, said')]_vars
  BY SaidStep
<1> QED
  BY <1>2, <1>3, Typed, PTL DEF FDSpec, HarrisGrows
=============================================================================
