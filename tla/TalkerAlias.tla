---------------------------- MODULE TalkerAlias ----------------------------
(***************************************************************************)
(* The assemblers that put a talker's alias together from the pieces sent  *)
(* while he talks: aliasAssembler of Phase 1 (alias_assembler.go) and      *)
(* p2AliasAssembler of Phase 2 (phase2/alias.go), over the codec of        *)
(* talkeralias.go.                                                         *)
(*                                                                         *)
(* The two agree on the Motorola messages, a header and numbered blocks,   *)
(* but for this: the Phase 2 header carries the first piece of the text.   *)
(* A piece of text is whose it is and which; a corrupt one is nobody's.    *)
(* That a reassembled text passes its CRC is that it is all one talker's.  *)
(***************************************************************************)
EXTENDS Integers, Sequences, SequencesExt, FiniteSets, TLC

CONSTANTS Talkers,             \* those who have an alias
          BlocksOf,            \* how many blocks each one's alias takes
          aliasMaxBlocks,      \* more is a corrupt header; 16, and 15 in Phase 2
          aliasMaxFailedSets,  \* 4
          Nobody

ASSUME AliasParams ==
    /\ BlocksOf \in [Talkers -> Nat \ {0}]
    /\ aliasMaxBlocks \in Nat /\ aliasMaxFailedSets \in Nat \ {0}
    /\ Nobody \notin Talkers

Piece(talker, num) == [of |-> talker, num |-> num]
Pieces == [of : Talkers \cup {Nobody}, num : 0..aliasMaxBlocks]
NoPiece == Piece(Nobody, 0)

\* What a call that completes nothing returns.
NoAlias == [done |-> FALSE, of |-> Nobody, tg |-> Nobody]

Aliases == [done : BOOLEAN, of : Talkers \cup {Nobody}, tg : Talkers \cup {Nobody}]

-----------------------------------------------------------------------------
(* Motorola.                                                               *)

\* Slip: the name at the head of the text is taken, and its CRC is not checked.
MotorolaAliasHead(pieces) == {t \in Talkers : 1 \in DOMAIN pieces /\ pieces[1].of = t}

\* The CRC holds if the pieces are a talker's, in order, and he has no more.
MotorolaAliasDecode(pieces) ==
    {t \in Talkers : /\ BlocksOf[t] \in DOMAIN pieces
                     /\ \A i \in DOMAIN pieces : pieces[i] = Piece(t, i) /\ i <= BlocksOf[t]}

NewMotorola == [seq |-> 0, count |-> 0, tg |-> Nobody, first |-> <<>>, blocks |-> <<>>,
                complete |-> FALSE, failed |-> 0]

\* Any header but a corrupt one begins anew.
addMotorolaHeader(a, header) ==
    IF header.count \notin 1..aliasMaxBlocks THEN a
    ELSE [seq |-> header.seq, count |-> header.count, tg |-> header.tg, first |-> header.first,
          blocks |-> <<>>, complete |-> FALSE, failed |-> 0]

GivenUpDone(a) == a.complete
GivenUp(a) == a.complete \/ a.failed >= aliasMaxFailedSets

\* A block with another sequence is of another alias: what was collected is dropped.
AnyAlias(a, block) == TRUE
ThisAlias(a, block) == block.seq = a.seq

\* Before the first header the count is 0, and a block with sequence 0 completes
\* a set of none, which does not decode.
AllPresent(a, blocks) == 1..a.count \subseteq DOMAIN blocks

\* A set that does not decode is dropped whole, as it is not known which block is bad.
FailedSetKept(a) == [a EXCEPT !.failed = @ + 1]
FailedSet(a) == [a EXCEPT !.blocks = <<>>, !.failed = @ + 1]

\* The blocks with one more, and the text they make with what the header brought.
WithBlock(blocks, block) ==
    [n \in {block.num} \cup DOMAIN blocks |-> IF n = block.num THEN block.piece ELSE blocks[n]]
TextOf(a, blocks) ==
    [i \in (1..a.count) \cup DOMAIN a.first |-> IF i \in 1..a.count THEN blocks[i] ELSE a.first[i]]

\* The assembler after a block, and the alias if it was the last one missing.
addMotorolaBlock(a, block) ==
    LET blocks == WithBlock(a.blocks, block)
        whose  == MotorolaAliasDecode(TextOf(a, blocks))
        now(asm) == [asm |-> asm, alias |-> NoAlias]
    IN  IF GivenUp(a) THEN now(a)
        ELSE IF ~ThisAlias(a, block) THEN now([a EXCEPT !.blocks = <<>>])
        ELSE IF ~AllPresent(a, blocks) THEN now([a EXCEPT !.blocks = blocks])
        ELSE IF whose = {} THEN now(FailedSet(a))
        ELSE [asm |-> [a EXCEPT !.blocks = blocks, !.complete = TRUE],
              alias |-> [done |-> TRUE, of |-> CHOOSE t \in whose : TRUE, tg |-> a.tg]]

-----------------------------------------------------------------------------
(* Harris: in Phase 1 four blocks with nothing but their position.          *)

\* The pieces in order, but for those that say again what was said before.
HarrisAliasString(pieces) ==
    FoldLeft(LAMBDA text, p : IF p = NoPiece \/ Contains(text, p) THEN text ELSE Append(text, p),
             <<>>, pieces)

NewHarris == [blocks |-> [pos \in 1..4 |-> NoPiece], complete |-> FALSE]

\* Blocks are kept by position, the first one heard there for good.  With the first
\* two the alias is given out, and again with each that follows, until the fourth.
HarrisLast == 4

KeptWhenDone(h, pos) == h.complete
Kept(h, pos) == h.complete \/ h.blocks[pos] # NoPiece

addHarris(h, pos, piece) ==
    LET blocks == [h.blocks EXCEPT ![pos] = piece]
    IN  IF Kept(h, pos) THEN [asm |-> h, text |-> <<>>]
        ELSE IF blocks[1] = NoPiece \/ blocks[2] = NoPiece
        THEN [asm |-> [h EXCEPT !.blocks = blocks], text |-> <<>>]
        ELSE [asm |-> [blocks |-> blocks, complete |-> blocks[HarrisLast] # NoPiece],
              text |-> HarrisAliasString(blocks)]

-----------------------------------------------------------------------------
(* Harris positions: two blocks, of which each is replaced by the next one  *)
(* heard in its place.                                                      *)

NewHarrisGPS == [blocks |-> [pos \in 1..2 |-> NoPiece], complete |-> FALSE]

addHarrisGPSBlock(g, pos, piece, inRange) ==
    LET blocks == [g.blocks EXCEPT ![pos] = piece]
    IN  IF g.complete THEN [asm |-> g, fix |-> <<>>]
        ELSE IF blocks[1] = NoPiece \/ blocks[2] = NoPiece
        THEN [asm |-> [g EXCEPT !.blocks = blocks], fix |-> <<>>]
        ELSE IF ~inRange THEN [asm |-> NewHarrisGPS, fix |-> <<>>]
        ELSE [asm |-> [blocks |-> blocks, complete |-> TRUE], fix |-> blocks]
=============================================================================
