---------------------------- MODULE FrameDecoder ---------------------------
(***************************************************************************)
(* P25Decoder from the frame on (frame.go, and the link control of         *)
(* control.go): what it keeps from one data unit to the next, the last     *)
(* link control and the alias assembler, what a frame it gives out says of *)
(* the call, and what the three resets clear.                              *)
(*                                                                         *)
(* The air is a talker at a time.  Each unit is a step: which one, and     *)
(* what came through of it, is the air's choice.  The Reed-Solomon, Golay  *)
(* and Hamming decoders enter by their outcome; they are modelled in       *)
(* ReedSolomon and BlockCodes.                                             *)
(***************************************************************************)
EXTENDS TalkerAlias

CONSTANTS Radios,      \* who talks on a system with that make of radios
          AliasSeq,    \* the sequence number of each talker's Motorola alias
          HarrisText   \* what each of the four blocks of his Harris alias says

Makes == {"Motorola", "Harris"}

ASSUME AirParams ==
    /\ Radios \in [Makes -> SUBSET Talkers]
    /\ AliasSeq \in [Talkers -> 0..15]
    /\ aliasMaxBlocks >= 4 /\ \A t \in Talkers : BlocksOf[t] <= aliasMaxBlocks
    /\ HarrisText \in [Talkers -> [1..4 -> 1..4]]

VARIABLES make,      \* whose radios the system has: both makes of alias are not heard
          talker,    \* who is on the air
          lastLC,    \* whose identity the last link control gave: Nobody, if it had none
          moto, harris, harrisGPS,   \* the alias assembler
          frame,     \* the VoiceFrame of the last step, if it gave one out
          \* What has come through, for the properties.
          heard,     \* identities, since the last reset
          header,    \* the talker of the last Motorola header
          passes,    \* how many times all of his blocks came through since,
          got,       \*   and those of the next time
          spoilt,    \* how many blocks that are not his did, so numbered, up to the limit
          told,      \* whether his alias was given out
          said,      \* the last Harris alias given out
          pieces     \* the Harris pieces that came through, by position

air       == <<make, talker>>
assembler == <<moto, harris, harrisGPS>>
history   == <<header, passes, got, spoilt, told, said, pieces>>
vars == <<air, lastLC, assembler, frame, heard, history>>

\* valid is lastLC.valid: a link control with no identity is one all the same.
NoLC == [valid |-> FALSE, who |-> Nobody]

\* A frame as it is before anything is found in the unit, and no frame at all.
Blank == [who |-> Nobody, alias |-> NoAlias, text |-> <<>>, fix |-> <<>>]

FDInit ==
    /\ make \in Makes
    /\ talker \in Radios[make]
    /\ lastLC = NoLC
    /\ moto = NewMotorola /\ harris = NewHarris /\ harrisGPS = NewHarrisGPS
    /\ frame = Blank
    /\ heard = {}
    /\ header = Nobody /\ passes = 0 /\ got = {} /\ spoilt = 0 /\ told = FALSE
    /\ said = <<>> /\ pieces = {}

-----------------------------------------------------------------------------
(* Link control.  A word is [kind, ...]; it is what extractLC or parseTDUlc *)
(* returns, when they return anything.                                      *)

\* Group and unit-to-unit calls name the one who talks; the others do not.
Identity(lc) == IF lc.kind = "voice" THEN talker ELSE Nobody

HeaderOf(t, count) == [seq |-> AliasSeq[t], count |-> count, tg |-> t, first |-> <<>>]

\* What the alias assembler makes of a word, and what of it goes in the frame.
Assemble(lc, blank) ==
    CASE lc.kind = "motoHeader" ->
           /\ moto' = addMotorolaHeader(moto, HeaderOf(talker, lc.count))
           /\ frame' = blank
           /\ UNCHANGED <<harris, harrisGPS>>
      [] lc.kind = "motoBlock" ->
           LET added == addMotorolaBlock(moto, [num |-> lc.num, seq |-> AliasSeq[talker],
                                                piece |-> Piece(lc.of, lc.num)])
           IN  /\ moto' = added.asm
               /\ frame' = [blank EXCEPT !.alias = added.alias]
               /\ UNCHANGED <<harris, harrisGPS>>
      [] lc.kind = "harris" ->
           LET added == addHarris(harris, lc.pos, Piece(talker, HarrisText[talker][lc.pos]))
           IN  /\ harris' = added.asm
               /\ frame' = [blank EXCEPT !.text = added.text]
               /\ UNCHANGED <<moto, harrisGPS>>
      [] lc.kind = "harrisGPS" ->
           LET added == addHarrisGPSBlock(harrisGPS, lc.pos, Piece(talker, lc.pos), lc.inRange)
           IN  /\ harrisGPS' = added.asm
               /\ frame' = [blank EXCEPT !.fix = added.fix]
               /\ UNCHANGED <<moto, harris>>
      [] OTHER -> frame' = blank /\ UNCHANGED assembler

\* The words a talker may send, and blocks whose text the codes let through corrupt.
Words ==
    [kind : {"voice", "other"}]
      \cup (IF make = "Motorola"
            THEN [kind : {"motoHeader"}, count : {BlocksOf[talker], 0}]
                   \cup [kind : {"motoBlock"}, num : 1..BlocksOf[talker], of : {talker, Nobody}]
            ELSE [kind : {"harris"}, pos : 1..4]
                   \cup [kind : {"harrisGPS"}, pos : 1..2, inRange : BOOLEAN])

-----------------------------------------------------------------------------
(* The history of what came through, for the properties.                    *)

NoteHeader(lc) ==
    /\ header' = talker /\ passes' = 0 /\ got' = {} /\ spoilt' = 0 /\ told' = FALSE
    /\ UNCHANGED <<said, pieces>>

\* Whether a block is one of those that the header announced.
Good(lc) == lc.of = header

\* A block that is not counts against the sets that may fail, and begins the
\* collection again.
NoteBlock(lc) ==
    LET now == IF Good(lc) THEN got \cup {lc.num} ELSE {}
        all == Good(lc) /\ now = 1..BlocksOf[talker]
    IN  /\ passes' = IF ~Good(lc) THEN 0 ELSE IF all /\ passes < 2 THEN passes + 1 ELSE passes
        /\ got' = IF all THEN {} ELSE now
        /\ spoilt' = IF Good(lc) \/ spoilt = aliasMaxFailedSets THEN spoilt ELSE spoilt + 1
        /\ told' = (told \/ frame'.alias.done)
        /\ UNCHANGED <<header, said, pieces>>

NoteHarris(lc) ==
    /\ pieces' = pieces \cup {Piece(talker, lc.pos)}
    /\ said' = IF frame'.text = <<>> THEN said ELSE frame'.text
    /\ UNCHANGED <<header, passes, got, spoilt, told>>

Note(lc) ==
    CASE lc.kind = "motoHeader" /\ lc.count > 0 -> NoteHeader(lc)
      [] lc.kind = "motoBlock" -> NoteBlock(lc)
      [] lc.kind = "harris" -> NoteHarris(lc)
      [] OTHER -> UNCHANGED history

-----------------------------------------------------------------------------
(* processFrame.                                                           *)

\* LDU1 whose link control decodes.
LDU1(lc) ==
    /\ lastLC' = [valid |-> TRUE, who |-> Identity(lc)]
    /\ heard' = heard \cup {Identity(lc)}
    /\ Assemble(lc, [Blank EXCEPT !.who = Identity(lc)])
    /\ Note(lc)
    /\ UNCHANGED air

\* What is carried over when this unit has none of its own.
Carried == IF lastLC.valid THEN lastLC.who ELSE Nobody

LDU1NoLC ==
    /\ frame' = [Blank EXCEPT !.who = Carried]
    /\ UNCHANGED <<air, lastLC, assembler, heard, history>>

LDU2 ==
    /\ frame' = [Blank EXCEPT !.who = Carried]
    /\ UNCHANGED <<air, lastLC, assembler, heard, history>>

\* The terminator's own link control goes to the control frame, not to lastLC.
TDUlc(lc) ==
    /\ Assemble(lc, Blank)
    /\ Note(lc)
    /\ UNCHANGED <<air, lastLC, heard>>

\* A header, which if it decodes names the call in this frame and is not kept.
HDU(decodes) ==
    /\ frame' = [Blank EXCEPT !.who = IF decodes THEN talker ELSE Nobody]
    /\ heard' = IF decodes THEN heard \cup {talker} ELSE heard
    /\ UNCHANGED <<air, lastLC, assembler, history>>

\* What says nothing of the call: terminators, signalling and packets, and the
\* units whose link control does not decode.  A voice unit cut short gives no frame.
OtherUnit ==
    /\ frame' = Blank
    /\ UNCHANGED <<air, lastLC, assembler, heard, history>>

ProcessFrame ==
    \/ \E lc \in Words : LDU1(lc) \/ TDUlc(lc)
    \/ LDU1NoLC
    \/ LDU2
    \/ \E decodes \in BOOLEAN : HDU(decodes)
    \/ OtherUnit

\* Reset, SoftReset and ResetStats: what they do here is the same.  The alias assembler is
\* left as it is.
Reset ==
    /\ lastLC' = NoLC
    /\ heard' = {}
    /\ frame' = Blank
    /\ UNCHANGED <<air, assembler, history>>

\* Somebody else talks.  Nothing tells the decoder.
NextTalker ==
    /\ talker' \in Radios[make] \ {talker}
    /\ frame' = Blank
    /\ UNCHANGED <<make, lastLC, assembler, heard, history>>

FDNext == ProcessFrame \/ Reset \/ NextTalker

FDSpec == FDInit /\ [][FDNext]_vars
-----------------------------------------------------------------------------
(* Properties.                                                             *)

FDTypeOK ==
    /\ make \in Makes /\ talker \in Talkers
    /\ lastLC \in [valid : BOOLEAN, who : Talkers \cup {Nobody}]
    /\ moto.seq \in 0..15 /\ moto.count \in 0..aliasMaxBlocks /\ moto.tg \in Talkers \cup {Nobody}
    /\ moto.failed \in 0..aliasMaxFailedSets /\ moto.complete \in BOOLEAN
    /\ \A num \in DOMAIN moto.blocks : num \in 1..aliasMaxBlocks /\ moto.blocks[num] \in Pieces
    /\ harris \in [blocks : [1..4 -> Pieces], complete : BOOLEAN]
    /\ harrisGPS \in [blocks : [1..2 -> Pieces], complete : BOOLEAN]
    /\ frame.who \in Talkers \cup {Nobody} /\ frame.alias \in Aliases
    /\ heard \subseteq Talkers \cup {Nobody}
    /\ header \in Talkers \cup {Nobody} /\ passes \in 0..2 /\ spoilt \in 0..aliasMaxFailedSets

\* A talker's Motorola alias is given out once all of his blocks have come through
\* after his header: the first time, if nothing else came in between, and the second
\* at the latest if something did, as long as it was not too much
\* (alias_assembler.go:63-130: bad sets are dropped whole, and no more than four).
MotorolaDelivered ==
    (header # Nobody /\ spoilt < aliasMaxFailedSets
       /\ passes >= (IF spoilt = 0 THEN 1 ELSE 2)) => told

\* A Motorola alias is given out once for each header ("ONCE"), with the talkgroup of
\* that header, and is not another talker's whose blocks came after it, as long as their
\* sequence numbers differ (alias_assembler.go:59-62, 76-79, 129).
AliasOnce ==
    [][frame'.alias.done =>
         /\ ~told
         /\ \/ frame'.alias.of = frame'.alias.tg
            \/ AliasSeq[frame'.alias.of] = AliasSeq[frame'.alias.tg]]_vars

\* A frame names nobody who is no longer there.  The identity that is carried over a unit
\* with none is of one heard since the last reset (frame.go:276-299, 465-490).  The alias
\* assembler outlives the resets, and so what it has may be of those that talked before: a
\* Motorola alias, for all that, is of him whose block completes it (talkeralias.go:78-84,
\* alias_assembler.go:76-124).  Of its talkgroup, which may be that of a header before
\* the reset, and of Harris texts this says nothing.
NamesWhoTalks ==
    /\ frame.who \in heard \cup {Nobody}
    /\ frame.alias.done => frame.alias.of = talker

\* What has been shown of a Harris alias stays: each emission begins with the one
\* before, even if another talker's blocks fill the gaps, which nothing in them tells
\* (alias_assembler.go:155-173).
HarrisGrows == [][IsPrefix(said, said')]_vars

\* "Latch only after the final block (pos 3 = LCO 53) has been incorporated, so blocks
\* 3-4 are not dropped.  Downstream last-write-wins converges to the complete alias"
\* (alias_assembler.go:175-177).  If only one talker has been heard, and his four blocks
\* all have, then his whole alias has been given out.
HarrisConverges ==
    \A t \in Talkers :
        pieces = {Piece(t, pos) : pos \in 1..4}
          => \A pos \in 1..4 : Contains(said, Piece(t, HarrisText[t][pos]))
=============================================================================
