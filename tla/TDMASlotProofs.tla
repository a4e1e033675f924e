--------------------------- MODULE TDMASlotProofs ---------------------------
(***************************************************************************)
(* What holds of a Phase 2 slot for every set of calls and talkers, every  *)
(* length of an alias and every mix of lost bursts, with TLAPS proofs: its *)
(* types, the position of a voice burst, the keystream that its position   *)
(* picks bytes of, and what a reset leaves of those heard before.          *)
(***************************************************************************)
EXTENDS TDMASlot, TalkerAliasProofs, FiniteSetTheorems

Parts == [pos : -1..3, of : Keys \cup {"now", "over"}]

\* What the counting of bursts rests on.
CountInv ==
    /\ call \in Calls /\ service \in Services /\ call \in service.calls
    /\ due \in 0..4 /\ burstID \in -1..4
    /\ essB \in [0..3 -> Parts]
    /\ inStep \in BOOLEAN /\ opened \in BOOLEAN /\ keyed \in BOOLEAN

\* Once the first burst of a superframe has been put in its place, no count goes back to
\* 0 before the 2V, and so its part stays.
OpenedInv ==
    opened => due \in 1..4 /\ burstID \in 0..due-1 /\ essB[0] = Sent(0)

\* A keystream that was due has been made, and is for this superframe.
KeyedInv ==
    keyed => KeyOf[call] = "short" /\ keystream = [key |-> "short", mi |-> "now"]

SlotInv == CountInv /\ InStep /\ OpenedInv /\ KeyedInv

-----------------------------------------------------------------------------
\* What is sent is a part, and the next superframe makes parts of parts.
LEMMA PartsType ==
  ASSUME call \in Calls
  PROVE  /\ \A p \in 0..3 : Sent(p) \in Parts
         /\ NoPart \in Parts
         /\ \A parts \in [0..3 -> Parts] : AgedParts(parts) \in [0..3 -> Parts]
BY SlotParams DEF Sent, Part, Parts, NoPart, AgedParts, Keys

\* The next count: after a 2V or at the start it is 0, and else one more.
LEMMA CountOn ==
  ASSUME burstID \in -1..4
  PROVE  /\ NextBurstID \in 0..3
         /\ burstID \in {-1, 4} => NextBurstID = 0
         /\ burstID \in 0..2 => NextBurstID = burstID + 1
BY DEF NextBurstID

\* With the first part in its place three are missing at most, which the code corrects.
LEMMA FirstPartSuffices ==
  ASSUME EssCorrects >= 12, essB[0] = Sent(0)
  PROVE  Decodes(essB, 0)
<1> DEFINE W == {p \in 0..3 : essB[p] # Sent(p)}
<1>1. W \in SUBSET (1..3)
  OBVIOUS
<1>2. IsFiniteSet(1..3) /\ Cardinality(1..3) = 3
  <2>1. PICK a \in Int, b \in Int : a = 1 /\ b = 3
    OBVIOUS
  <2>2. IsFiniteSet(a..b) /\ Cardinality(a..b) = IF a > b THEN 0 ELSE b-a+1
    BY FS_Interval
  <2>3. IsFiniteSet(a..b) /\ Cardinality(a..b) = 3
    BY <2>1, <2>2
  <2> QED
    BY <2>1, <2>3
<1>3. IsFiniteSet(W) /\ Cardinality(W) <= 3
  BY <1>1, <1>2, FS_Subset
<1>4. Cardinality(W) \in Nat
  BY <1>3, FS_CardinalityType
<1> QED
  BY <1>3, <1>4, SlotParams DEF Decodes, WrongParts

-----------------------------------------------------------------------------
LEMMA SlotInit == TDInit => SlotInv
<1> SUFFICES ASSUME TDInit PROVE SlotInv
  OBVIOUS
<1>1. NoPart \in Parts
  BY DEF NoPart, Part, Parts
<1>2. call \in Calls /\ service \in Services /\ call \in service.calls
  BY SlotParams DEF TDInit
<1>3. due = 0 /\ burstID = -1 /\ ~keyed /\ ~opened /\ essB = [p \in 0..3 |-> NoPart]
  BY DEF TDInit
<1>4. inStep \in BOOLEAN /\ keyed \in BOOLEAN /\ opened \in BOOLEAN
  BY DEF TDInit
<1>5. CountInv
  BY <1>1, <1>2, <1>3, <1>4 DEF CountInv
<1> QED
  BY <1>3, <1>5 DEF SlotInv, InStep, OpenedInv, KeyedInv

\* What the count of bursts is, and what is gathered by it, which no key and no code comes
\* into.
LEMMA CountStep == CountInv /\ InStep /\ [TDNext]_vars => CountInv' /\ InStep'
<1> SUFFICES ASSUME CountInv, InStep, [TDNext]_vars PROVE CountInv' /\ InStep'
  OBVIOUS
<1> USE DEF CountInv
<1>1. CASE Receive4V
  <2> USE <1>1 DEF Receive4V, airVars
  <2>1. NextBurstID \in 0..3 /\ Sent(due) \in Parts /\ NoPart \in Parts
    BY CountOn, PartsType
  <2>2. CountInv'
    BY <2>1
  <2>3. InStep'
    <3> SUFFICES ASSUME inStep PROVE InStep'
      BY DEF InStep
    <3>1. NextBurstID = due /\ due \in 0..3
      BY CountOn DEF InStep
    <3>2. due' = due + 1 /\ burstID' = due /\ essB' = [essB EXCEPT ![due] = Sent(due)]
      BY <3>1
    <3>3. \A p \in 0..3 : p < due + 1 => essB'[p] = Sent(p)
      BY <3>1, <3>2 DEF InStep
    <3>4. \A p : Sent(p)' = Sent(p)
      BY DEF Sent
    <3> QED
      BY <3>1, <3>2, <3>3, <3>4 DEF InStep
  <2> QED
    BY <2>2, <2>3
<1>2. ASSUME NEW pdu \in PDUs, NEW noise \in {0, EssCorrects + 1}, Receive2V(pdu, noise)
      PROVE  CountInv' /\ InStep'
  <2> USE <1>2 DEF Receive2V
  <2>1. service' = service /\ call' = call /\ due' = 0 /\ burstID' = 4 /\ inStep' /\ ~opened'
    OBVIOUS
  <2>2. essB' \in [0..3 -> Parts]
    BY PartsType
  <2>3. inStep' \in BOOLEAN /\ opened' \in BOOLEAN /\ keyed' \in BOOLEAN
    OBVIOUS
  <2> QED
    BY <2>1, <2>2, <2>3 DEF InStep
<1>3. ASSUME NEW pdu \in PDUs, ReceiveControl(pdu) PROVE CountInv' /\ InStep'
  BY <1>3 DEF ReceiveControl, airVars, essVars, histVars, InStep, Sent
<1>4. CASE MissVoice
  <2> USE <1>4 DEF MissVoice
  <2>1. service' = service /\ call' = call /\ due' \in 0..4 /\ burstID' = burstID
    OBVIOUS
  <2>2. essB' \in [0..3 -> Parts]
    BY PartsType
  <2>3. inStep' \in BOOLEAN /\ opened' \in BOOLEAN /\ keyed' \in BOOLEAN
    OBVIOUS
  <2> QED
    BY <2>1, <2>2, <2>3 DEF InStep
<1>5. CASE NextCall
  <2> USE <1>5 DEF NextCall
  <2>1. call' \in Calls /\ service' = service /\ call' \in service.calls
    BY SlotParams
  <2>2. due' = 0 /\ burstID' = burstID
    OBVIOUS
  <2>3. keyed' \in BOOLEAN /\ opened' \in BOOLEAN
    OBVIOUS
  <2>4. essB' \in [0..3 -> Parts]
    BY PartsType
  <2>5. inStep' \in BOOLEAN /\ (inStep' => inStep /\ due = 0)
    OBVIOUS
  <2>6. InStep'
    BY <2>2, <2>5 DEF InStep
  <2> QED
    BY <2>1, <2>2, <2>3, <2>4, <2>5, <2>6
<1>6. CASE SetKeyLookup
  BY <1>6 DEF SetKeyLookup, airVars, essVars, histVars, InStep, Sent
<1>7. CASE ResetSlot
  <2> USE <1>7 DEF ResetSlot, ESSReset, airVars
  <2>1. call' = call /\ service' = service /\ due' = due /\ essB' = essB
    OBVIOUS
  <2>2. burstID' = -1
    OBVIOUS
  <2>3. keyed' \in BOOLEAN /\ opened' \in BOOLEAN
    OBVIOUS
  <2>4. inStep' \in BOOLEAN /\ (inStep' => due = 0)
    OBVIOUS
  <2>5. InStep'
    BY <2>1, <2>2, <2>4 DEF InStep
  <2> QED
    BY <2>1, <2>2, <2>3, <2>4, <2>5
<1>8. CASE UNCHANGED vars
  BY <1>8 DEF vars, airVars, essVars, histVars, InStep, Sent
<1> QED
  BY <1>1, <1>2, <1>3, <1>4, <1>5, <1>6, <1>7, <1>8 DEF TDNext, ReceiveVoice

LEMMA SlotStep == EssCorrects >= 12 /\ SlotInv /\ [TDNext]_vars => SlotInv'
<1> SUFFICES ASSUME EssCorrects >= 12, SlotInv, [TDNext]_vars PROVE OpenedInv' /\ KeyedInv'
  BY CountStep DEF SlotInv
<1> USE DEF SlotInv, CountInv
<1>1. CASE Receive4V
  <2> USE <1>1 DEF Receive4V, airVars
  <2>1. OpenedInv'
    <3>1. CASE opened
      <4>1. due \in 1..3 /\ burstID \in 0..2 /\ burstID <= due - 1 /\ essB[0] = Sent(0)
        BY <3>1 DEF OpenedInv
      <4>2. burstID' = burstID + 1 /\ due' = due + 1 /\ essB'[0] = essB[0]
        BY <4>1, CountOn
      <4> QED
        BY <4>1, <4>2 DEF OpenedInv, Sent
    <3>2. CASE ~opened /\ due = 0 /\ inStep
      <4>1. NextBurstID = 0
        BY <3>2, CountOn DEF InStep
      <4> QED
        BY <4>1, <3>2 DEF OpenedInv, Sent
    <3>3. CASE ~opened /\ ~(due = 0 /\ inStep)
      BY <3>3 DEF OpenedInv
    <3> QED
      BY <3>1, <3>2, <3>3
  <2>2. KeyedInv'
    BY DEF KeyedInv
  <2> QED
    BY <2>1, <2>2
<1>2. ASSUME NEW pdu \in PDUs, NEW noise \in {0, EssCorrects + 1}, Receive2V(pdu, noise)
      PROVE  OpenedInv' /\ KeyedInv'
  <2> USE <1>2 DEF Receive2V
  <2>1. OpenedInv'
    BY DEF OpenedInv
  <2>2. KeyedInv'
    <3> SUFFICES ASSUME keyed' PROVE KeyedInv'
      BY DEF KeyedInv
    <3>1. opened /\ noise = 0 /\ keyLookup /\ KeyOf[call] = "short"
      OBVIOUS
    <3>2. Decodes(essB, noise)
      BY <3>1, FirstPartSuffices DEF OpenedInv
    <3>3. keystream' = Prepared([valid |-> TRUE, key |-> "short", mi |-> "now"])
      BY <3>1, <3>2
    <3> QED
      BY <3>1, <3>3 DEF KeyedInv, Prepared, Encrypted
  <2> QED
    BY <2>1, <2>2
<1>3. ASSUME NEW pdu \in PDUs, ReceiveControl(pdu) PROVE OpenedInv' /\ KeyedInv'
  BY <1>3 DEF ReceiveControl, airVars, essVars, histVars, OpenedInv, KeyedInv, Sent
<1>4. CASE MissVoice
  <2> USE <1>4 DEF MissVoice
  <2>1. CASE due = 4
    BY <2>1 DEF OpenedInv, KeyedInv
  <2>2. CASE due # 4
    <3>1. due' = due + 1
      BY <2>2
    <3> QED
      BY <2>2, <3>1 DEF OpenedInv, KeyedInv, Sent
  <2> QED
    BY <2>1, <2>2
<1>5. CASE NextCall \/ ResetSlot
  BY <1>5 DEF NextCall, ResetSlot, OpenedInv, KeyedInv
<1>6. CASE SetKeyLookup
  BY <1>6 DEF SetKeyLookup, airVars, essVars, histVars, OpenedInv, KeyedInv, Sent
<1>7. CASE UNCHANGED vars
  BY <1>7 DEF vars, airVars, essVars, histVars, OpenedInv, KeyedInv, Sent
<1> QED
  BY <1>1, <1>2, <1>3, <1>4, <1>5, <1>6, <1>7 DEF TDNext, ReceiveVoice

\* The encryption sync corrects as many hexbits as three parts have (14, phase2/ess.go:105).
LEMMA SlotInvariant == ASSUME EssCorrects >= 12 PROVE TDSpec => []SlotInv
BY SlotInit, SlotStep, PTL DEF TDSpec

LEMMA CountInvariant == TDSpec => [](CountInv /\ InStep)
<1>1. TDInit => CountInv /\ InStep
  BY SlotInit DEF SlotInv
<1> QED
  BY <1>1, CountStep, PTL DEF TDSpec

\* The position counted for a voice burst is the one it was sent at, until one is missed:
\* the parts of the encryption sync go to their places, and those gathered are the ones that
\* this superframe sent, whatever the code can make of them (phase2/ess.go:43-67).
THEOREM InStepInv == TDSpec => []InStep
BY CountInvariant, PTL

\* With the first burst of a superframe and its 2V, the next one is decrypted right up to
\* the first burst that is missed: the keystream is its own, and so is the place in it
\* (phase2/ess.go:105-135, phase2/tdma.go:200-251, adp.go:150).
THEOREM KeystreamCurrentProp == ASSUME EssCorrects >= 12 PROVE TDSpec => KeystreamCurrent
<1>1. SlotInv /\ [TDNext]_vars =>
        [keyed /\ inStep' /\ frame'.voice # "none" => frame'.voice = "clear"]_vars
  <2> SUFFICES ASSUME SlotInv, TDNext, keyed, inStep', frame'.voice # "none"
               PROVE  frame'.voice = "clear"
    OBVIOUS
  <2> USE DEF SlotInv, CountInv
  <2>1. KeyOf[call] = "short" /\ keystream = [key |-> "short", mi |-> "now"]
    BY DEF KeyedInv
  <2>2. CASE Receive4V
    <3>1. NextBurstID = due
      BY <2>2, CountOn DEF Receive4V, InStep
    <3> QED
      BY <2>1, <2>2, <3>1 DEF Receive4V, Voice
  <2>3. ASSUME NEW pdu \in PDUs, NEW noise \in {0, EssCorrects + 1}, Receive2V(pdu, noise)
        PROVE  frame'.voice = "clear"
    BY <2>1, <2>3 DEF Receive2V, Voice
  <2>4. ASSUME NEW pdu \in PDUs, ReceiveControl(pdu) PROVE FALSE
    BY <2>4 DEF ReceiveControl, NoFrame
  <2>5. ASSUME MissVoice \/ NextCall \/ SetKeyLookup \/ ResetSlot PROVE FALSE
    <3>1. frame' = NoFrame
      BY <2>5 DEF MissVoice, NextCall, SetKeyLookup, ResetSlot
    <3> QED
      BY <3>1 DEF NoFrame
  <2> QED
    BY <2>2, <2>3, <2>4, <2>5 DEF TDNext, ReceiveVoice
<1> QED
  BY <1>1, SlotInvariant, PTL DEF TDSpec, KeystreamCurrent

-----------------------------------------------------------------------------
\* Everything that an assembler holds is of somebody in who.
Within(a, who) ==
    /\ a \in Assemblers /\ a.tg \in who
    /\ \A n \in DOMAIN a.first : a.first[n].of \in who
    /\ \A n \in DOMAIN a.blocks : a.blocks[n].of \in who

HeardInv ==
    /\ call \in Calls /\ service \in Services
    /\ asm \in [moto : Assemblers, harrisComplete : BOOLEAN]
    /\ Within(asm.moto, heard \cup {Nobody})
    /\ SlotResetForgets

LEMMA NewWithin == \A who : Nobody \in who => Within(NewMotorola, who)
<1>1. /\ NewMotorola.tg = Nobody
      /\ DOMAIN NewMotorola.first = {} /\ DOMAIN NewMotorola.blocks = {}
  BY DEF NewMotorola
<1> QED
  BY <1>1, NewAssembler DEF Within

LEMMA WithinMore ==
  ASSUME NEW a, NEW who, NEW more, Within(a, who), who \subseteq more
  PROVE  Within(a, more)
BY DEF Within

\* A header brings its own first piece.
LEMMA HeaderWithin ==
  ASSUME NEW who, NEW a, Within(a, who), NEW t \in who \cap Talkers, NEW count \in Nat
  PROVE  Within(addMotorolaHeader(a, [seq |-> 1, count |-> count, tg |-> t,
                                      first |-> [i \in {0} |-> Piece(t, 0)]]), who)
<1> DEFINE h == [seq |-> 1, count |-> count, tg |-> t, first |-> [i \in {0} |-> Piece(t, 0)]]
           b == addMotorolaHeader(a, h)
<1>1. h.first \in PieceMaps
  <2>1. h.first \in [{0} -> SomePiece]
    BY DEF Piece, SomePiece
  <2>2. {0} \in SUBSET Nat
    OBVIOUS
  <2> QED
    BY <2>1, <2>2 DEF PieceMaps
<1>2. h.seq \in Nat /\ h.count \in Nat /\ h.tg = t /\ \A n \in DOMAIN h.first : h.first[n].of = t
  BY DEF Piece
<1> HIDE DEF h
<1>3. a \in Assemblers
  BY DEF Within
<1>4. /\ b \in Assemblers
      /\ b = a \/ (b.tg = h.tg /\ b.first = h.first /\ b.blocks = <<>>)
  BY <1>1, <1>2, <1>3, HeaderBegins
<1>5. Within(b, who)
  <2> HIDE DEF b
  <2> QED
    BY <1>2, <1>4 DEF Within
<1> QED
  BY <1>5 DEF h

\* A block leaves pieces of theirs, and completes an alias of one of them.
LEMMA BlockWithin ==
  ASSUME NEW who, NEW a, Within(a, who), Nobody \in who,
         NEW block, block.num \in Nat, block.piece \in SomePiece, block.piece.of \in who
  PROVE  LET added == addMotorolaBlock(a, block)
         IN  /\ Within(added.asm, who)
             /\ added.alias.of \in who /\ added.alias.tg \in who
<1> DEFINE added == addMotorolaBlock(a, block)
           blocks == WithBlock(a.blocks, block)
           text == TextOf(a, blocks)
<1>1. a \in Assemblers
  BY DEF Within
<1>2. \A n \in DOMAIN blocks : blocks[n].of \in who
  BY DEF WithBlock, Within
<1>3. /\ added.asm \in Assemblers /\ added.asm.tg = a.tg /\ added.asm.first = a.first
      /\ added.asm.blocks \in {<<>>, a.blocks, blocks}
      /\ \/ added.alias = NoAlias
         \/ /\ AllPresent(a, blocks) /\ added.alias.tg = a.tg
            /\ BlocksOf[added.alias.of] \in DOMAIN text
            /\ text[BlocksOf[added.alias.of]].of = added.alias.of
  BY <1>1, BlockAdds
<1> HIDE DEF added, blocks
<1>4. Within(added.asm, who)
  BY <1>2, <1>3 DEF Within
<1>5. AllPresent(a, blocks) => \A n \in DOMAIN text : text[n].of \in who
  BY <1>2 DEF AllPresent, TextOf, Within
<1>6. added.alias.of \in who /\ added.alias.tg \in who
  <2>1. CASE added.alias = NoAlias
    BY <2>1 DEF NoAlias
  <2>2. CASE added.alias # NoAlias
    BY <1>3, <1>5, <2>2 DEF Within
  <2> QED
    BY <2>1, <2>2
<1> QED
  BY <1>4, <1>6 DEF added

\* Whatever a PDU holds is of him who talks, or of nobody.
LEMMA LatchStep ==
  ASSUME HeardInv, NEW pdu \in PDUs, Latch(pdu), UNCHANGED <<call, service>>
  PROVE  HeardInv'
<1> DEFINE talks == WhoTalks[call]
           who == heard' \cup {Nobody}
<1>1. talks \in Talkers /\ heard' = heard \cup {talks}
  BY SlotParams DEF Latch, HeardInv
<1>2. Within(asm.moto, who)
  BY <1>1, WithinMore DEF HeardInv
<1>3. Feed(pdu).asm \in [moto : Assemblers, harrisComplete : BOOLEAN]
        /\ Within(Feed(pdu).asm.moto, who)
        /\ Feed(pdu).alias.of \in who /\ Feed(pdu).alias.tg \in who
  <2> DEFINE header == [seq |-> 1, count |-> pdu.count, tg |-> talks,
                        first |-> [i \in {0} |-> Piece(talks, 0)]]
             block == [num |-> pdu.num, seq |-> 1, piece |-> Piece(pdu.of, pdu.num)]
  <2>1. asm \in [moto : Assemblers, harrisComplete : BOOLEAN]
    BY DEF HeardInv
  <2>2. CASE pdu.kind = "motoHeader"
    <3>1. pdu.count \in Nat
      BY <1>1, <2>2, AliasParams DEF PDUs
    <3>2. Within(addMotorolaHeader(asm.moto, header), who)
      BY <1>1, <1>2, <3>1, HeaderWithin
    <3>3. Feed(pdu) = [asm |-> [asm EXCEPT !.moto = addMotorolaHeader(asm.moto, header)], alias |-> NoAlias]
      BY <2>2 DEF Feed
    <3> HIDE DEF header
    <3> QED
      BY <2>1, <3>2, <3>3 DEF Within, NoAlias
  <2>3. CASE pdu.kind = "motoBlock"
    <3> DEFINE added == addMotorolaBlock(asm.moto, block)
    <3>1. pdu.num \in Nat /\ pdu.of \in {talks, Nobody}
      BY <1>1, <2>3, AliasParams DEF PDUs
    <3>2. block.num \in Nat /\ block.piece \in SomePiece /\ block.piece.of \in who
      BY <1>1, <3>1 DEF Piece, SomePiece
    <3>3. Feed(pdu) = [asm |-> [asm EXCEPT !.moto = added.asm], alias |-> added.alias]
      BY <2>3 DEF Feed
    <3> HIDE DEF block
    <3>4. Within(added.asm, who) /\ added.alias.of \in who /\ added.alias.tg \in who
      BY <1>2, <3>2, BlockWithin
    <3> HIDE DEF added
    <3> QED
      BY <2>1, <3>3, <3>4 DEF Within
  <2>4. CASE pdu.kind \notin {"motoHeader", "motoBlock"}
    <3>1. CASE pdu.kind = "harris" /\ ~asm.harrisComplete
      BY <1>1, <1>2, <2>1, <3>1 DEF Feed
    <3>2. CASE ~(pdu.kind = "harris" /\ ~asm.harrisComplete)
      BY <1>2, <2>1, <2>4, <3>2 DEF Feed, NoAlias
    <3> QED
      BY <3>1, <3>2
  <2> QED
    BY <2>2, <2>3, <2>4
<1>4. asm' \in [moto : Assemblers, harrisComplete : BOOLEAN] /\ Within(asm'.moto, who)
  BY <1>3 DEF Latch
<1>5. SlotResetForgets'
  <2>1. /\ latched'.who \in {talks, latched.who} /\ latched'.fix \in {talks, latched.fix}
        /\ latched'.alias \in {Feed(pdu).alias, latched.alias}
    BY DEF Latch
  <2> QED
    BY <1>1, <1>3, <2>1 DEF HeardInv, SlotResetForgets
<1> QED
  BY <1>4, <1>5 DEF HeardInv

LEMMA HeardInvariant == TDSpec => []HeardInv
<1>1. TDInit => HeardInv
  BY SlotParams, NewWithin, NewAssembler
     DEF TDInit, HeardInv, NewAsm, SlotResetForgets, NotLatched, NoAlias
<1>2. HeardInv /\ [TDNext]_vars => HeardInv'
  <2> SUFFICES ASSUME HeardInv, [TDNext]_vars PROVE HeardInv'
    OBVIOUS
  <2>1. ASSUME NEW pdu \in PDUs, NEW noise, Receive2V(pdu, noise) PROVE HeardInv'
    BY <2>1, LatchStep DEF Receive2V
  <2>2. ASSUME NEW pdu \in PDUs, ReceiveControl(pdu) PROVE HeardInv'
    BY <2>2, LatchStep DEF ReceiveControl, airVars, macVars, HeardInv, SlotResetForgets
  <2>3. CASE ResetSlot
    BY <2>3, NewWithin, NewAssembler
       DEF ResetSlot, airVars, HeardInv, NewAsm, SlotResetForgets, NotLatched, NoAlias
  <2>4. CASE NextCall
    <3>1. call' \in Calls
      BY <2>4, SlotParams DEF NextCall, HeardInv
    <3> QED
      BY <2>4, <3>1 DEF NextCall, macVars, HeardInv, SlotResetForgets
  <2>5. CASE Receive4V \/ MissVoice \/ SetKeyLookup \/ UNCHANGED vars
    BY <2>5 DEF Receive4V, MissVoice, SetKeyLookup, vars, airVars, macVars, HeardInv, SlotResetForgets
  <2> QED
    BY <2>1, <2>2, <2>3, <2>4, <2>5 DEF TDNext, ReceiveVoice
<1> QED
  BY <1>1, <1>2, PTL DEF TDSpec

\* After a reset of the slot, what its frames say of the call - the one who talks, his
\* alias and his position - is of those heard since, whatever pieces of an alias were there
\* before (phase2/tdma.go:367-388).
THEOREM SlotResetForgetsInv == TDSpec => []SlotResetForgets
<1>1. HeardInv => SlotResetForgets
  BY DEF HeardInv
<1> QED
  BY <1>1, HeardInvariant, PTL

-----------------------------------------------------------------------------
(* Types.                                                                  *)

\* What the sync, the keystream and the frame may be, and what signalling latches.
ValueInv ==
    /\ ess \in [valid : BOOLEAN, key : Keys, mi : {"now", "over"}]
    /\ keystream \in Keystreams
    /\ frame.voice \in {"none", "clear", "garbled"}
    /\ keyLookup \in BOOLEAN
    /\ asm.moto.count \in 0..aliasMaxBlocks
    /\ latched \in [who : Talkers \cup {Nobody}, alias : Aliases, fix : Talkers \cup {Nobody}]
    /\ heard \subseteq Talkers

LEMMA KeystreamTypes ==
  ASSUME NEW e \in [valid : BOOLEAN, key : Keys, mi : {"now", "over"}], keystream \in Keystreams
  PROVE  /\ Aged(e) \in [valid : BOOLEAN, key : Keys, mi : {"now", "over"}]
         /\ Aged(keystream) \in Keystreams
         /\ Prepared(e) \in Keystreams
<1>1. Aged(e) \in [valid : BOOLEAN, key : Keys, mi : {"now", "over"}]
  BY DEF Aged
<1>2. Aged(keystream) \in Keystreams
  BY DEF Aged, Keystreams
<1>3. [key |-> "short", mi |-> e.mi] \in Keystreams /\ ZeroKeystream \in Keystreams
  BY DEF Keystreams, ZeroKeystream
<1> QED
  BY <1>1, <1>2, <1>3 DEF Prepared

\* A corrupt header has no say in how many blocks there are, and a block never does.
LEMMA LatchTyped ==
  ASSUME HeardInv, ValueInv, NEW pdu \in PDUs, Latch(pdu)
  PROVE  /\ asm'.moto.count \in 0..aliasMaxBlocks
         /\ latched' \in [who : Talkers \cup {Nobody}, alias : Aliases,
                          fix : Talkers \cup {Nobody}]
         /\ heard' \subseteq Talkers
<1> DEFINE talks == WhoTalks[call]
<1>1. talks \in Talkers
  BY SlotParams DEF HeardInv
<1>2. asm \in [moto : Assemblers, harrisComplete : BOOLEAN] /\ asm.moto.count \in 0..aliasMaxBlocks
  BY DEF HeardInv, ValueInv
<1>3. Feed(pdu).asm.moto.count \in 0..aliasMaxBlocks /\ Feed(pdu).alias \in Aliases
  <2>1. NoAlias \in Aliases
    BY DEF NoAlias, Aliases
  <2>2. CASE pdu.kind = "motoHeader"
    <3> DEFINE header == [seq |-> 1, count |-> pdu.count, tg |-> talks,
                          first |-> [i \in {0} |-> Piece(talks, 0)]]
    <3>1. Feed(pdu) = [asm |-> [asm EXCEPT !.moto = addMotorolaHeader(asm.moto, header)],
                       alias |-> NoAlias]
      BY <2>2 DEF Feed
    <3>2. addMotorolaHeader(asm.moto, header).count \in 0..aliasMaxBlocks
      <4>1. CASE header.count \notin 1..aliasMaxBlocks
        BY <1>2, <4>1 DEF addMotorolaHeader
      <4>2. CASE header.count \in 1..aliasMaxBlocks
        <5>1. addMotorolaHeader(asm.moto, header).count = header.count
          BY <4>2 DEF addMotorolaHeader
        <5> QED
          BY <4>2, <5>1, AliasParams
      <4> QED
        BY <4>1, <4>2
    <3> HIDE DEF header
    <3> QED
      BY <1>2, <2>1, <3>1, <3>2
  <2>3. CASE pdu.kind = "motoBlock"
    <3>1. PICK block : block = [num |-> pdu.num, seq |-> 1, piece |-> Piece(pdu.of, pdu.num)]
      OBVIOUS
    <3>2. pdu.num \in Nat /\ pdu.of \in {talks, Nobody}
      BY <1>1, <2>3, AliasParams DEF PDUs
    <3>3. block.num \in Nat /\ block.piece \in SomePiece
      BY <1>1, <3>1, <3>2 DEF Piece, SomePiece
    <3>4. PICK added : added = addMotorolaBlock(asm.moto, block)
      OBVIOUS
    <3>5. added.asm.count = asm.moto.count /\ added.alias \in Aliases
      BY <1>2, <2>1, <3>3, <3>4, BlockAdds
    <3>6. Feed(pdu) = [asm |-> [asm EXCEPT !.moto = added.asm], alias |-> added.alias]
      BY <2>3, <3>1, <3>4 DEF Feed
    <3> QED
      BY <1>2, <3>5, <3>6
  <2>4. CASE pdu.kind = "harris" /\ ~asm.harrisComplete
    <3>1. [done |-> TRUE, of |-> talks, tg |-> Nobody] \in Aliases
      BY <1>1 DEF Aliases
    <3>2. Feed(pdu) = [asm |-> [asm EXCEPT !.harrisComplete = TRUE],
                       alias |-> [done |-> TRUE, of |-> talks, tg |-> Nobody]]
      BY <2>4 DEF Feed
    <3> QED
      BY <1>2, <3>1, <3>2
  <2>5. CASE /\ pdu.kind \notin {"motoHeader", "motoBlock"}
             /\ ~(pdu.kind = "harris" /\ ~asm.harrisComplete)
    <3>1. Feed(pdu) = [asm |-> asm, alias |-> NoAlias]
      BY <2>5 DEF Feed
    <3> QED
      BY <1>2, <2>1, <3>1
  <2> QED
    BY <2>2, <2>3, <2>4, <2>5
<1> QED
  BY <1>1, <1>3 DEF Latch, ValueInv

LEMMA ValueStep == CountInv /\ HeardInv /\ ValueInv /\ [TDNext]_vars => ValueInv'
<1> SUFFICES ASSUME CountInv, HeardInv, ValueInv, [TDNext]_vars PROVE ValueInv'
  OBVIOUS
<1>1. /\ ess \in [valid : BOOLEAN, key : Keys, mi : {"now", "over"}] /\ keystream \in Keystreams
      /\ keyLookup \in BOOLEAN /\ KeyOf[call] \in Keys
  BY SlotParams DEF ValueInv, CountInv
<1>2. NoFrame.voice = "none" /\ \A encrypted : [NoFrame EXCEPT !.encrypted = encrypted].voice = "none"
  BY DEF NoFrame
<1>3. CASE Receive4V
  <2>1. /\ UNCHANGED <<ess, keystream, asm, latched, keyLookup, heard>>
        /\ frame'.voice = Voice(NextBurstID)
    BY <1>3 DEF Receive4V, macVars
  <2> QED
    BY <2>1 DEF Voice, ValueInv
<1>4. ASSUME NEW pdu \in PDUs, NEW noise, Receive2V(pdu, noise) PROVE ValueInv'
  <2>1. PICK e : e = IF Decodes(essB, noise)
                     THEN [valid |-> TRUE, key |-> KeyOf[call], mi |-> "now"] ELSE Aged(ess)
    OBVIOUS
  <2>2. /\ ess' = e /\ frame'.voice = Voice(4) /\ keystream' = Prepared(e)
        /\ keyLookup' = keyLookup /\ Latch(pdu)
    BY <1>4, <2>1 DEF Receive2V
  <2>3. e \in [valid : BOOLEAN, key : Keys, mi : {"now", "over"}]
    <3>1. [valid |-> TRUE, key |-> KeyOf[call], mi |-> "now"]
            \in [valid : BOOLEAN, key : Keys, mi : {"now", "over"}]
      BY <1>1
    <3> QED
      BY <1>1, <2>1, <3>1, KeystreamTypes
  <2>4. keystream' \in Keystreams
    BY <1>1, <2>2, <2>3, KeystreamTypes
  <2>5. frame'.voice \in {"none", "clear", "garbled"}
    BY <2>2 DEF Voice
  <2> QED
    BY <1>1, <2>2, <2>3, <2>4, <2>5, LatchTyped DEF ValueInv
<1>5. ASSUME NEW pdu \in PDUs, ReceiveControl(pdu) PROVE ValueInv'
  <2>1. UNCHANGED <<ess, keystream, keyLookup>> /\ frame'.voice = "none"
    BY <1>2, <1>5 DEF ReceiveControl, essVars
  <2>2. CASE pdu.kind = "none"
    BY <1>5, <2>1, <2>2 DEF ReceiveControl, macVars, ValueInv
  <2>3. CASE pdu.kind # "none"
    BY <1>5, <2>1, <2>3, LatchTyped DEF ReceiveControl, ValueInv
  <2> QED
    BY <2>2, <2>3
<1>6. CASE MissVoice \/ NextCall
  <2>1. /\ UNCHANGED <<asm, latched, keyLookup, heard>> /\ frame'.voice = "none"
        /\ ess' \in {ess, Aged(ess)} /\ keystream' \in {keystream, Aged(keystream)}
    BY <1>2, <1>6 DEF MissVoice, NextCall, macVars
  <2> QED
    BY <1>1, <2>1, KeystreamTypes DEF ValueInv
<1>7. CASE SetKeyLookup
  <2>1. UNCHANGED <<ess, keystream, asm, latched, heard>> /\ frame'.voice = "none" /\ keyLookup'
    BY <1>2, <1>7 DEF SetKeyLookup, essVars, macVars
  <2>2. keyLookup' \in BOOLEAN
    BY <1>7 DEF SetKeyLookup
  <2> QED
    BY <2>1, <2>2 DEF ValueInv
<1>8. CASE ResetSlot
  <2>1. /\ ess' = NoESS /\ keystream' = NoKeystream /\ asm' = NewAsm /\ latched' = NotLatched
        /\ heard' = {} /\ keyLookup' = keyLookup /\ frame'.voice = "none"
    BY <1>2, <1>8 DEF ResetSlot, ESSReset
  <2>2. NoESS \in [valid : BOOLEAN, key : Keys, mi : {"now", "over"}] /\ NoKeystream \in Keystreams
    BY DEF NoESS, NoKeystream, Keystreams, Keys
  <2>3. /\ NewAsm.moto.count \in 0..aliasMaxBlocks
        /\ NotLatched \in [who : Talkers \cup {Nobody}, alias : Aliases,
                           fix : Talkers \cup {Nobody}]
    BY AliasParams DEF NewAsm, NewMotorola, NotLatched, NoAlias, Aliases
  <2> QED
    BY <1>1, <2>1, <2>2, <2>3 DEF ValueInv
<1>9. CASE UNCHANGED vars
  BY <1>9 DEF vars, essVars, macVars, ValueInv
<1> QED
  BY <1>3, <1>4, <1>5, <1>6, <1>7, <1>8, <1>9 DEF TDNext, ReceiveVoice

\* Every field of a slot stays in its range, whatever is lost and whatever its signalling
\* says: the parts go to one of four places and the count stops at a 2V, and no alias has
\* more blocks than a header may announce (phase2/ess.go:43-67, phase2/alias.go).
THEOREM TDTypeInv == TDSpec => []TDTypeOK
<1>1. TDInit => ValueInv
  <2> SUFFICES ASSUME TDInit PROVE ValueInv
    OBVIOUS
  <2>1. NoESS \in [valid : BOOLEAN, key : Keys, mi : {"now", "over"}] /\ NoKeystream \in Keystreams
    BY DEF NoESS, NoKeystream, Keystreams, Keys
  <2>2. /\ NewAsm.moto.count \in 0..aliasMaxBlocks
        /\ NotLatched \in [who : Talkers \cup {Nobody}, alias : Aliases,
                           fix : Talkers \cup {Nobody}]
    BY AliasParams DEF NewAsm, NewMotorola, NotLatched, NoAlias, Aliases
  <2>3. NoFrame.voice = "none"
    BY DEF NoFrame
  <2>4. keyLookup \in BOOLEAN
    BY DEF TDInit
  <2> QED
    BY <2>1, <2>2, <2>3, <2>4 DEF TDInit, ValueInv
<1>2. CountInv /\ HeardInv /\ ValueInv => TDTypeOK
  <2> SUFFICES ASSUME CountInv, HeardInv, ValueInv PROVE TDTypeOK
    OBVIOUS
  <2>1. \A p \in 0..3 : essB[p].pos \in -1..3 /\ essB[p].of \in Keys \cup {"now", "over"}
    BY DEF CountInv, Parts
  <2>2. asm.harrisComplete \in BOOLEAN
    BY DEF HeardInv
  <2>3. inStep \in BOOLEAN /\ keyed \in BOOLEAN /\ opened \in BOOLEAN
    BY DEF CountInv
  <2> QED
    BY <2>1, <2>2, <2>3 DEF CountInv, ValueInv, TDTypeOK
<1> QED
  BY <1>1, <1>2, ValueStep, CountInvariant, HeardInvariant, PTL DEF TDSpec
=============================================================================
