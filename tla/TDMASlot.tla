------------------------------ MODULE TDMASlot ------------------------------
(***************************************************************************)
(* One slot of the Phase 2 TDMAProcessor (phase2/tdma.go): the position of *)
(* the voice bursts and the encryption sync (phase2/ess.go), the ADP       *)
(* keystream (adp.go), the signalling and what it latches, and the alias   *)
(* assembler (phase2/alias.go).  That a burst goes to the slot it was sent *)
(* on is Superframe's; the two slots share nothing but the mask and the    *)
(* key lookup.                                                             *)
(*                                                                         *)
(* The air is a call at a time, of superframes of five voice bursts: four  *)
(* 4V, each with a part of the encryption sync, and a 2V with its parity.  *)
(* The sync gives the algorithm and key, and the message indicator of the  *)
(* next superframe.  The first part holds no indicator bits, and so is the *)
(* same in every superframe of a call; the others never are.  A superframe *)
(* is "now" or it is over, which is all that decides whether an indicator, *)
(* a part or a keystream fits it.                                          *)
(***************************************************************************)
EXTENDS TalkerAlias

CONSTANTS Calls,
          WhoTalks,     \* his identity and alias, by call
          KeyOf,        \* "none", "short" or "long", by call
          Services,     \* what an instance has together: [calls, kinds, lossy]
          EssCorrects   \* wrong hexbits that the RS(44,16) code corrects; 14

Keys == {"none", "short", "long"}

\* What a MAC PDU holds; "none" does not decode, "other" is of no interest here.
PDUKinds == {"none", "other", "identity", "ptt", "position", "motoHeader", "motoBlock", "harris"}

ASSUME SlotParams ==
    /\ WhoTalks \in [Calls -> Talkers] /\ KeyOf \in [Calls -> Keys]
    /\ EssCorrects \in Nat
    /\ \A s \in Services : s.calls \subseteq Calls /\ s.kinds \subseteq PDUKinds /\ s.lossy \in BOOLEAN

VARIABLES
    service,         \* air: which calls and PDUs there are, and whether voice is lost
    call, due,       \* air: the call, and the voice burst that is next
    \* ESSState.
    burstID,         \* -1 before the first burst
    essB,            \* the four parts
    ess,             \* [valid, key, mi]
    \* slotState.
    keystream,       \* NoKeystream until hasMI
    asm,             \* aliasAsm: [moto, harrisComplete]
    latched,         \* what every frame says of the call: [who, alias, fix]
    keyLookup,       \* TDMAProcessor.keyLookup is set
    frame,           \* the P2VoiceFrame of the last step, if it gave one out
    \* Histories.
    inStep,          \* no voice burst has been missed since the last 2V, or the reset
    keyed,           \* the last superframe of the call gave a key and indicator to use
    opened,          \* the first burst of this superframe was received in step
    heard            \* who has been heard since the reset

airVars  == <<service, call, due>>
essVars  == <<burstID, essB, ess>>
macVars  == <<asm, latched>>
histVars == <<inStep, keyed, opened>>
vars == <<airVars, essVars, keystream, macVars, keyLookup, frame, histVars, heard>>

Part(pos, of) == [pos |-> pos, of |-> of]
NoPart        == Part(-1, "over")
NoESS         == [valid |-> FALSE, key |-> "none", mi |-> "over"]

\* A keystream that Prepare refused to make is all zeros.
NoKeystream   == [key |-> "none", mi |-> "over"]
ZeroKeystream == [key |-> "long", mi |-> "over"]
Keystreams    == [key : {"none", "short", "long"}, mi : {"now", "over"}]

NewAsm     == [moto |-> NewMotorola, harrisComplete |-> FALSE]
NotLatched == [who |-> Nobody, alias |-> NoAlias, fix |-> Nobody]
NoFrame    == [voice |-> "none", decrypted |-> FALSE, encrypted |-> FALSE]

TDInit ==
    /\ service \in Services /\ call \in service.calls /\ due = 0
    /\ burstID = -1 /\ essB = [p \in 0..3 |-> NoPart] /\ ess = NoESS
    /\ keystream = NoKeystream
    /\ asm = NewAsm /\ latched = NotLatched
    /\ keyLookup = FALSE /\ frame = NoFrame
    /\ inStep = TRUE /\ keyed = FALSE /\ opened = FALSE /\ heard = {}

-----------------------------------------------------------------------------
(* The air.                                                                *)

\* What is sent as part p, in this superframe.
Sent(p) == IF p = 0 THEN Part(0, KeyOf[call]) ELSE Part(p, "now")

\* When a superframe is over, what was of it is of no use.
AgedParts(parts) == [p \in 0..3 |-> IF parts[p].pos > 0 THEN NoPart ELSE parts[p]]
Aged(keyed1) == [keyed1 EXCEPT !.mi = "over"]

-----------------------------------------------------------------------------
(* ESSState.                                                               *)

\* Feed of a 4V: the bursts are counted, and a 2V sets the count right.
NextBurstIDUnwrapped == burstID + 1
NextBurstID == LET b == (burstID + 1) % 5 IN IF b > 3 THEN 0 ELSE b

WrongParts(parts) == Cardinality({p \in 0..3 : parts[p] # Sent(p)})

\* decode: each part is four hexbits, and one that was put in the place of another is as
\* wrong as none.  Beyond what the code corrects, it and the check of its padding refuse
\* the word.
DecodesHalf(parts, noise) == 4 * WrongParts(parts) + noise <= EssCorrects \div 2
Decodes(parts, noise) == 4 * WrongParts(parts) + noise <= EssCorrects

Encrypted(e) == e.valid /\ e.key # "none"

ESSReset == burstID' = -1 /\ ess' = NoESS /\ UNCHANGED essB

-----------------------------------------------------------------------------
(* Voice.                                                                  *)

\* Every codeword is decrypted, if anything ever was prepared.
Decrypts == keystream # NoKeystream

Voice(id) ==
    IF \/ KeyOf[call] = "none" /\ keystream \in {NoKeystream, ZeroKeystream}
       \/ KeyOf[call] = "short" /\ keystream = [key |-> "short", mi |-> "now"] /\ id = due
    THEN "clear" ELSE "garbled"

\* Prepare, after the voice of a 2V, for the next superframe.  A key of more than
\* five bytes is refused, and what was there stays.
PreparedOnce(e) ==
    IF keystream = NoKeystream /\ Encrypted(e) /\ keyLookup /\ e.key = "short"
    THEN [key |-> "short", mi |-> e.mi] ELSE Aged(keystream)
Prepared(e) ==
    IF ~Encrypted(e) \/ ~keyLookup THEN Aged(keystream)
    ELSE IF e.key = "short" THEN [key |-> "short", mi |-> e.mi]
    ELSE IF keystream = NoKeystream THEN ZeroKeystream ELSE Aged(keystream)

-----------------------------------------------------------------------------
(* Signalling: what a decoded MAC PDU holds.                               *)

PDUs ==
    LET all == [kind : {"none", "other", "identity", "ptt", "position"}]
                 \cup [kind : {"motoHeader"}, count : {BlocksOf[WhoTalks[call]], 0}]
                 \cup [kind : {"motoBlock"}, num : 1..BlocksOf[WhoTalks[call]],
                       of : {WhoTalks[call], Nobody}]
                 \cup [kind : {"harris"}]
    IN  {pdu \in all : pdu.kind \in service.kinds}

\* feed: the assembler after a message, and the alias it completes.  A message too short
\* for its format is skipped and is one of no interest here.  A Harris one states its
\* length: the code slices by the field (phase2/alias.go:237-243), and a field below
\* three, which the walk lets pass, is an index out of range there.
Feed(pdu) ==
    LET talks == WhoTalks[call]
        none == [asm |-> asm, alias |-> NoAlias]
    IN  CASE pdu.kind = "motoHeader" ->
               [asm |-> [asm EXCEPT !.moto = addMotorolaHeader(@,
                           [seq |-> 1, count |-> pdu.count, tg |-> talks,
                            first |-> [i \in {0} |-> Piece(talks, 0)]])],
                alias |-> NoAlias]
          [] pdu.kind = "motoBlock" ->
               LET added == addMotorolaBlock(asm.moto, [num |-> pdu.num, seq |-> 1,
                                                        piece |-> Piece(pdu.of, pdu.num)])
               IN  [asm |-> [asm EXCEPT !.moto = added.asm], alias |-> added.alias]
          [] pdu.kind = "harris" /\ ~asm.harrisComplete ->
               [asm |-> [asm EXCEPT !.harrisComplete = TRUE],
                alias |-> [done |-> TRUE, of |-> talks, tg |-> Nobody]]
          [] OTHER -> none

\* The last of each is kept for the frames to come.
Latch(pdu) ==
    LET talks == WhoTalks[call]
        fed   == Feed(pdu)
    IN  /\ asm' = fed.asm
        /\ latched' = [who   |-> IF pdu.kind \in {"identity", "ptt"} THEN talks ELSE latched.who,
                       alias |-> IF fed.alias.done THEN fed.alias ELSE latched.alias,
                       fix   |-> IF pdu.kind = "position" THEN talks ELSE latched.fix]
        /\ heard' = heard \cup {talks}

-----------------------------------------------------------------------------
(* ProcessBurst.                                                           *)

Receive4V ==
    /\ due < 4
    /\ due' = due + 1
    /\ burstID' = NextBurstID
    /\ essB' = [essB EXCEPT ![NextBurstID] = IF NextBurstID = due THEN Sent(due) ELSE NoPart]
    /\ frame' = [voice |-> Voice(NextBurstID), decrypted |-> Decrypts,
                 encrypted |-> Encrypted(ess)]
    /\ opened' = (opened \/ (due = 0 /\ inStep))
    /\ UNCHANGED <<service, call, ess, keystream, macVars, keyLookup, inStep, keyed, heard>>

\* The sync is decoded first, then the signalling, then the voice, and the
\* keystream is prepared last.  noise: wrong hexbits of the parity.
Receive2V(pdu, noise) ==
    /\ due = 4
    /\ LET e == IF Decodes(essB, noise)
                THEN [valid |-> TRUE, key |-> KeyOf[call], mi |-> "now"]
                ELSE Aged(ess)
       IN  /\ due' = 0
           /\ burstID' = 4 /\ ess' = e /\ essB' = AgedParts(essB)
           /\ Latch(pdu)
           /\ frame' = [voice |-> Voice(4), decrypted |-> Decrypts, encrypted |-> Encrypted(e)]
           /\ keystream' = Prepared(e)
           /\ inStep' = TRUE /\ opened' = FALSE
           /\ keyed' = (opened /\ noise = 0 /\ keyLookup /\ KeyOf[call] = "short")
           /\ UNCHANGED <<service, call, keyLookup>>

\* processControlBurst, between two voice bursts.
ReceiveControl(pdu) ==
    /\ IF pdu.kind = "none" THEN UNCHANGED macVars /\ UNCHANGED heard /\ frame' = NoFrame
       ELSE /\ Latch(pdu)
            /\ frame' = [NoFrame EXCEPT !.encrypted = pdu.kind = "ptt" /\ KeyOf[call] # "none"]
    /\ UNCHANGED <<airVars, essVars, keystream, keyLookup, histVars>>

\* A voice burst that does not get here, or without a valid ISCH.
MissVoice ==
    /\ service.lossy
    /\ due' = (due + 1) % 5
    /\ frame' = NoFrame
    /\ inStep' = FALSE
    /\ IF due = 4
       THEN /\ essB' = AgedParts(essB) /\ ess' = Aged(ess) /\ keystream' = Aged(keystream)
            /\ keyed' = FALSE /\ opened' = FALSE
       ELSE UNCHANGED <<essB, ess, keystream, keyed, opened>>
    /\ UNCHANGED <<service, call, burstID, macVars, keyLookup, heard>>

\* Another call on the slot, from the start of a superframe: nothing tells the slot.
NextCall ==
    /\ call' \in service.calls \ {call} /\ due' = 0
    /\ essB' = AgedParts(essB) /\ ess' = Aged(ess) /\ keystream' = Aged(keystream)
    /\ frame' = NoFrame
    /\ inStep' = (inStep /\ due = 0) /\ keyed' = FALSE /\ opened' = FALSE
    /\ UNCHANGED <<service, burstID, macVars, keyLookup, heard>>

SetKeyLookup ==
    /\ ~keyLookup
    /\ keyLookup' = TRUE
    /\ frame' = NoFrame
    /\ UNCHANGED <<airVars, essVars, keystream, macVars, histVars, heard>>

\* Everything but the parts of the encryption sync.
ResetSlot ==
    /\ ESSReset
    /\ keystream' = NoKeystream /\ asm' = NewAsm /\ latched' = NotLatched
    /\ frame' = NoFrame
    /\ inStep' = (due = 0) /\ keyed' = FALSE /\ opened' = FALSE /\ heard' = {}
    /\ UNCHANGED <<airVars, keyLookup>>

ReceiveVoice == Receive4V \/ \E pdu \in PDUs, noise \in {0, EssCorrects + 1} : Receive2V(pdu, noise)

TDNext ==
    \/ ReceiveVoice
    \/ \E pdu \in PDUs : ReceiveControl(pdu)
    \/ MissVoice \/ NextCall \/ SetKeyLookup \/ ResetSlot

TDSpec == TDInit /\ [][TDNext]_vars

\* Voice keeps coming, and its sync is not lost for ever.
TDFair == /\ WF_vars(ReceiveVoice)
          /\ SF_vars(\E pdu \in PDUs : Receive2V(pdu, 0))

TDFairSpec == TDSpec /\ TDFair
-----------------------------------------------------------------------------
(* Properties.                                                             *)

TDTypeOK ==
    /\ service \in Services /\ call \in service.calls /\ due \in 0..4
    /\ burstID \in -1..4
    /\ \A p \in 0..3 : essB[p].pos \in -1..3 /\ essB[p].of \in Keys \cup {"now", "over"}
    /\ ess \in [valid : BOOLEAN, key : Keys, mi : {"now", "over"}]
    /\ keystream \in Keystreams
    /\ asm.harrisComplete \in BOOLEAN /\ asm.moto.count \in 0..aliasMaxBlocks
    /\ latched \in [who : Talkers \cup {Nobody}, alias : Aliases, fix : Talkers \cup {Nobody}]
    /\ frame.voice \in {"none", "clear", "garbled"}
    /\ keyLookup \in BOOLEAN
    /\ inStep \in BOOLEAN /\ keyed \in BOOLEAN /\ opened \in BOOLEAN
    /\ heard \subseteq Talkers

\* The counted position of a voice burst is the one it was sent at, as long as none has
\* been missed since the last 2V, and what has been gathered of the encryption sync is what
\* this superframe sent, each part in its place (phase2/ess.go:43-67).
InStep ==
    inStep => /\ burstID \in (IF due = 0 THEN {-1, 4} ELSE {due - 1})
              /\ \A p \in 0..3 : p < due => essB[p] = Sent(p)

\* If the first burst of a superframe and its 2V were received, its encryption sync is
\* known, whatever was missed between them, and every burst of the next superframe is
\* decrypted right up to the first that is missed (phase2/ess.go:105-135,
\* phase2/tdma.go:200-251: the voice of a 2V uses the keystream of its own superframe).
KeystreamCurrent ==
    [][keyed /\ inStep' /\ frame'.voice # "none" => frame'.voice = "clear"]_vars

\* After a reset a frame says nothing of anyone heard before (phase2/tdma.go:367-388),
\* the assembler's pieces included.
SlotResetForgets ==
    {latched.who, latched.fix, latched.alias.of, latched.alias.tg} \subseteq heard \cup {Nobody}

\* What was lost is made up for: if from some time on bursts are only received, of a
\* call whose key is there, then its voice is clear again and again, until it ends.
OnlyReceives == ReceiveVoice \/ \E pdu \in PDUs : ReceiveControl(pdu)

Regained ==
    (<>[][OnlyReceives]_vars /\ <>[](keyLookup /\ KeyOf[call] = "short"))
      => []<>(frame.voice = "clear")

\* "Decrypted bool // true if encrypted AND successfully decrypted (PCM is clear)"
\* (phase2/types.go:76).
DecryptedIsClear == frame.decrypted => frame.voice = "clear" /\ frame.encrypted
=============================================================================
