----------------------------- MODULE FrameSync -----------------------------
(***************************************************************************)
(* The Phase 1 frame synchroniser (sync.go), fed one dibit at a time by    *)
(* Feed or FeedSoft, and what is on the air before it: data units, sent    *)
(* whole or cut short by the next key-up or by noise.                      *)
(*                                                                         *)
(* A dibit is what the correlator sees of it: a dibit of the sync word, or *)
(* Blank.  What the error-correcting decoders make of a NID, of a TSBK     *)
(* block or of a PDU header depends on whether the receiver is aligned     *)
(* with the unit being sent.  Lengths are constants; a status symbol ends  *)
(* every StatusPeriod dibits of a unit.                                    *)
(***************************************************************************)
EXTENDS Integers, Sequences, FiniteSets

CONSTANTS
    SyncWord,         \* the sync word, a sequence of nonzero dibits
    NidSpan,          \* dibits of a NID, its status symbol included
    StatusPeriod,     \* distance of status symbols
    BlockDibits,      \* tsduBlockDibits: dibits of one trellis block
    MaxTSDUBlocks,    \* maxTSDUBlocks
    MaxBlocks,        \* bound: trellis blocks in any payload
    PayloadLen,       \* payloadLen: DUID -> payload dibits
    SyncThresh, SyncThreshCold,
    SoftReach,        \* bound: wrong dibits a soft hit can bridge
    HintMin,          \* nacHintMinFrames
    NACs,             \* network access codes, 0 (the initial hint) among them
    Units,            \* the data units that are sent
    MaxGarbled,       \* bound: sync dibits of a unit that noise hits
    NoiseDibits,      \* what is sliced from noise
    NoUnit, NoFrame, NoNID

SyncLen == Len(SyncWord)
Blank == 0
Dibits == {Blank} \cup {SyncWord[i] : i \in 1..SyncLen}

\* A data unit as it is sent.
Duids == {"ldu", "tdu", "tsdu", "pdu"}      \* "ldu", "tdu": of fixed length

\* isStatusPosition, counted from the first payload dibit; and within the NID.
IsStatus(p)    == (SyncLen + NidSpan + p + 1) % StatusPeriod = 0
NidStatus(raw) == (SyncLen + raw + 1) % StatusPeriod = 0

\* pduPayloadDibits, gatherTSDUBlock: payload dibits that hold n whole blocks.
DataDibits(n) == Cardinality({p \in 0..(n - 1) : ~IsStatus(p)})
Span == [n \in 0..MaxBlocks |->
           CHOOSE m \in 0..(n * BlockDibits * 2) :
             /\ DataDibits(m) = n * BlockDibits
             /\ \A k \in 0..(m - 1) : DataDibits(k) < n * BlockDibits]

Unit == [duid : Duids, nac : NACs, blocks : Nat]
Body == [u \in Units |-> CASE u.duid = "tsdu" -> Span[u.blocks]
                           [] u.duid = "pdu"  -> Span[u.blocks + 1]
                           [] OTHER           -> PayloadLen[u.duid]]
Size(u) == SyncLen + NidSpan + Body[u]

ASSUME FrameSyncParams ==
    /\ SyncWord \in Seq(Nat) /\ Blank \notin {SyncWord[i] : i \in 1..SyncLen}
    /\ NidSpan \in Nat \ {0} /\ StatusPeriod \in Nat \ {0, 1} /\ BlockDibits \in Nat
    /\ MaxTSDUBlocks \in Nat /\ MaxBlocks \in Nat \ {0} /\ MaxTSDUBlocks <= MaxBlocks
    /\ PayloadLen \in [Duids -> Nat \ {0}]
    /\ Units \subseteq Unit /\ 0 \in NACs
    /\ \A u \in Units : /\ u.blocks < MaxBlocks
                        /\ u.duid = "tsdu" => Body[u] <= PayloadLen["tsdu"]
    /\ NoiseDibits \subseteq Dibits
    /\ SyncThresh \in Nat /\ SyncThreshCold \in Nat
    /\ SyncThresh <= SyncThreshCold /\ SyncThresh < SyncLen
    /\ HintMin \in Nat \ {0}

VARIABLES
    unit,        \* air: the unit being sent, NoUnit during noise
    sent,        \* air: how many dibits of it have been sent
    garbled,     \* air: how many of its sync dibits noise has hit
    state,       \* fs.state: "searching", "nid", "payload"
    ring,        \* fs.ring from the oldest dibit, as far as it is filled
    nidRawIdx,   \* fs.nidRawIdx
    \* What is dead outside "payload" is held at a fixed value there:
    nid,         \* fs.currentNID
    len,         \* len(fs.payload)
    softLen,     \* len(fs.softPayload)
    cap,         \* fs.payloadCap
    pduPeeked, blocksPeeked,
    syncCount,   \* fs.syncCount; 0, 1 and more are told apart
    hintNAC, hintSet, hintCount,
    frame,       \* the frame this dibit completed, or NoFrame
    \* Histories.
    allSoft,     \* every payload dibit so far came with a soft value
    cutAt,       \* payload dibits before the last key-up inside the payload
    gap,         \* dibits since the ring last missed one, up to SyncLen
    nacs,        \* the NACs decoded last, up to HintMin of them
    headerOK     \* the PDU header peek succeeded

airVars  == <<unit, sent, garbled>>
bodyVars == <<nid, len, softLen, cap, pduPeeked, blocksPeeked>>
hintVars == <<hintNAC, hintSet, hintCount, nacs>>
bodyHist == <<allSoft, cutAt, headerOK>>
vars == <<airVars, state, ring, nidRawIdx, bodyVars, syncCount, hintVars,
          frame, bodyHist, gap>>

NID == [nac : NACs, duid : Duids]
MaxCap == LET caps == {PayloadLen[d] : d \in Duids} \cup {Body[u] : u \in Units}
          IN  CHOOSE c \in caps : \A x \in caps : x <= c
Frame == [nid : NID, len : 0..MaxCap, soft : 0..MaxCap,
          cold : BOOLEAN, headerOK : BOOLEAN, fedSoft : BOOLEAN]

ASSUME NoValues == NoUnit \notin Units /\ NoFrame \notin Frame /\ NoNID \notin NID

FSTypeOK ==
    /\ unit \in Units \cup {NoUnit}
    /\ sent \in 0..(SyncLen + NidSpan + MaxCap)
    /\ garbled \in 0..SyncLen
    /\ state \in {"searching", "nid", "payload"}
    /\ ring \in UNION {[1..n -> Dibits] : n \in 0..SyncLen}
    /\ state # "searching" => Len(ring) = SyncLen
    /\ nidRawIdx \in 0..NidSpan
    /\ nid \in NID \cup {NoNID}
    /\ state = "payload" => softLen <= len /\ len < cap /\ cap <= MaxCap
    /\ state # "payload" => bodyVars = <<NoNID, 0, 0, 0, FALSE, 0>>
    /\ blocksPeeked \in 0..MaxTSDUBlocks
    /\ syncCount \in 0..2
    /\ hintNAC \in NACs /\ hintSet \in BOOLEAN /\ hintCount \in 0..HintMin
    /\ frame \in Frame \cup {NoFrame}

FSInit ==
    /\ unit = NoUnit /\ sent = 0 /\ garbled = 0
    /\ state = "searching" /\ ring = <<>>
    /\ nidRawIdx = 0 /\ nid = NoNID
    /\ len = 0 /\ softLen = 0 /\ cap = 0 /\ pduPeeked = FALSE /\ blocksPeeked = 0
    /\ syncCount = 0
    /\ hintNAC = 0 /\ hintSet = FALSE /\ hintCount = 0
    /\ frame = NoFrame
    /\ allSoft = TRUE /\ cutAt = 0 /\ headerOK = FALSE
    /\ gap = 0 /\ nacs = <<>>

-----------------------------------------------------------------------------
(* The air: the next dibit v.                                              *)

SyncDibit(i, v) == v = SyncWord[i] \/ (v = Blank /\ garbled < MaxGarbled)

KeyUp(v) ==
    /\ unit' \in Units /\ sent' = 1
    /\ v = SyncWord[1] \/ (v = Blank /\ MaxGarbled > 0)
    /\ garbled' = IF v = SyncWord[1] THEN 0 ELSE 1

SendOn(v) ==
    /\ unit # NoUnit /\ sent < Size(unit)
    /\ IF sent < SyncLen
       THEN /\ SyncDibit(sent + 1, v)
            /\ garbled' = IF v = SyncWord[sent + 1] THEN garbled ELSE garbled + 1
       ELSE v = Blank /\ garbled' = garbled
    /\ sent' = sent + 1 /\ UNCHANGED unit

Noise(v) == unit' = NoUnit /\ sent' = 0 /\ garbled' = 0 /\ v \in NoiseDibits

Air(v) == KeyUp(v) \/ SendOn(v) \/ Noise(v)

\* The dibit being fed is the n-th after its unit's sync; it is the one that the
\* receiver takes for the next of the payload.
Nth(n) == unit' # NoUnit /\ sent' = SyncLen + n
InBody == Nth(NidSpan + len + 1) /\ unit'.duid = nid.duid

-----------------------------------------------------------------------------
(* feedOne.                                                                *)

Correlate(r) == Cardinality({i \in 1..SyncLen : r[i] # SyncWord[i]})
Pushed(v) == IF Len(ring) < SyncLen THEN Append(ring, v) ELSE Append(Tail(ring), v)
Push(v) == ring' = Pushed(v) /\ gap' = IF gap < SyncLen THEN gap + 1 ELSE gap
NoPush  == gap' = 0 /\ UNCHANGED ring

EmptyBody == /\ nid' = NoNID /\ len' = 0 /\ softLen' = 0 /\ cap' = 0
             /\ pduPeeked' = FALSE /\ blocksPeeked' = 0
             /\ allSoft' = TRUE /\ cutAt' = 0 /\ headerOK' = FALSE

StartNID == state' = "nid" /\ nidRawIdx' = 0

\* stateSearching: a hard hit, or a soft one if the dibit has a soft value.
Search(v, haveSoft) ==
    /\ state = "searching"
    /\ Push(v)
    /\ LET full == Len(ring') = SyncLen
           hard == full /\ Correlate(ring') <= IF syncCount = 0 THEN SyncThreshCold
                                                                ELSE SyncThresh
           soft == full /\ ~hard /\ haveSoft /\ Correlate(ring') <= SoftReach
       IN  \/ hard /\ StartNID
           \/ soft /\ StartNID
           \/ ~hard /\ UNCHANGED <<state, nidRawIdx>>
    /\ frame' = NoFrame
    /\ UNCHANGED <<bodyVars, bodyHist, syncCount, hintVars>>

\* stateCollectNID before the last dibit; the status dibit is dropped.
CollectNID(v) ==
    /\ state = "nid" /\ nidRawIdx < NidSpan - 1
    /\ IF NidStatus(nidRawIdx) THEN NoPush ELSE Push(v)
    /\ nidRawIdx' = nidRawIdx + 1
    /\ frame' = NoFrame
    /\ UNCHANGED <<state, bodyVars, bodyHist, syncCount, hintVars>>

\* decodeNID: right or refused if aligned; otherwise refused, or a codeword by luck.
Decodes(n) == Nth(nidRawIdx + 1) => n.nac = unit'.nac /\ n.duid = unit'.duid

NIDFails(v) ==
    /\ state = "nid" /\ nidRawIdx = NidSpan - 1
    /\ Push(v)
    /\ state' = "searching" /\ nidRawIdx' = 0
    /\ syncCount' = 0
    /\ hintCount' = 0
    /\ frame' = NoFrame
    /\ UNCHANGED <<bodyVars, bodyHist, hintNAC, hintSet, nacs>>

\* Slip: a NAC that differs keeps the hint switched on.
LearnKeepsHint(nac) ==
    LET n == IF nac = hintNAC THEN (IF hintCount < HintMin THEN hintCount + 1 ELSE hintCount)
                              ELSE 1
    IN  /\ hintNAC' = nac /\ hintCount' = n
        /\ hintSet' = (hintSet \/ n >= HintMin)

\* The hint follows the NAC, and is on from the HintMin-th match in a row.
LearnNAC(nac) ==
    LET n == IF nac = hintNAC THEN (IF hintCount < HintMin THEN hintCount + 1 ELSE hintCount)
                              ELSE 1
    IN  /\ hintNAC' = nac /\ hintCount' = n
        /\ hintSet' = ((hintSet /\ nac = hintNAC) \/ n >= HintMin)

NIDDecodes(v) ==
    /\ state = "nid" /\ nidRawIdx = NidSpan - 1
    /\ Push(v)
    /\ \E n \in NID :
         /\ Decodes(n)
         /\ nid' = n
         /\ LearnNAC(n.nac)
         /\ nacs' = LET all == Append(nacs, n.nac)
                    IN  IF Len(all) > HintMin THEN Tail(all) ELSE all
         /\ cap' = PayloadLen[n.duid]
    /\ syncCount' = IF syncCount < 2 THEN syncCount + 1 ELSE 2
    /\ state' = "payload" /\ nidRawIdx' = 0
    /\ len' = 0 /\ softLen' = 0 /\ pduPeeked' = FALSE /\ blocksPeeked' = 0
    /\ allSoft' = TRUE /\ cutAt' = 0 /\ headerOK' = FALSE
    /\ frame' = NoFrame

-----------------------------------------------------------------------------
(* stateCollectPayload.                                                    *)

\* Slip: a dibit without a soft value leaves the soft ones of before.
SoftAfterKept(haveSoft) == IF haveSoft THEN softLen + 1 ELSE softLen

\* Soft values are kept while every payload dibit has one.
SoftAfter(haveSoft) == IF haveSoft /\ softLen = len THEN softLen + 1 ELSE 0

\* copyFramePayload, of the payload with the dibit being fed.
FrameOf(end, haveSoft, header) ==
    [nid |-> nid, len |-> end, soft |-> IF SoftAfter(haveSoft) >= end THEN end ELSE 0,
     cold |-> syncCount = 1, headerOK |-> header, fedSoft |-> allSoft /\ haveSoft]

PeekDue == ~pduPeeked /\ nid.duid = "pdu" /\ len + 1 >= Span[1]

Rejects == syncCount = 1

\* A cold frame whose header does not decode: back to searching at once.
ColdReject(v) ==
    /\ state = "payload" /\ PeekDue /\ Rejects
    /\ NoPush
    /\ state' = "searching" /\ syncCount' = 0
    /\ EmptyBody
    /\ frame' = NoFrame
    /\ UNCHANGED <<nidRawIdx, hintVars>>

\* Slip: the header block is not counted in the span.
PeeksShort ==
    IF ~PeekDue THEN {<<cap, headerOK>>}
    ELSE (IF InBody THEN {<<IF Span[unit'.blocks] > cap THEN Span[unit'.blocks] ELSE cap, TRUE>>}
                    ELSE {})
         \cup (IF Rejects THEN {} ELSE {<<cap, FALSE>>})

\* The cap and headerOK after this dibit.
Peeks ==
    IF ~PeekDue THEN {<<cap, headerOK>>}
    ELSE (IF InBody THEN {<<IF Body[unit'] > cap THEN Body[unit'] ELSE cap, TRUE>>} ELSE {})
         \cup (IF Rejects THEN {} ELSE {<<cap, FALSE>>})

BlockDue == nid.duid = "tsdu" /\ blocksPeeked < MaxTSDUBlocks
                              /\ len + 1 >= Span[blocksPeeked + 1]

\* The block that this dibit completes is marked as the last.
MarkedLast == InBody /\ unit'.blocks = blocksPeeked + 1

Emit(end, haveSoft, header) ==
    /\ frame' = FrameOf(end, haveSoft, header)
    /\ EmptyBody

\* The last TSBK block is complete.
LastBlock(v, haveSoft) ==
    /\ Push(v)
    /\ Emit(len + 1, haveSoft, FALSE)
    /\ state' = "searching"
    /\ UNCHANGED <<nidRawIdx, syncCount, hintVars>>

\* Slip: the part of the sync word in the payload is not cut off.
SalvageWhole(v, haveSoft) == Emit(len + 1, haveSoft, FALSE)

\* A TSDU cut short keeps the whole blocks it has.
Salvage(v, haveSoft) == Emit(len + 1 - SyncLen, haveSoft, FALSE)

\* Another unit's sync inside the payload.
Resync(v, haveSoft) ==
    /\ Push(v)
    /\ IF nid.duid = "tsdu" /\ len + 1 - SyncLen >= Span[1]
       THEN Salvage(v, haveSoft)
       ELSE frame' = NoFrame /\ EmptyBody
    /\ StartNID
    /\ UNCHANGED <<syncCount, hintVars>>

PayloadFull(v, haveSoft, header) ==
    /\ Push(v)
    /\ Emit(len + 1, haveSoft, header)
    /\ state' = "searching"
    /\ UNCHANGED <<nidRawIdx, syncCount, hintVars>>

\* Slip: the ring is not fed during a payload, as it once was not.
PayloadGoesOnBlind(v, haveSoft, newCap, header) ==
    /\ UNCHANGED ring /\ gap' = IF gap < SyncLen THEN gap + 1 ELSE gap
    /\ len' = len + 1 /\ softLen' = SoftAfter(haveSoft) /\ cap' = newCap
    /\ pduPeeked' = (pduPeeked \/ PeekDue)
    /\ blocksPeeked' = IF BlockDue THEN blocksPeeked + 1 ELSE blocksPeeked
    /\ allSoft' = (allSoft /\ haveSoft) /\ headerOK' = header
    /\ cutAt' = IF sent' = 1 THEN len ELSE cutAt
    /\ frame' = NoFrame
    /\ UNCHANGED <<state, nidRawIdx, nid, syncCount, hintVars>>

PayloadGoesOn(v, haveSoft, newCap, header) ==
    /\ Push(v)
    /\ len' = len + 1 /\ softLen' = SoftAfter(haveSoft) /\ cap' = newCap
    /\ pduPeeked' = (pduPeeked \/ PeekDue)
    /\ blocksPeeked' = IF BlockDue THEN blocksPeeked + 1 ELSE blocksPeeked
    /\ allSoft' = (allSoft /\ haveSoft) /\ headerOK' = header
    /\ cutAt' = IF sent' = 1 THEN len ELSE cutAt
    /\ frame' = NoFrame
    /\ UNCHANGED <<state, nidRawIdx, nid, syncCount, hintVars>>

\* A sync that starts after the payload did, ends before its cap, and is clean.
ResyncDue(v, newCap) ==
    /\ len + 1 >= SyncLen /\ len + 1 < newCap
    /\ Correlate(Pushed(v)) <= SyncThresh

\* Slip: a payload goes on until it is longer than its cap.
CollectPayloadOver(v, haveSoft) ==
    /\ state = "payload"
    /\ \E p \in Peeks :
         \/ BlockDue /\ MarkedLast /\ LastBlock(v, haveSoft)
         \/ IF ResyncDue(v, p[1]) THEN Resync(v, haveSoft)
            ELSE IF len < p[1] THEN PayloadGoesOn(v, haveSoft, p[1], p[2])
            ELSE PayloadFull(v, haveSoft, p[2])

CollectPayload(v, haveSoft) ==
    /\ state = "payload"
    /\ \E p \in Peeks :
         \/ BlockDue /\ MarkedLast /\ LastBlock(v, haveSoft)
         \/ IF ResyncDue(v, p[1]) THEN Resync(v, haveSoft)
            ELSE IF len + 1 < p[1] THEN PayloadGoesOn(v, haveSoft, p[1], p[2])
            ELSE PayloadFull(v, haveSoft, p[2])

FeedOne(v, haveSoft) ==
    \/ Search(v, haveSoft)
    \/ CollectNID(v) \/ NIDFails(v) \/ NIDDecodes(v)
    \/ ColdReject(v) \/ CollectPayload(v, haveSoft)

-----------------------------------------------------------------------------
(* Reset, ResetFull, SoftReset, between two dibits.                        *)

Reset ==
    /\ state' = "searching" /\ ring' = <<>> /\ gap' = 0 /\ nidRawIdx' = 0
    /\ syncCount' = 0
    /\ EmptyBody /\ frame' = NoFrame
    /\ UNCHANGED <<airVars, hintVars>>

ResetFull ==
    /\ state' = "searching" /\ ring' = <<>> /\ gap' = 0 /\ nidRawIdx' = 0
    /\ syncCount' = 0
    /\ hintNAC' = 0 /\ hintSet' = FALSE /\ hintCount' = 0 /\ nacs' = <<>>
    /\ EmptyBody /\ frame' = NoFrame
    /\ UNCHANGED airVars

SoftReset ==
    /\ state' = "searching" /\ nidRawIdx' = 0 /\ syncCount' = 0
    /\ EmptyBody /\ frame' = NoFrame
    /\ UNCHANGED <<airVars, ring, gap, hintVars>>

Feed == \E v \in Dibits, haveSoft \in BOOLEAN : Air(v) /\ FeedOne(v, haveSoft)

FSNext == Feed \/ Reset \/ ResetFull \/ SoftReset

FSSpec == FSInit /\ [][FSNext]_vars
-----------------------------------------------------------------------------
(* Properties.                                                             *)

\* A frame has a soft value for each of its dibits or none at all, and it has them
\* whenever every dibit was fed with one, however Feed and FeedSoft alternate
\* (the comment at sync.go:118-121, the code at 418-422).
SoftAligned ==
    frame # NoFrame => frame.soft = IF frame.fedSoft THEN frame.len ELSE 0

\* The receiver is collecting the payload that the unit on air is sending.
OnUnit == /\ unit # NoUnit /\ state = "payload"
          /\ sent = SyncLen + NidSpan + len /\ nid.duid = unit.duid

SendsOn == unit # NoUnit /\ unit' = unit /\ sent' = sent + 1

\* A unit whose NID was read is followed to its end: as long as it is sent it is
\* neither dropped nor ended early, and the frame is all of its payload; save for
\* a packet whose header cannot be read.
Follows ==
    [][OnUnit /\ SendsOn =>
         \/ frame' = NoFrame /\ OnUnit'
         \/ frame' # NoFrame /\ sent' = Size(unit) /\ frame'.len = Body[unit]
         \/ unit.duid = "pdu" /\ ~(headerOK \/ headerOK')]_vars

SyncEnds == SendsOn /\ sent' = SyncLen /\ garbled' <= SyncThresh

\* A clean sync is never missed - not during a payload, not where two frames meet -
\* save inside a NID, on the very dibit that completes a frame, around the start of
\* a payload, or where the ring was reset or has skipped a dibit (sync.go:464-467, 487-493).
BlindSpots ==
    [][SyncEnds => \/ state' = "nid"
                   \/ state = "nid"
                   \/ frame' # NoFrame
                   \/ gap' < SyncLen
                   \/ state = "payload" /\ len + 1 < SyncLen]_vars

\* A TSDU salvaged from a cut transmission ends where the next one began
\* (sync.go:494-510).
SalvageEndsAtCut ==
    [][SyncEnds /\ state' = "nid" /\ frame' # NoFrame => frame'.len = cutAt]_vars

\* The hint is on only while the last HintMin NIDs decoded all had its NAC
\* (sync.go:129-132).
HintEarned ==
    hintSet => nacs = [i \in 1..HintMin |-> hintNAC]

\* "Used by FrameSync to size a PDU frame to its actual on-air length" (pdu.go:60):
\* but the cap is only ever raised, and a packet shorter than it is still being
\* collected when it has ended.
PduSized ==
    [][OnUnit /\ SendsOn /\ unit.duid = "pdu" /\ sent' = Size(unit) /\ headerOK'
         => frame' # NoFrame]_vars
=============================================================================
