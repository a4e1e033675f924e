---------------------------- MODULE Superframe ----------------------------
(***************************************************************************)
(* The Phase 2 burst framer (phase2/framer.go) and the decoder's           *)
(* superframe counter (phase2/decoder.go), fed one dibit at a time, and    *)
(* what is on the air before them: bursts of two interleaved slots, from   *)
(* which the demodulator may lose dibits and to which it may add some.     *)
(*                                                                         *)
(* A collected burst can be read only if its dibits are those of one burst *)
(* in order, and what is scrambled in it only if it is taken for the       *)
(* position it was sent at.  So all that is kept of the collected dibits   *)
(* is how many they are, and of which burst, if of one.  Process reads the *)
(* mask after it has framed its dibits: the bursts of a call share one     *)
(* reading, and since the mask is only ever set, and calls may be of any   *)
(* size, the model reads it at each burst.                                 *)
(***************************************************************************)
EXTENDS Integers, Sequences, FiniteSets

CONSTANTS
    SyncDibits, BurstDibits,
    SuperframeBursts,  \* bursts of a superframe
    WhichSlot,         \* position -> slot
    SIsch,             \* the positions whose ISCH is the sync pattern
    SyncBurstCount,    \* syncBurstCount: bursts buffered to find the offset
    Bodies,            \* what is sent: [kind, isch] records
    MaxLost, MaxAdded, \* bounds: dibits lost or added between two syncs
    NoBurst, NoCall

Positions == 0..(SuperframeBursts - 1)
Slots == {0, 1}

\* "4V" and "2V" carry voice and, like "sealed" control, are scrambled; "open"
\* control is not; "noise" is what cannot be read.  A "weak" ISCH has more wrong
\* bits than the framer allows and few enough for DecodeISCH; a "lost" one has more.
Kinds == {"4V", "2V", "sealed", "open", "noise"}
Body  == [kind : Kinds, isch : {"clean", "weak", "lost"}]
Burst == [pos : Positions, body : Body]

ASSUME SuperframeParams ==
    /\ SyncDibits \in Nat \ {0} /\ BurstDibits \in Nat /\ SyncDibits < BurstDibits
    /\ SuperframeBursts \in Nat \ {0}
    /\ WhichSlot \in [Positions -> Slots]
    /\ SIsch \subseteq Positions /\ Bodies \subseteq Body
    /\ SyncBurstCount \in Nat \ {0}
    /\ MaxLost \in Nat /\ MaxLost < BurstDibits
    /\ MaxAdded \in Nat /\ MaxAdded < BurstDibits
    /\ NoBurst \notin Burst /\ NoCall \notin Slots

VARIABLES
    onAir,          \* air: the burst being sent
    idx,            \* air: how many of its dibits have been sent
    accum,          \* f.accum: how many of the last dibits open the burst being
                    \* sent, in order; 0 if they do not
    collecting,     \* f.collecting; f.tracking is set with it, and never apart
    burstIdx,       \* f.burstIdx
    burst,          \* f.burst: the burst of which it has the first dibits, in
                    \* order, or NoBurst
    hasMask,        \* d.tdma.hasMask
    superframePos,  \* d.superframePos
    syncBuf,        \* d.syncBuf, each burst as sent, or NoBurst
    mac,            \* per slot: whose identity t.slots[s] holds, by slot of sending
    \* Histories.
    net,            \* dibits added less dibits lost since the last sync
    strayed         \* bursts have been counted wrong, or no voice told the offset

airVars     == <<onAir, idx>>
framerVars  == <<accum, collecting, burstIdx, burst>>
decoderVars == <<hasMask, superframePos, syncBuf, mac>>
vars == <<airVars, framerVars, decoderVars, net, strayed>>

SFTypeOK ==
    /\ onAir \in Burst /\ idx \in 0..(BurstDibits - 1)
    /\ accum \in 0..BurstDibits
    /\ collecting \in BOOLEAN
    /\ burstIdx \in 0..(BurstDibits - 1)
    /\ burst \in Burst \cup {NoBurst}
    /\ burstIdx = 0 => burst = NoBurst
    /\ ~collecting => burstIdx = 0
    /\ hasMask \in BOOLEAN
    /\ superframePos \in Positions \cup {-1}
    /\ syncBuf \in Seq(Burst \cup {NoBurst}) /\ Len(syncBuf) < SyncBurstCount
    /\ syncBuf # <<>> => hasMask /\ superframePos = -1
    /\ mac \in [Slots -> Slots \cup {NoCall}]
    /\ net \in (-MaxLost)..MaxAdded /\ strayed \in BOOLEAN

SFInit ==
    /\ \E p \in Positions, b \in Bodies : onAir = [pos |-> p, body |-> b]
    /\ idx = 0
    /\ accum = 0 /\ collecting = FALSE /\ burstIdx = 0 /\ burst = NoBurst
    /\ hasMask = FALSE /\ superframePos = -1 /\ syncBuf = <<>>
    /\ mac = [s \in Slots |-> NoCall]
    /\ net = 0 /\ strayed = FALSE

-----------------------------------------------------------------------------
(* The air.                                                                *)

NextPos(p) == (p + 1) % SuperframeBursts

Advance ==
    IF idx + 1 < BurstDibits
    THEN idx' = idx + 1 /\ UNCHANGED onAir
    ELSE /\ idx' = 0
         /\ \E b \in Bodies : onAir' = [pos |-> NextPos(onAir.pos), body |-> b]

-----------------------------------------------------------------------------
(* Framer.Feed.                                                            *)

\* syncErrors within the threshold.
IsSync(acc) == acc = SyncDibits /\ onAir.pos \in SIsch /\ onAir.body.isch = "clean"

\* What is collected after the next dibit: the idx-th of onAir, or one made up.
Opens == (burstIdx = 0 /\ idx = 0) \/ (burst = onAir /\ burstIdx = idx)
Taken(made) == IF Opens /\ ~made THEN onAir ELSE NoBurst

Counting == superframePos >= 0 \/ syncBuf # <<>>

\* What was completed between two syncs is as many bursts as were sent.
Harmless == -SyncDibits < net /\ net <= BurstDibits - SyncDibits

Synced == /\ net' = 0
          /\ strayed' = (Counting /\ (strayed \/ ~Harmless))

\* Slip: a sync is looked for while searching only.
RealignsSearching(acc) == IsSync(acc) /\ ~collecting

\* A sync while searching, or anywhere in a burst but at its start.
Realigns(acc) == IsSync(acc) /\ (collecting => burstIdx + 1 # SyncDibits)

\* alignToSync: what was collected is dropped.
Align(acc) ==
    /\ Realigns(acc)
    /\ burst' = onAir /\ burstIdx' = SyncDibits /\ collecting' = TRUE
    /\ Synced
    /\ UNCHANGED decoderVars

Searching(acc) ==
    /\ ~collecting /\ ~Realigns(acc)
    /\ UNCHANGED <<collecting, burstIdx, burst, decoderVars, net, strayed>>

Collect(acc, made, n) ==
    /\ collecting /\ ~Realigns(acc) /\ burstIdx + 1 < BurstDibits
    /\ burst' = Taken(made) /\ burstIdx' = burstIdx + 1
    /\ IF IsSync(acc) THEN Synced ELSE net' = n /\ UNCHANGED strayed
    /\ UNCHANGED <<collecting, decoderVars>>

-----------------------------------------------------------------------------
(* Decoder.Process and processBurst, of the burst that has been completed. *)

Voiced(b) == b # NoBurst /\ b.body.kind \in {"4V", "2V"}

\* The voice codewords that can be read if the first burst is at an offset.
Score(buf, offset) ==
    LET read == {k \in DOMAIN buf : Voiced(buf[k]) /\ buf[k].pos = (k - 1 + offset) % SuperframeBursts}
        four == {k \in read : buf[k].body.kind = "4V"}
    IN  4 * Cardinality(four) + 2 * Cardinality(read \ four)

\* detectOffset: the first offset of those with the best score.
DetectOffset(buf) ==
    CHOOSE o \in Positions :
        /\ \A p \in Positions : Score(buf, p) <= Score(buf, o)
        /\ \A p \in Positions : p < o => Score(buf, p) < Score(buf, o)

\* Slip: an S-ISCH, which has no location, is refused.
LocatedStrict(b, location) == b.body.isch # "lost" /\ b.pos \notin SIsch /\ b.pos = location

\* The ISCH is decoded, and an I-ISCH gives the expected location.
Located(b, location) == b.body.isch # "lost" /\ (b.pos \in SIsch \/ b.pos = location)

\* A burst taken for the one at location gives its slot an identity.
Latches(b, location) ==
    /\ b # NoBurst /\ Located(b, location)
    /\ \/ b.body.kind = "open"
       \/ b.body.kind \in {"2V", "sealed"} /\ b.pos = location

\* Slip: reprocessing the buffered bursts leaves the counter at the first of them.
ProcessBurstsInPlace(bufs, p) ==
    LET at(k) == (p + k - 1) % SuperframeBursts
        last(s) == {k \in DOMAIN bufs :
                      /\ Latches(bufs[k], at(k)) /\ WhichSlot[at(k)] = s
                      /\ \A j \in DOMAIN bufs : j > k /\ WhichSlot[at(j)] = s
                                                => ~Latches(bufs[j], at(j))}
    IN  /\ mac' = [s \in Slots |-> IF last(s) = {} THEN mac[s]
                                   ELSE WhichSlot[bufs[CHOOSE k \in last(s) : TRUE].pos]]
        /\ superframePos' = IF Len(bufs) > 1 THEN p ELSE (p + 1) % SuperframeBursts

\* processBurst of each of bufs, from position p on.
ProcessBursts(bufs, p) ==
    LET at(k) == (p + k - 1) % SuperframeBursts
        last(s) == {k \in DOMAIN bufs :
                      /\ Latches(bufs[k], at(k)) /\ WhichSlot[at(k)] = s
                      /\ \A j \in DOMAIN bufs : j > k /\ WhichSlot[at(j)] = s
                                                => ~Latches(bufs[j], at(j))}
    IN  /\ mac' = [s \in Slots |-> IF last(s) = {} THEN mac[s]
                                   ELSE WhichSlot[bufs[CHOOSE k \in last(s) : TRUE].pos]]
        /\ superframePos' = (p + Len(bufs)) % SuperframeBursts

\* Slip: the buffer is not emptied when it has been processed.
BufferKept(b) ==
    LET buf == Append(syncBuf, b)
    IN  /\ superframePos < 0 /\ hasMask
        /\ IF Len(buf) < SyncBurstCount
           THEN /\ syncBuf' = buf /\ UNCHANGED <<superframePos, mac>>
                /\ strayed' = strayed
           ELSE /\ ProcessBursts(buf, DetectOffset(buf)) /\ syncBuf' = buf
                /\ strayed' = (strayed \/ \A k \in DOMAIN buf : ~Voiced(buf[k]))

\* Phase 1 of Process: buffered until there are enough to find the offset.
Buffer(b) ==
    LET buf == Append(syncBuf, b)
    IN  /\ superframePos < 0 /\ hasMask
        /\ IF Len(buf) < SyncBurstCount
           THEN /\ syncBuf' = buf /\ UNCHANGED <<superframePos, mac>>
                /\ strayed' = strayed
           ELSE /\ ProcessBursts(buf, DetectOffset(buf)) /\ syncBuf' = <<>>
                /\ strayed' = (strayed \/ \A k \in DOMAIN buf : ~Voiced(buf[k]))

\* Without a mask there is no position, and the burst is not valid.
Unplaced ==
    /\ superframePos < 0 /\ ~hasMask
    /\ UNCHANGED <<superframePos, syncBuf, mac, strayed>>

InPlace(b) ==
    /\ superframePos >= 0
    /\ ProcessBursts(<<b>>, superframePos)
    /\ UNCHANGED <<syncBuf, strayed>>

Complete(acc, made, n) ==
    /\ collecting /\ ~Realigns(acc) /\ burstIdx + 1 = BurstDibits
    /\ burst' = NoBurst /\ burstIdx' = 0
    /\ LET b == Taken(made) IN Buffer(b) \/ Unplaced \/ InPlace(b)
    /\ net' = n
    /\ UNCHANGED <<collecting, hasMask>>

\* One dibit; acc of the last open a burst, n counts the slip, this dibit included.
Feed(acc, made, n) ==
    /\ accum' = acc
    /\ Align(acc) \/ Searching(acc) \/ Collect(acc, made, n) \/ Complete(acc, made, n)

-----------------------------------------------------------------------------
Receive ==
    /\ Advance
    /\ Feed(IF idx = 0 THEN 1 ELSE IF accum = idx THEN idx + 1 ELSE 0, FALSE, net)

\* The demodulator loses a dibit.
Lose ==
    /\ net > -MaxLost
    /\ Advance
    /\ accum' = 0
    /\ net' = IF collecting THEN net - 1 ELSE net
    /\ UNCHANGED <<collecting, burstIdx, burst, decoderVars, strayed>>

\* The demodulator makes up a dibit.
Add ==
    /\ net < MaxAdded
    /\ Feed(0, TRUE, net + 1)
    /\ UNCHANGED airVars

SetScrambleParams ==
    /\ ~hasMask
    /\ hasMask' = TRUE
    /\ UNCHANGED <<airVars, framerVars, superframePos, syncBuf, mac, net, strayed>>

\* Slip: the position outlives the reset.
ResetKeepsPos ==
    /\ accum' = 0 /\ collecting' = FALSE /\ burstIdx' = 0 /\ burst' = NoBurst
    /\ superframePos' = superframePos /\ syncBuf' = <<>>
    /\ mac' = [s \in Slots |-> NoCall]
    /\ net' = 0 /\ strayed' = FALSE
    /\ UNCHANGED <<airVars, hasMask>>

\* Both slots are reset; the mask stays.
Reset ==
    /\ accum' = 0 /\ collecting' = FALSE /\ burstIdx' = 0 /\ burst' = NoBurst
    /\ superframePos' = -1 /\ syncBuf' = <<>>
    /\ mac' = [s \in Slots |-> NoCall]
    /\ net' = 0 /\ strayed' = FALSE
    /\ UNCHANGED <<airVars, hasMask>>

SFNext == Receive \/ Lose \/ Add \/ SetScrambleParams \/ Reset

SFSpec == SFInit /\ [][SFNext]_vars
-----------------------------------------------------------------------------
(* Properties.                                                             *)

\* Wherever a clean sync comes, the framer collects from it on: a slip is overcome
\* at the next sync (framer.go:36-43).
OnSync ==
    [][IsSync(accum') /\ accum' # accum => burst' = onAir /\ burstIdx' = SyncDibits]_vars

\* The counter is the position of the burst being collected, through realignments
\* that cost no burst and through the reprocessing of the buffered ones
\* (decoder.go:94-109, 125-132).
PositionHeld ==
    superframePos >= 0 /\ ~strayed /\ burst # NoBurst => superframePos = burst.pos

\* A slot never takes on the identity of the other slot's call
\* (decoder.go:125-159, tdma.go:283-331): not after a slip that costs no burst, not
\* from the buffered bursts, not across a reset.
OwnIdentity == ~strayed => \A s \in Slots : mac[s] \in {s, NoCall}

Carries(b) == b.body.kind \in {"2V", "sealed", "open"} /\ b.body.isch # "lost"

\* A burst that carries an identity and is received whole is taken, whatever slips
\* and weak syncs there were before it: an I-ISCH that confirms its location and an
\* S-ISCH that has none both let it through (decoder.go:135-159).
Identified ==
    [][/\ superframePos >= 0 /\ ~strayed
       /\ collecting' /\ burstIdx + 1 = BurstDibits /\ burstIdx' = 0
       /\ burst = onAir /\ accum' = BurstDibits /\ Carries(burst)
       => mac'[WhichSlot[burst.pos]] = WhichSlot[burst.pos]]_vars

\* "Re-align on it rather than free-running out of phase: without this a single slip
\* is permanent for the rest of the call" (framer.go:38-40).  But the burst that a
\* realignment drops or splits is missing from the superframe counter, or counted
\* twice: a counter that was right is wrong when the framer is aligned again.
PositionRecovers ==
    [][superframePos >= 0 /\ ~strayed /\ IsSync(accum') /\ accum' # accum
         => superframePos' = burst'.pos]_vars
=============================================================================
