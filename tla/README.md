# TLA+ verification of gop25

gop25 decodes APCO Project 25 trunked radio from baseband: a Go library whose
concurrent part follows trunked sites and calls, and whose sequential part is a
chain of framers, error-correcting decoders and message parsers.  The
concurrent part is where the order of things matters most; the chain keeps state from
frame to frame and burst to burst, and rests on a dozen codes.  Both are modelled here,
up to the demodulators on one side and the voice synthesis on the other.

## 1. The system

A *host* (the embedding application, behind the `Host` interface of
`system.go`) owns the tuner and creates decode pipelines.  The library decides
which pipelines exist.

```
 config --> RFSS.Seed ---.            .--> Host.SpawnCC / DespawnCC
                         v            |
 ticker --> RFSS.tick -> RFSS (r.mu) -'
                         ^  site observer
   CC pump goroutine     |
   IQ -> symbols -> FrameSync -> TSBK -> TrunkTracker.Apply (t.mu)
                                            | callbacks, after t.mu is released
                                            v
                                         System (s.mu) --> Host.SpawnVoice / SpawnData,
                                                           VoiceHandle.Notify*
   voice pump goroutine
   IQ -> C4FM or H-DQPSK -> FrameSync / phase2.Framer -> voice, alias, ESS
```

Goroutines: *main* (configuration, `Seed`), the *ticker* (`RFSS.Run`), one
*decode pump* per control channel (CC), one per voice or data pipeline, and the
host's UI, which reads.  `Host.DespawnCC` joins a CC's pump; that pump may at
the time be blocked in `RFSS.onSiteDiscover`.

### Inventory

| Component | Source | State | Operations | What is hard | Status |
|---|---|---|---|---|---|
| RFSS supervisor | `rfss.go` | `seeds`, `monitored`, `pending` under `r.mu` | `Seed`, `onSiteDiscover`, `bindPending`, `tick`, `Run` | three kinds of goroutine; a join that must not be made under the lock; two-phase teardown; the cap | modelled: `RFSS`, `SiteLifecycle` |
| Trunk tracker | `trunk.go` | `iden`, `voiceChans`, `site`, `selfSite`, `patches` under `t.mu` | `Apply` (one arm per TSBK opcode), `GetPatches`, the `fire*` callbacks | callbacks made after the unlock, from a state re-read; patches that expire and are pruned by readers | modelled: `TrunkTracker` |
| System | `system.go` | `voice`, `data`, `p2primed`, `wacnSeen`, `tgLastFreq` under `s.mu` | `StartWithCC`, `onDiscover`, `onSite`, `onDataDiscover`, ... | warm seeds against grants; scramble parameters that arrive before or after the grant; calls that move | modelled: `System` |
| Frame synchroniser | `sync.go` | search / NID / payload state, ring, NAC hint | `Feed`, `FeedSoft`, `Reset`, `ResetFull`, `SoftReset` | resynchronisation in the middle of a frame; rejected cold acquisitions; hard and soft input mixed | modelled: `FrameSync` |
| Frame decoder | `frame.go`, `control.go`, `pdu.go`, `softbit.go` | `lastLC`, the alias assembler | parse a unit by its DUID; `Reset`, `SoftReset`, `ResetStats` | what outlives a reset; what is carried over a unit with none of its own | partly: `FrameDecoder`; the parsing in `Signalling`, `Packets`, `Trellis` |
| Talker alias assembly | `alias_assembler.go`, `talkeralias.go`, `phase2/alias.go` | partial block sets, latches, failed sets | one call per block | mixed talkers, corrupt blocks, emit-once latches | modelled: `TalkerAlias` |
| Phase 2 framer and superframe counter | `phase2/framer.go`, `decoder.go`, `isch.go`, `burst.go`, `types.go`, `scramble.go` | burst being collected, superframe position, buffered bursts, mask | `Feed`, `Process`, `detectOffset`, `SetScrambleParams`, `Reset` | slips, lost bursts, parameters set from another goroutine | modelled: `Superframe` |
| Phase 2 slots | `phase2/tdma.go`, `ess.go`, `voice.go` | per slot: burst count, encryption sync, keystream, identity, alias | `ProcessBurst`, `ResetSlot`, `SetKeyLookup`, `ESSState.Feed` | parts gathered by a count of bursts; a keystream prepared in one superframe for the next | modelled: `TDMASlot`; the identity in `Superframe` |
| Phase 2 MAC parser | `phase2/acch.go` | none | decode a control burst, walk its messages | lengths that messages state themselves; erasures | modelled: `Signalling` |
| ADP decryption | `adp.go` | keystream | `Prepare`, `XORCodeword`, `XORCodewordP2` | which bytes belong to which codeword | modelled: `Signalling`; its use in `TDMASlot` |
| Packet data parsers | `sndcp.go`, `lrrp.go`, `ars.go`, `gps.go`, `icmp.go`, `ipv4.go`, `udp.go`, `dissect.go` | none | parse, dispatch, dissect | lengths, missing checks | partly: `Packets` |
| Error-correcting codes | `rs.go`, `bch.go`, `golay.go`, `hamming.go`, `trellis.go`, `trellis34.go`, `crc9.go` | none | encode, decode | shortened and punctured codes; words beyond a code's reach | modelled: `ReedSolomon`, `BlockCodes`, `Trellis` |
| Demodulators | `symbol.go`, `c4fm.go`, `phase2/dqpsk.go` | filter and loop state | process samples | floating point | not modelled |
| Voice codecs | `vocoder.go`, `mbe/` | previous frame's parameters | decode a frame | floating point | error correction in `BlockCodes`; the rest not |
| System definitions, diagnostics | `systemdef.go`, `doc.go`, `diagnose_export.go`, `export_test_helpers.go` | none | | | not modelled |

Correctness, component by component: the supervisor never loses, shares or tears
down twice a decoder, keeps to its cap, never deadlocks with a pump it joins, and
releases what it has condemned; a tracker's consumer is never left with an old
view, and an announced patch ends; a System has one pipeline per kind and
frequency, none where it may not tune, primes each TDMA pipeline once the network
is known, and never has one FDMA call in two pipelines; the synchroniser follows a unit
to its end, catches every sync but in known blind spots, and gives out no junk; the
superframe counter names the position of the burst at hand, so that a burst is
descrambled with its own part of the mask and read into its own slot; an identity
carried over to a frame is of one heard since the last reset, and a Motorola alias is given
out whole, once, and is of him whose block completes it, whatever was collected before
(nothing in a Harris alias would tell); a slot decrypts the superframe after one
whose encryption sync it has received, and gets clear voice back once bursts come
again; each code gives back what was sent up to the errors it is made for, and beyond
them gives a codeword within its reach or refuses.

## 2. The modules

| Module | Models | Composes |
|---|---|---|
| `SiteLifecycle` | what the supervisor promises of one discovered site: absent, awaiting its NAC, followed, draining | |
| `RFSS` | `rfss.go` with main, the ticker, one pump per decoder, and the host's join | refines `SiteLifecycle` |
| `TrunkTracker` | `trunk.go`: `Apply`, its callbacks, `GetPatches` | |
| `System` | `system.go`: start-up and every callback | extends `TrunkTracker`: its grants and broadcasts are the tracker's |
| `FrameSync` | `sync.go`: `feedOne` and the resets, before a model of the air | |
| `TalkerAlias` | the Motorola and Harris assemblers, as operators | |
| `FrameDecoder` | `frame.go` from the data unit on, and its resets | extends `TalkerAlias` |
| `Superframe` | `phase2/framer.go` and `decoder.go`, before a model of the air | |
| `TDMASlot` | one slot of `phase2/tdma.go`, with `ess.go`, `alias.go` and the ADP keystream | extends `TalkerAlias` |
| `ReedSolomon` | the field and the Reed-Solomon codes of `rs.go` | |
| `BlockCodes` | BCH, Golay, Hamming, CRC-9, and the error correction of a voice frame | extends `ReedSolomon` |
| `Trellis` | the two trellis codes, hard and soft, and their interleavers | |
| `Signalling` | what is read from a voice unit, a header, a terminator, a control burst, an encryption sync; ADP | extends `BlockCodes` |
| `Packets` | TSBKs, packet data units and the parsers of what they carry | |
| `Codecs` | a sender, a channel and a receiver over the last five | extends `Signalling`, `Trellis`, `Packets` |
| `RFSSProofs`, `SystemProofs`, `FrameSyncProofs`, `SuperframeProofs`, `TalkerAliasProofs`, `FrameDecoderProofs`, `TDMASlotProofs`, `CodecsProofs` | theorems, section 5 | each extends its component; `SystemProofs` has the tracker's too; `FrameDecoderProofs` and `TDMASlotProofs` extend `TalkerAliasProofs` |
| `MC...` | the small instances TLC checks | one for each of the eight specifications that runs check |

### RFSS

`mu` is `r.mu`.  The maps `r.monitored` and `r.pending` are functions that hold
`NoEntry` where the map has no key; `since` is the age of a pending entry.
Sections of main and of a pump under `r.mu` are one step, enabled while the mutex
is free, because nothing else in them can be observed; the ticker's two long
sections are split at `Lock` and `Unlock`, so that a pump blocked on the mutex
while its decoder is being joined is a state of the model.  `Host.DespawnCC` is
two steps, `DespawnCall` and `DespawnReturn`; the second waits for `PumpExit`,
which a pump inside `onSiteDiscover` cannot take.  Decoder handles are a finite
pool and are reused once nobody holds them (`Forget`), so runs are endless with a
finite state.  Time is kept as ages that saturate one unit past their threshold;
`lag` is what has passed since the ticker took its `now`.

### TrunkTracker and System

One action per TSBK opcode that changes the tracker; `calls` is the list of
callbacks that `Apply` makes after the unlock, made one step at a time, so that
`GetPatches` on another goroutine and the clock can come between.  Frequencies
wrap at `FreqMod` as `uint32` does.  `siteView` and `patchView` are the consumer's
copies, replaced wholesale as the comments at `trunk.go:110` and `130` require.
In `System` the consumer is `system.go`, and the pipelines are seen through the
calls made on their handles: the group call an FDMA grant last put each inside
(`following`), which were given a TDMA grant (`tdma`: of whose call it is the code keeps
nothing, two talkgroups sharing a carrier), and the scramble parameters each was given.  A warm channel is
looked up and spawned in two steps, since the pump may run between; the
tracker is wired only after the last one, and `Wired` guards `Apply`.

### FrameSync

The air sends data units; a key-up may cut one short at any dibit, noise may end
one, and noise may hit sync dibits.  A dibit is what the correlator sees of it (a
dibit of the sync word, or `Blank`); each is fed with or without a soft value.
The error-correcting decoders enter by outcome: a NID read in alignment decodes
right or not at all, one read out of alignment is refused or is any codeword by
luck; the same for the last-block bit of a TSBK and for a packet header.  `unit`,
`sent` and `garbled` belong to the air; `frame` is what the dibit just completed;
`allSoft`, `cutAt`, `gap`, `nacs` and `headerOK` are histories that only the
properties read.

### Superframe

The air sends bursts, one slot's after the other's; the demodulator may lose a dibit
(`Lose`) or make one up (`Add`) anywhere.  Of the dibits collected the model keeps
their number and the burst they are the first dibits of (`burst`, `NoBurst` once a
slip has broken it): nothing else decides what the burst decodes to.  `accum` is how
much of the burst on air has come through without a break.  An ISCH is clean, weak
(too many errors for the framer, few enough for `DecodeISCH`) or lost.  The FEC
enters by outcome: a whole burst taken for its own position is read, a shifted one or
one descrambled with another position's mask is not.  `mac[s]` is what slot `s` has
latched, known by the slot its call is sent on.  `net` and `strayed` are histories:
the slip since the last sync, and whether it ever was one that costs or adds a burst.

### TalkerAlias and FrameDecoder

A piece of an alias is whose it is and which; the codec's CRC holds of the pieces of
one talker, in order and complete, and of nothing else.  A block whose text the codes let
through corrupt is nobody's.  The sequence number a header and its blocks share has four
bits, so that two talkers may have the same.  `make` is the make of an instance's radios
and `Radios` who has one: the two makes of alias share nothing.  `FrameDecoder` has one action for
each kind of unit that matters: an `LDU1` with a link control word, one whose word does
not decode, an `LDU2`, a terminator with a word, a header.  The three resets do the same
to what is modelled and are one action.  The air is a talker at a time, and nothing tells
the decoder that another has keyed up.  `heard`, `header`, `passes`, `got`, `spoilt`,
`told`, `said` and `pieces` are histories.

### TDMASlot

The air sends superframes of five voice bursts: four 4V with a part of the encryption
sync each, and a 2V with its parity, which gives the indicator of the *next* superframe.
Whatever is tied to a superframe is of "now" or is "over".  `Receive2V` keeps the order of
`ProcessBurst`: the sync is decoded, then the signalling, then the voice is decrypted with
the keystream there is, and then the keystream is prepared.  A burst that is missed
moves the air on and not the slot.  `ResetSlot` clears everything but the parts of the
sync, as the code does.  `inStep`, `keyed`, `opened` and `heard` are histories.

### The codes and messages

`ReedSolomon`, `BlockCodes`, `Trellis`, `Signalling` and `Packets` have no state: they are
the code's encoders, decoders and parsers as operators, over its own field, polynomials
and tables.  A word is the set of its one bits, or a function from positions to symbols.
`Codecs` runs them: a job says what is sent and what the channel does to it
(`job`, `sent`, `received`, `result`).  The code has no transmitter; where it has an encoder for its
tests, that is the one used.

## 3. The runs

| Run | Asks | States |
|---|---|---|
| `rfss_safety` | no decoder lost, shared or torn down twice; the cap; the life cycle | 467 000 |
| `rfss_live` | a pump gets out of `onSiteDiscover`; pending and condemned sites are resolved | 59 000 |
| `rfss_running_cap` | finding 1 | |
| `rfss_seed_race` | finding 2 | |
| `tracker_broadcasts` | the consumer's views are current between two TSBKs | 622 000 |
| `system_calls` | no FDMA call in two pipelines; the grants of one update stay apart | 3.9 million |
| `system_pipelines` | one pipeline per kind and frequency, tunable, primed | 2.2 million |
| `framesync_frames` | units followed, syncs caught, salvage, soft alignment, hint | 1.2 million |
| `superframe_bursts` | the counter holds its place, identities their slots; a sync realigns; what is in place is taken | 1.1 million |
| `frames` | a Motorola alias is given out, once, and is of him who completes it (`MotorolaDelivered`, `AliasOnce`, `NamesWhoTalks`); an identity carried over was heard since the reset; what was shown of a Harris alias stays (`HarrisGrows`) | 814 000 |
| `slots` | the superframe after a received sync is clear (`KeystreamCurrent`); clear voice comes back (`Regained`) | 282 000 |
| `codecs` | every code and message format up to, at and beyond what it corrects | 379 |

### Bounds, and why they are enough

- `rfss_safety` has three siblings, one trunk, a cap of two and four decoders: the
  seed and two discovered sites take the cap's room while a third competes, and a
  fourth decoder is free for a site that is found again before the old decoder is
  gone.  `MaxLag = 0` here: a wait that ends during a tick only delays what the
  next tick does, and `rfss_live` and the two violation runs allow a lag of one.
  Both timeouts are 0 model units, so that one unit passes them; only the order
  of an age and its threshold matters.  The decoders are interchangeable, hence
  the symmetry set; `rfss_live` uses none.
- `tracker_broadcasts` has two supergroups and four talkgroups, so that a patch can
  gain, lose and keep members, and two values for every field of the site.  The
  band tables are `System`'s concern and empty here.
- The two `System` runs share out the callbacks.  In `system_calls` two followed
  talkgroups and a denied one move among an FDMA and a TDMA band that meet on one
  carrier, with one channel the control channel and one outside the window.  In
  `system_pipelines` the warm lists hold duplicates, the control channel and a
  channel that data grants reach too; the FDMA uplink wraps past zero; the network's
  identity comes before or after the grants.  The band plan is loaded, and may then
  change on the air.  Pipelines are counted up to two.
- `FrameSync` is scaled: a sync word of 4 dibits, a NID of 3, a status symbol every
  6, trellis blocks of 5 dibits, at most two or three to a payload.  The lengths
  keep the order of the real ones (a terminator shorter than the sync word, a voice
  unit longer, a packet longer than the fixed length), and a status dibit falls
  inside the NID and inside each block, as in the code.  The word matches no shift
  of itself within the threshold.  Payload dibits never imitate a sync.
- `Superframe` has the real twelve positions, slots and S-ISCH places.  A burst is
  five dibits, its sync two; the demodulator may lose three dibits and add four between
  two syncs, one more each than the limits of a harmless slip, which TLC confirms to be
  exact: with either limit of `Harmless` moved by one, `PositionHeld` fails.  Three
  bursts are buffered where the code has 24, enough for bursts with and without voice
  and for two that disagree.  A buffer without voice gives offset 0, which `strayed`
  excepts: the code has nothing to go by there.  Random dibits never imitate a sync,
  an ISCH or a codeword.  The mask is set once,
  as `System` does for a channel.
- `frames` has three talkers of two Motorola blocks each, so that one's blocks could complete
  the other's set: the third has the first's sequence number, and nothing but the CRC tells
  their blocks apart.  Two have Harris radios, one of whom says again in his last two blocks
  what the first two said.  The bounds on blocks and failed sets are the code's, 16 and 4.
- `slots` has two instances in one run.  In the first an ADP call, one in the clear and
  one with a key that is not ADP's follow each other, bursts are lost, the sync is corrupt,
  the key lookup is set late, and no signalling is sent.  In the second two talkers in the
  clear send every kind of signalling but those that do what another does (an identity
  as a PTT gives it, and messages of no interest), and no burst is lost.  The two halves share only
  the 2V burst, which decodes the sync before it latches the signalling.  An alias is one
  block and one failed set ends it; longer ones are `frames`'s.  A noisy parity is one hexbit
  more than the 14 that are corrected, or none.
- `codecs` is not exhaustive, which no model checker could be over these words.  For each
  code and format it has data undisturbed, with as many errors as are corrected, and
  with more, chosen where it matters as a part of another codeword: a shortened code's
  errors among the symbols that are never sent, parity that fits another word.  The
  trellis jobs compare the search's result with every other sequence of that length, which
  `CheapestFound` does for every length; section 5 says of which other codes the same is
  proved for every word.

Deadlock is checked in every run but the two of `System`, which may stay inert (`StartWithCC`
with a nil decoder) and then does nothing more.

### Fairness

Two runs assume any.  `rfss_live` (`FairSpec`): the ticker goroutine is scheduled and
time passes (weak fairness); a pump that was asked to stop leaves its loop when it
is not in a callback (weak, the host's contract for `DespawnCC`); and a pump that
waits for `r.mu` gets it in the end, strong fairness for each pump, because the
mutex is free again and again and Go's `sync.Mutex` hands over to a waiter that
has starved for a millisecond.  No fairness is assumed of a decoder's
success or of cancellation.  `slots` (`TDFair`): voice bursts are
received again and again (weak), and so are 2V bursts whose sync can be read (strong, since
other bursts come between); it is the radio's transmission that goes on, not a promise
of the code.  `Regained` then needs nothing more of the air than that from some time on
bursts are not missed, calls do not change and nobody resets the slot.

## 4. Findings

1. `rfss.go:48` says the cap bounds the concurrent decoders.  It bounds the entries
   counted: `bindPending` deletes a timed-out entry under the lock and despawns its
   decoder after the unlock, and a broadcast may spawn another in between
   (`RunningWithinCap`).
2. `rfss.go:108` says a seed that advertises its own channel is already monitored.
   `Seed` starts the decoder before it appends the trunk, and a broadcast handled
   in between gets the channel a second decoder (`SeedNotDuplicated`).

Met on the way.  The first five are properties of the modules that TLC refutes with the
configurations named (`tlc -config X.cfg M`):

- `system.go:101` says the pipeline a call left is told when a grant lands elsewhere.
  A grant that is dropped, or whose pipeline the host refuses, tells nobody
  (`AbandonedIsTold`: `System_abandoned.cfg`, `MCSystem`).
- `pdu.go:60` says the header's block count sizes a packet to its on-air length.  It
  can only lengthen it: a packet of fewer than three data blocks is collected past
  its end, and thrown away whole if the next unit's sync comes within that span
  (`PduSized`: `FrameSync_short_packet.cfg`, `MCFrameSync`).
- `framer.go:38` says that without the realignment a slip would be permanent for the
  rest of the call.  With it the framer recovers, and the superframe counter does not:
  it counts completed bursts, and a slip that loses a sync's length or more, or adds
  more than the rest of a burst, makes them one too few or one too many.  From then on
  every I-ISCH contradicts the counter and its burst is refused, until `Reset`
  (`PositionRecovers`: `Superframe_slip.cfg`, `MCSuperframe`).  A smaller slip is harmless
  (`PositionHeld`).
- `alias_assembler.go:175` says a Harris alias converges to the complete one.  The latch
  closes at the fourth block, so that a third that comes after it is never shown
  (`HarrisConverges`: `FrameDecoder_alias_gap.cfg`, `MCFrameDecoder`).
- `phase2/types.go:76` says `Decrypted` means encrypted and clear.  It says that a keystream was
  applied: also to a call in the clear that follows an encrypted one, and with a keystream
  that is over (`DecryptedIsClear`: `TDMASlot_decrypted.cfg`, `MCTDMASlot`).

And, with no property of their own:

- A DEL that leaves members stamps a patch as updated (`trunk.go:639`), although
  `trunk.go:117` names an ADD and a supergroup grant as what keeps it active.
- The NAC hint does not extend the correction threshold to 13 as `sync.go:129` says
  (`bch.go` uses 11, and so `HintRecoveries` never counts); the branch for a payload of
  length 0 is never taken, since `decodeNID` returns only DUIDs that have a length.
- The talkgroup of a `MAC_PTT` is read from bytes 16 and 17 (`phase2/acch.go:231`); the 18
  bytes of a FACCH end with its CRC-12, so that 12 of those 16 bits are the checksum's.
- A link control's opcode is the whole first byte in an LDU1, and its low six bits in a
  terminator.
- The message 0xAA of the Phase 2 walk reads a position of 17 bytes whatever length it states.
- A packet keeps the blocks whose CRC-9 failed, and `frame.go:224` parses its network
  headers whether or not `PayloadCRCOK`; `ipv4.go:4` says SN-DATA has a CRC-32.
- A lone last byte of an LRRP report is dropped; the load of a Motorola site, ten bits,
  is kept in eight.
- A vendor message that leaves its length field zero, as `phase2/acch.go:326` says some do,
  gets its length from the table in the walk; `phase2/alias.go:237` reads the field
  again and slices by its zero.  `TDMASlot` has Harris aliases that state their length.
- `system.go:27` would have no call in two pipelines.  A TDMA grant (`system.go:309`) neither
  reads nor sets `tgLastFreq`, so that a talkgroup that moves to a TDMA channel stays in the
  pipeline it left, and one that moves between two of them is in both; `system.go:105` gives the
  reason.  `NoFDMATwin` is of FDMA calls.
- The alias assembler survives `Reset`, `SoftReset` and `ResetStats` (`frame.go:276`), which clear the
  link control.  A Motorola alias that is completed after a reset has the talkgroup of a header
  before it, and a Harris text may join pieces of a talker before it to another's.
  `NamesWhoTalks` says what holds nevertheless.

## 5. The proofs

Each proof module proves, of its component's specification and for every value of the
constants, that the named property holds.  The assumptions are the ones the modules state
by name (`ParamsOK`, `NoEntryOK`, `TrackerParams`, `SystemParams`, `FrameSyncParams`,
`NoValues`, `SuperframeParams`, `AliasParams`, `AirParams`, `SlotParams`, and those of the codes
below), which TLC evaluates in the runs, and what a theorem itself says.

| Module | Theorem | Property |
|---|---|---|
| `RFSSProofs` | eight, below | |
| `SystemProofs` | `TrackerTypeInv` | `TrackerTypeOK` |
| | `GrantsDistinctInv` | `GrantsDistinct` |
| | `SiteViewCurrentInv`, `PatchViewCurrentInv` | `SiteViewCurrent`, `PatchViewCurrent` |
| | `SystemTypeInv` | `SystemTypeOK` |
| | `OnePipelineInv`, `PipelinesTunableInv` | `OnePipeline`, `PipelinesTunable` |
| | `NoFDMATwinInv` | `NoFDMATwin` |
| | `PrimedInv` | `Primed` |
| `FrameSyncProofs` | `FSTypeInv` | `FSTypeOK` |
| | `BlindSpotsProp` | `BlindSpots` |
| | `SalvageEndsAtCutProp` | `SalvageEndsAtCut` |
| | `FollowsProp` | `Follows` |
| | `SoftAlignedInv`, `HintEarnedInv` | `SoftAligned`, `HintEarned` |
| `SuperframeProofs` | `SFTypeInv` | `SFTypeOK` |
| | `PositionHeldInv` | `PositionHeld` |
| | `OwnIdentityInv` | `OwnIdentity` |
| | `OnSyncProp`, `IdentifiedProp` | `OnSync`, `Identified` |
| `FrameDecoderProofs` | `FDTypeInv` | `FDTypeOK` |
| | `MotorolaDeliveredInv` | `MotorolaDelivered` |
| | `AliasOnceProp` | `AliasOnce` |
| | `HarrisGrowsProp` | `HarrisGrows` |
| | `NamesWhoTalksInv` | `NamesWhoTalks` |
| `TDMASlotProofs` | `TDTypeInv` | `TDTypeOK` |
| | `InStepInv` | `InStep` |
| | `KeystreamCurrentProp` | `KeystreamCurrent` |
| | `SlotResetForgetsInv` | `SlotResetForgets` |
| `CodecsProofs` | `NearestFound` | `MostLikely` |
| | `CheapestFound`, `HalfRateNearest`, `ThreeQuarterRateNearest`, `FewErrorsCorrected` | what the search finds, of every code |
| | `TrellisCode`, `BlockCode`, `NIDCode`, `GolayCode`, `HammingCode`, `VoiceCode`, `AMBECode`, `IMBECode`, `CRC9Code`, `ADPCipher` | `Corrected`, and of `NIDCode`, `GolayCode` and `VoiceCode` also `Honest`, for these codes |
| | `GolayDecodes`, `Hamming10Corrects`, `Hamming1511Corrects`, `CRC9FindsOne`, `KeystreamUsedOnce` | of every word, not only those of a job |
| | `ReedSolomonFinds`, `ErasuresFinds`, `ShortenedFinds` | what a success means, of every word |

### The supervisor

`RFSSProofs` proves of `RFSS!Spec`, for any finite set of sites, any trunks, any pool
of decoders, any cap and any timeouts (the assumptions `ParamsOK` and `NoEntryOK`
of `RFSS`, and nothing else):

| Theorem | Property |
|---|---|
| `TypeInv` | `TypeOK` |
| `HolderInv` | `IInv`, the inductive invariant |
| `OneHolderInv` | `OneHolder` |
| `TeardownOnceInv` | `TeardownOnce` |
| `DrainingKeptInv` | `DrainingKept` |
| `CapTheorem` | `DiscoveredWithinCap` |
| `NoLostDecoderInv` | `NoLostDecoder` |
| `LifecycleRefinement` | `ImplementsLifecycle` |

None of the properties is inductive.  `OneHolder`, for instance, survives
`bindPending` only if the entry it promotes has a decoder that no list of the ticker
contains, and survives `onSiteDiscover` only if an unused decoder is in no entry;
`DrainingKept` needs that nobody else deletes entries of sites the ticker has listed.
`IInv` adds what is missing, in eight parts: `LockInv` (the mutex is the ticker's
exactly in its two locked sections), `SeedInv`, `PendInv` and `MonInv` (whom each kind
of entry may share its decoder with: nobody; and that the decoder is up, a monitored
one excepted while the ticker tears it down), `DeadInv` and `JoinInv` (the ticker's
list holds decoders that are up and no seed's, and at most one is being joined),
`CondemnedInv` (the sites listed by `tick` are still flagged and their decoders are on
the list, being joined, or closed), and `CapInv` (the sites with an entry, of either
kind, are within the cap).  Each action has a lemma with one step per part that it
can disturb; `HoldersSame` and `EntriesSame` deal with the steps that disturb none.

`NoLostDecoder` is inductive relative to `IInv` (`HeldInv` adds that `seeding` is empty
between trunks).  The refinement maps an entry in `r.pending` to "awaiting", one in
`r.monitored` to "followed" or, once flagged, to "draining"; `SpawnPending` is
`Discover`, and every other step is `Advance` or a stutter (`MovesAdvance`).

### The tracker and the System

The tracker's views are current only between two TSBKs; while callbacks are due the
consumer may be behind.  So the inductive form is a disjunction: `SiteInv` says that the
view is the tracker's *or* an `onSite` is still to be called, and `PatchInv` likewise.  For
patches the view must also have those that have expired (`PatchesShown`), since one of them
may be refreshed without a callback; and a patch that another goroutine prunes only
leaves the tracker.  `GrantsDistinct` follows from what one update may report (`ReportOf`).

`SystemProofs` rests on `TrackerTypeInv`: every frequency a pipeline is put on is a sum
modulo `FreqMod`, every talkgroup from a grant.  `PipelineInv`: a pipeline has its key in the
map, the keys are tunable, no callback is due before the start is over, and the channel
that was picked from a warm list is not yet a key, which is why the look-up and the
spawning may be two steps.  `TwinInv`: a pipeline that is inside an FDMA call has its key, and the last
FDMA frequency of that talkgroup is this one.  `PrimeInv`: parameters that were given have a
WACN in them; `wacnSeen` means that every TDMA pipeline has them; and a WACN that is
known but not seen has its `onSite` still to come.

### The synchroniser

`FSTypeOK` bounds every buffer and count by what the lengths of the data units allow.  The
lengths are picks: `Span` is the least number of dibits on air that carries so many of
data, which exists because no two status symbols are adjacent (`SpanType`; `FrameSyncParams`
has a period of at least two), and `MaxCap` is the greatest cap there may be.  The other
assumptions say that a cold search forgives no fewer errors than a warm one, that a TSDU of
the air fits its fixed length, and that `Blank`, which stands for every dibit the correlator does not
care about, is not in the sync word.

`HeardInv` is what the three action properties rest on.  `SyncHeard`: while a sync is sent,
and the ring has not missed a dibit since it began, the end of the ring differs from the
sync word in at most `garbled` places, so that a sync with few errors is recognised wherever
its last dibit is looked at; `BlindSpots` is then the list of the steps at which it is not.
`BodyHeard`: in a followed unit the ring holds nothing but that unit's payload, so that
nothing in it is taken for a sync (`NoFalseSync`).  `CutInv` is where the last unit that was
cut began, for `SalvageEndsAtCut`.  `CapInv`: the cap is never below the unit's length, a
packet whose header was not read excepted, so that the unit is handed on exactly at its end
(`CapReached`), which is `Follows`.

`SoftKept`: there is a soft value for every dibit collected, or none at all once one was
fed without; every cut of a frame keeps that.  `HintInv`: the count of matches is a
number of entries at the end of the history that all are the hint's NAC; NIDs that fail to
decode zero the count and leave the history alone.

### The superframe counter

`PositionHeld` speaks of the burst at hand, and a burst is at hand for many dibits, during
which dibits may be lost and made up.  `PlaceInv` says where the framer is at every one of
them.  There is a position `fp`, that of the burst being collected, and three cases
(`Placed`): the framer is in the burst on the air, shifted by the slip `net`; a burst behind
it; or, by dibits made up, a burst ahead.  In every case what was collected is of `fp`'s burst or is
broken (`CollectedAt`), the counter says `fp` if it has a position (`CountedAt`), and the
bursts buffered before there is one are consecutive and end before `fp` (`BufferedAt`).  A sync
that realigns the framer returns it to the first case, and that this loses no burst is what
`Harmless` is for; a slip that it excludes sets `strayed`, of which the property says nothing.
The offset found from the buffer is the one at which it began (`DetectsBase`): in a buffer of
consecutive bursts a voice burst can be read at that offset and none at any other, so that
one is enough.  The arithmetic is modulo a constant and so not linear; the lemmas on
positions (`PositionNext`, `PositionCancel`) reduce it to steps of one.

`OwnIdentity` then needs only that no burst is processed before there is a position, and
`Identified` that a burst which was taken in order is its own (`InOrder`).

### The frame decoder and the slot

`MotoInv`: the assembler's pieces were all sent with its header's sequence number
(`OfOneSet`), and an alias that was told closes the latch until a header.
`TalkerAliasProofs` has the lemmas about the assemblers for both components.  `LCInv`:
whoever is carried over was heard.  `Unfinished`: a set whose latch is open lacks at least one
of the blocks its header announced, so that an alias is given out on a block of the talker's,
and the CRC then makes all of it his (`BlockCompletes`).  `HeardInv` of the slot: every piece that its assembler holds,
and the group of its header, is of those heard since the reset (`Within`).

`MotorolaDelivered` says that something has happened, which an invariant about what is not
there yet must carry.  `DueInv`: as long as a header's alias has not been told, and fewer
blocks were spoilt than are allowed, every set that failed is accounted for by a spoilt block
(a set being collected may have one more in it, `Odd`), and the talker's blocks that have come
through since the last spoilt one are in the assembler - or a set has failed since then, and
those that came after it are.  Once the blocks have all come that second time, the set is
complete and his.

`HarrisGrows`: `SaidInv` says that what was shown is what the blocks make, and that with the
fourth block there after the first two, the latch is closed.  So of four places, once
something is shown, only the last two may still be filled, and the text is made by a fold over the four in order, which
`FourSaid` unrolls.

`SlotInv` has four parts.  `CountInv` is types.  `InStep` is the property: in step, the
position counted is the air's, and the parts of the sync gathered so far are this
superframe's, whatever was left of the one before; it needs nothing of the code that corrects the sync.
`OpenedInv`: once the first part of the sync is in place, no count goes back to 0 before the
2V, and so it stays.  `KeyedInv`: a keystream that was due has been made and is this
superframe's.  `KeystreamCurrentProp` assumes `EssCorrects >= 12`: with the first part in
place three of four hexbits each may be missing (`FirstPartSuffices`); the code corrects 14.

### The codes

What `Codecs` checks of chosen words, `CodecsProofs` proves of every word and every error,
for any set of jobs: `JobSpec` says that what was sent, what was received and the result are
the encoder's, the channel's and the decoder's, and the theorems about the operators do the rest.
Of jobs only their shape is assumed (`JobsAssumption`).  Finite facts about the code's tables
are assumptions that TLC evaluates in the `codecs` run, every case of them:

| Assumption | Says | In the code |
|---|---|---|
| `CodesApart` | two ways through a trellis that part and meet again differ in 5 bits, in 3 at rate three quarters | `trellis.go:20`, `trellis34.go:28` |
| `Interleaves` | the interleaver's table is a permutation | `trellis.go:29` |
| `NIDsApart` | identifiers of the access codes of the instance are 23 bits apart | `bch.go:48` |
| `GolayPerfect` | each syndrome but none is of just one pattern of up to three errors | `golay.go:14` |
| `CRC9Entries` | no entry of the CRC-9's table is nothing or all ones | `crc9.go:14` |
| `FieldParams` | the field of the Reed-Solomon codes has a size and a polynomial | `bch.go:17` |

- **The search.**  `CheapestFound`: the data returned costs no more than any other of that length,
  for every table of codewords and all prices, natural numbers.  The invariant, by
  induction over the symbols (`CheapestAfter`): every way that is kept costs what its own states
  cost, and for any other data, the way to the state it is in by now costs no more than
  it has spent.  `NearestFound` takes it to the four decoders, `FewErrorsCorrected` adds that data
  which parts from what was sent pays for its detour, so that few errors leave only what
  was sent; `BlockCode` counts them through the interleaver.
- **Golay.**  Long division as the code writes it is linear and takes a word to what is left modulo
  the polynomial (`AddsUp`, `IsDivision`); with `GolayPerfect` every word of 23 bits is
  within three of just one codeword, and `golayDecode` finds it.  The voice frames follow,
  whose mask rests on a word that has itself to be decoded first.
- **Identifiers**: the triangle inequality and `NIDsApart`.  **Hamming** and **CRC-9**: sums of columns that
  are all different, or none of them nothing.  **ADP**: the offsets of the codewords do not overlap,
  and what is added twice is gone.
- **Reed-Solomon.**  That the key equation is solved is not proved; the decoders check what
  they found, and that is: a success has no syndrome left, is within the errors the parity allows,
  and of a shortened code has zeros where nothing is sent.

The inductions are over recursive functions, not over the words, so that a least
counterexample does (`Recursion`, `Agree`).  A function defined by recursion takes the place of a
RECURSIVE operator in every module a theorem reaches.

The proof of `AMBECode` failed at first because `Near` took bit 0 of each row for
a parity bit, which only that of the first is.  `Near` now says what the code
corrects; and of the trellis codes it counts bits of the code word, as the theorem does.

### Only model-checked

- The liveness properties, `HandlerReturns`, `PendingResolved` and `FlaggedReleased` of the
  supervisor and `Regained` of a slot, fairness being out of the prover's reach.
- `Corrected` and `Honest` of the formats that rest on a Reed-Solomon code (link control,
  encryption sync, terminators, headers, control bursts): that Berlekamp-Massey finds a locator
  whenever there is one, and that a word without syndromes is one the encoder makes, is algebra
  over polynomials that would take induction over them.  `ReedSolomonFinds`, `ErasuresFinds` and
  `ShortenedFinds` say what is left to the field.
- `Corrected` of the soft decoders, of MAC PDUs, TSBKs and packets, whose CRCs are folds over
  whole messages; that a packet with a wrong byte is refused; and that under another indicator
  ADP does not give the voice, which is so only of the keys and voices in the run.

## 6. What is not modelled, and why

- `parseTSBKArgs`, a table of bit fields, of which the tracker takes the values as given.
- `decodeMotorolaUnitGPS`, and wherever a value is scaled, converted to degrees or printed.
- The cycle of the message indicator (`CycleMI`), which the decoder does not call: each 2V
  gives the indicator of the next superframe.
- The soft decoders of whole blocks, which put `Trellis`'s interleaver before its soft search.
- The demodulators and the voice synthesis: floating point, over spaces no model checker
  enumerates.  `FrameSync`, `FrameDecoder`, `Superframe` and `TDMASlot` take the outcome of a decoder
  as a choice; what that choice may be is `Codecs`'s question.
- Band offsets, symbol rates and everything logged or exported for diagnosis; the
  constants' accessors; plain configuration records.
- A frequency refresh of a followed site that the host's decoder does not follow
  (`rfss.go:123`): it is outside the library's own state.

## 7. What is left

1. The arguments of each TSBK opcode, as operators run by `Codecs`, and the unit positions
   of Motorola.
2. The composition of a slot with the superframe counter, which now share only the
   identity.
3. The algebra of the Reed-Solomon codes: that the key equation's solution is found, and that a
   word without syndromes is the encoder's.  `Corrected` and `Honest` check both of chosen words.
