---------------------------- MODULE TrunkTracker ----------------------------
(***************************************************************************)
(* One control channel's TrunkTracker (trunk.go): Apply, one action per    *)
(* TSBK opcode, run by the CC's decode pump.  The part of Apply under t.mu *)
(* is one step; the callbacks it makes after the unlock are queued in      *)
(* "calls" and made one step at a time, so that another goroutine may call *)
(* GetPatches between the two.  The consumer of the callbacks replaces its *)
(* view of the site and of the patches wholesale (trunk.go:110-111,        *)
(* 130-132).                                                               *)
(*                                                                         *)
(* A channel id is an iden and a channel number; frequencies wrap at       *)
(* FreqMod as uint32 does at 2^32.  Patch ages saturate.                   *)
(***************************************************************************)
EXTENDS Integers, Sequences, FiniteSets

CONSTANTS
    Idens, Nums,       \* iden indices, channel numbers: both contain 0
    IdenEntries,       \* entries of the iden table
    IdenUps,           \* the entries that an IDEN_UP announces on air
    FreqMod,           \* width of a frequency
    TGs, Units,        \* talkgroups and unit IDs: both contain 0
    SuperGroups,       \* the talkgroups that GRG commands name as supergroups
    Callsigns, BSIs, Flags, Loads,  \* values of the Motorola broadcasts
    WACNs, SysIDs, SiteNums,        \* values of the standard ones
    StatusFlags,       \* [Active, Valid, Failed] records: the cfva nibble
    PatchExpiry,       \* patchExpiry, in model time units
    NoIden, NoChan, NoPatch

IdenEntry == [BaseHz : Nat, StepHz : Nat, TxOffsetHz : Int, TDMASlots : Nat]
Channels == [iden : Idens, num : Nums]
NoChannel == [iden |-> 0, num |-> 0]    \* channel id 0
Freqs == 0..(FreqMod - 1)

ASSUME TrackerParams ==
    /\ 0 \in Idens /\ 0 \in Nums /\ Nums \subseteq Nat
    /\ FreqMod \in Nat \ {0}
    /\ IdenUps \subseteq IdenEntries /\ IdenEntries \subseteq IdenEntry
    /\ 0 \in TGs /\ 0 \in Units /\ SuperGroups \subseteq TGs
    /\ PatchExpiry \in Nat
    /\ NoIden \notin IdenEntries /\ NoChan \notin Channels

VARIABLES
    iden,        \* t.iden
    voiceChans,  \* t.voiceChans: the channel first granted on each frequency,
                 \* NoChan where the map has no key
    site,        \* t.site
    selfSite,    \* t.selfSite
    patches,     \* t.patches, NoPatch where the map has no key
    calls,       \* the callbacks Apply has still to make
    siteView,    \* the consumer's copy of the site
    patchView    \* the consumer's copy of the active patches: sg -> members

trackerVars == <<iden, voiceChans, site, selfSite, patches>>
viewVars == <<siteView, patchView>>

Or0(S) == S \cup {0}
SiteState == [Callsign : Or0(Callsigns), BSIChannelID : Or0(BSIs),
              SiteFlags : Or0(Flags), HaveSiteFlags : BOOLEAN,
              LoadPct : Or0(Loads), HaveLoadPct : BOOLEAN,
              WACN : Or0(WACNs), SYSID : Or0(SysIDs)]
Patch == [members : SUBSET TGs, age : 0..(PatchExpiry + 1)]
Discovery == [FreqHz : Freqs, ch : Channels, TGID : TGs, SrcID : Units,
              TDMASlots : Nat, New : BOOLEAN, UnitToUnit : BOOLEAN]
SiteDiscovery == [Site : SiteNums, CCFreq : Freqs, Self : BOOLEAN, flags : StatusFlags]
DataDiscovery == [FreqHz : Freqs, UplinkHz : Freqs, ch : Channels]

Call == [call : {"onSite", "onPatch"}]
        \cup [call : {"onDiscover"}, d : Discovery]
        \cup [call : {"onSiteDiscover"}, d : SiteDiscovery]
        \cup [call : {"onDataDiscover"}, d : DataDiscovery]

NoSite == [Callsign |-> 0, BSIChannelID |-> 0,
           SiteFlags |-> 0, HaveSiteFlags |-> FALSE,
           LoadPct |-> 0, HaveLoadPct |-> FALSE, WACN |-> 0, SYSID |-> 0]

TrackerInit ==
    /\ iden = [i \in Idens |-> NoIden]
    /\ voiceChans = [f \in Freqs |-> NoChan]
    /\ site = NoSite
    /\ selfSite = 0
    /\ patches = [sg \in TGs |-> NoPatch]
    /\ calls = <<>>

ViewInit == siteView = NoSite /\ patchView = [sg \in {} |-> {}]

TrackerTypeOK ==
    /\ iden \in [Idens -> IdenEntries \cup {NoIden}]
    /\ voiceChans \in [Freqs -> Channels \cup {NoChan}]
    /\ site \in SiteState
    /\ selfSite \in Or0(SiteNums)
    /\ patches \in [TGs -> Patch \cup {NoPatch}]
    /\ calls \in Seq(Call)

-----------------------------------------------------------------------------
(* Resolving a channel and recording a grant.                              *)

\* channelToHzLocked: the TDMA slots of one carrier share its frequency.
Known(ch) == iden[ch.iden] # NoIden
ChannelToHz(ch) ==
    LET e == iden[ch.iden]
        div == IF e.TDMASlots > 1 THEN e.TDMASlots ELSE 1
    IN  (e.BaseHz + e.StepHz * (ch.num \div div)) % FreqMod

\* uplinkHzLocked; 0 when the iden has no transmit offset.
UplinkHz(ch) ==
    IF iden[ch.iden].TxOffsetHz = 0 THEN 0
    ELSE (ChannelToHz(ch) + iden[ch.iden].TxOffsetHz) % FreqMod

\* A broadcast's control channel: 0 while its iden is unknown.
CCFreqOf(ch) == IF Known(ch) THEN ChannelToHz(ch) ELSE 0

\* grantLocked and unitGrantLocked: what a grant does to voiceChans (vcs) ...
Grantable(ch) == ch # NoChannel /\ Known(ch)
Record(vcs, ch) ==
    IF Grantable(ch) /\ vcs[ChannelToHz(ch)] = NoChan
    THEN [vcs EXCEPT ![ChannelToHz(ch)] = ch] ELSE vcs

\* Slip: the channel first seen on the carrier is reported.
DiscoveredCached(vcs, ch, tg, src, unit) ==
    IF ~Grantable(ch) THEN <<>>
    ELSE LET vc == Record(vcs, ch)[ChannelToHz(ch)] IN
         <<[call |-> "onDiscover",
            d |-> [FreqHz |-> ChannelToHz(ch), ch |-> vc, TGID |-> tg, SrcID |-> src,
                   TDMASlots |-> iden[ch.iden].TDMASlots,
                   New |-> vcs[ChannelToHz(ch)] = NoChan, UnitToUnit |-> unit]]>>

\* ... and the Discovery it returns: the granted channel, not the cached one.
Discovered(vcs, ch, tg, src, unit) ==
    IF ~Grantable(ch) THEN <<>>
    ELSE <<[call |-> "onDiscover",
            d |-> [FreqHz |-> ChannelToHz(ch), ch |-> ch, TGID |-> tg, SrcID |-> src,
                   TDMASlots |-> iden[ch.iden].TDMASlots,
                   New |-> vcs[ChannelToHz(ch)] = NoChan, UnitToUnit |-> unit]]>>

\* One grant, or the two of an update whose second channel is another one.
Grant(ch, tg, src, unit) ==
    /\ voiceChans' = Record(voiceChans, ch)
    /\ calls' = Discovered(voiceChans, ch, tg, src, unit)

TwoGrants(ch1, tg1, ch2, tg2) ==
    LET vcs == Record(voiceChans, ch1)
        two == ch2 # NoChannel /\ ch2 # ch1
    IN  /\ voiceChans' = IF two THEN Record(vcs, ch2) ELSE vcs
        /\ calls' = Discovered(voiceChans, ch1, tg1, 0, FALSE)
                    \o (IF two THEN Discovered(vcs, ch2, tg2, 0, FALSE) ELSE <<>>)

-----------------------------------------------------------------------------
(* Patches.                                                                *)

Fresh(members) == [members |-> members, age |-> 0]

\* patchAddLocked: merge the members, refresh.
PatchAdd(sg, new) ==
    IF sg = 0 THEN patches
    ELSE LET old == IF patches[sg] = NoPatch THEN {} ELSE patches[sg].members
         IN  [patches EXCEPT ![sg] = Fresh(old \cup (new \ {0, sg}))]

\* Slip: only a new supergroup counts as a change.
AddChangesIfNew(sg, new) == sg # 0 /\ patches[sg] = NoPatch

AddChanges(sg, new) ==
    sg # 0 /\ \/ patches[sg] = NoPatch
              \/ ~ (new \ {0, sg} \subseteq patches[sg].members)

\* patchDelLocked: drop the named members, the patch if none was named or
\* none is left; a patch that loses some is stamped as updated now.
PatchDel(sg, gone) ==
    IF patches[sg] = NoPatch THEN patches
    ELSE LET left == patches[sg].members \ gone IN
         [patches EXCEPT ![sg] =
            IF gone = {} \/ left = {} THEN NoPatch
            ELSE IF left # @.members THEN [@ EXCEPT !.members = left, !.age = 0]
            ELSE @]

DelChanges(sg, gone) == PatchDel(sg, gone) # patches

\* patchTouchLocked, for one or two supergroups.
PatchTouch(sgs) ==
    [sg \in TGs |-> IF sg \in sgs /\ patches[sg] # NoPatch
                    THEN Fresh(patches[sg].members) ELSE patches[sg]]

\* GetPatches: prune the expired, return the rest.
Expired(p) == p # NoPatch /\ p.age > PatchExpiry
Pruned == [sg \in TGs |-> IF Expired(patches[sg]) THEN NoPatch ELSE patches[sg]]
ActivePatches ==
    [sg \in {g \in TGs : Pruned[g] # NoPatch} |-> patches[sg].members]

-----------------------------------------------------------------------------
(* Apply: the section under t.mu, one action per opcode.                   *)

Idle == calls = <<>>      \* the pump is between two TSBKs
FireIf(changed, name) == IF changed THEN <<[call |-> name]>> ELSE <<>>

\* Nonzero values that differ replace the field.
Learn(old, new) == IF new # 0 THEN new ELSE old

SiteChange(new) ==
    /\ site' = new
    /\ calls' = FireIf(new # site, "onSite")
    /\ UNCHANGED <<iden, voiceChans, selfSite, patches>>

MotBSI == /\ Idle
          /\ \E cs \in Callsigns, ch \in BSIs :
               SiteChange([site EXCEPT !.Callsign = Learn(@, cs),
                                       !.BSIChannelID = Learn(@, ch)])

MotSiteFlags == /\ Idle
                /\ \E x \in Flags :
                     SiteChange([site EXCEPT !.SiteFlags = x, !.HaveSiteFlags = TRUE])

\* Slip: "never seen" is told from "seen" by the value alone.
MotLoadPctIfNonzero ==
    /\ Idle
    /\ \E x \in Loads :
         /\ site' = [site EXCEPT !.LoadPct = x, !.HaveLoadPct = TRUE]
         /\ calls' = FireIf(x # site.LoadPct, "onSite")
    /\ UNCHANGED <<iden, voiceChans, selfSite, patches>>

MotLoadPct == /\ Idle
              /\ \E x \in Loads :
                   SiteChange([site EXCEPT !.LoadPct = x, !.HaveLoadPct = TRUE])

NetworkStatusBcast ==
    /\ Idle
    /\ \E w \in WACNs, s \in SysIDs :
         SiteChange([site EXCEPT !.WACN = Learn(@, w), !.SYSID = Learn(@, s)])

SiteBcast(n, ch, fl, self) ==
    <<[call |-> "onSiteDiscover",
       d |-> [Site |-> n, CCFreq |-> CCFreqOf(ch), Self |-> self, flags |-> fl]]>>

RFSSStatusBcast ==
    /\ Idle
    /\ \E s \in SysIDs, n \in SiteNums, ch \in Channels, fl \in StatusFlags :
         /\ site' = [site EXCEPT !.SYSID = Learn(@, s)]
         /\ selfSite' = n
         /\ calls' = FireIf(site' # site, "onSite") \o SiteBcast(n, ch, fl, TRUE)
    /\ UNCHANGED <<iden, voiceChans, patches>>

AdjacentSiteBcast ==
    /\ Idle
    /\ \E n \in SiteNums, ch \in Channels, fl \in StatusFlags :
         calls' = SiteBcast(n, ch, fl, FALSE)
    /\ UNCHANGED trackerVars

\* IDEN_UP, IDEN_UP_VU, IDEN_UP_TDMA with a nonzero base.
IdenUp ==
    /\ Idle
    /\ \E i \in Idens, e \in IdenUps :
         e.BaseHz > 0 /\ iden' = [iden EXCEPT ![i] = e]
    /\ UNCHANGED <<voiceChans, site, selfSite, patches, calls>>

MotGRGAdd ==
    /\ Idle
    /\ \E sg \in SuperGroups, new \in SUBSET TGs :
         /\ patches' = PatchAdd(sg, new)
         /\ calls' = FireIf(AddChanges(sg, new), "onPatch")
    /\ UNCHANGED <<iden, voiceChans, site, selfSite>>

MotGRGDel ==
    /\ Idle
    /\ \E sg \in SuperGroups, gone \in SUBSET TGs :
         /\ patches' = PatchDel(sg, gone)
         /\ calls' = FireIf(DelChanges(sg, gone), "onPatch")
    /\ UNCHANGED <<iden, voiceChans, site, selfSite>>

MotGRGCNGrant ==
    /\ Idle
    /\ \E ch \in Channels, sg \in SuperGroups, src \in Units :
         patches' = PatchTouch({sg}) /\ Grant(ch, sg, src, FALSE)
    /\ UNCHANGED <<iden, site, selfSite>>

MotGRGCNGrantUpdt ==
    /\ Idle
    /\ \E ch1, ch2 \in Channels, sg1, sg2 \in SuperGroups :
         /\ patches' = PatchTouch(IF ch2 # NoChannel /\ ch2 # ch1
                                  THEN {sg1, sg2} ELSE {sg1})
         /\ TwoGrants(ch1, sg1, ch2, sg2)
    /\ UNCHANGED <<iden, site, selfSite>>

\* 0x00 and 0x03.
GroupVoiceGrant ==
    /\ Idle
    /\ \E ch \in Channels, tg \in TGs, src \in Units : Grant(ch, tg, src, FALSE)
    /\ UNCHANGED <<iden, site, selfSite, patches>>

GroupVoiceGrantUpdate ==
    /\ Idle
    /\ \E ch1, ch2 \in Channels, tg1, tg2 \in TGs : TwoGrants(ch1, tg1, ch2, tg2)
    /\ UNCHANGED <<iden, site, selfSite, patches>>

\* 0x04, and 0x08 whose source is 0.
UnitVoiceGrant ==
    /\ Idle
    /\ \E ch \in Channels, src \in Units : Grant(ch, 0, src, TRUE)
    /\ UNCHANGED <<iden, site, selfSite, patches>>

\* 0x14; channel id 0 is not refused here.
GroupDataGrant ==
    /\ Idle
    /\ \E ch \in Channels :
         /\ Known(ch)
         /\ calls' = <<[call |-> "onDataDiscover",
                        d |-> [FreqHz |-> ChannelToHz(ch), UplinkHz |-> UplinkHz(ch),
                               ch |-> ch]]>>
    /\ UNCHANGED trackerVars

Apply == \/ MotBSI \/ MotSiteFlags \/ MotLoadPct \/ NetworkStatusBcast
         \/ RFSSStatusBcast \/ AdjacentSiteBcast \/ IdenUp
         \/ MotGRGAdd \/ MotGRGDel \/ MotGRGCNGrant \/ MotGRGCNGrantUpdt
         \/ GroupVoiceGrant \/ GroupVoiceGrantUpdate \/ UnitVoiceGrant \/ GroupDataGrant

-----------------------------------------------------------------------------
(* The callbacks, after the unlock, and the other goroutines.              *)

Due(name) == calls # <<>> /\ Head(calls).call = name

\* fireSite re-reads the whole state under t.mu.
FireSite ==
    /\ Due("onSite")
    /\ siteView' = site
    /\ calls' = Tail(calls)
    /\ UNCHANGED <<trackerVars, patchView>>

\* firePatch hands over what GetPatches returns.
FirePatch ==
    /\ Due("onPatch")
    /\ patches' = Pruned
    /\ patchView' = ActivePatches
    /\ calls' = Tail(calls)
    /\ UNCHANGED <<iden, voiceChans, site, selfSite, siteView>>

\* GetPatches from a host UI: it prunes, and tells no one.
GetPatches ==
    /\ patches' = Pruned
    /\ UNCHANGED <<iden, voiceChans, site, selfSite, calls, viewVars>>

Older(age) == IF age <= PatchExpiry THEN age + 1 ELSE age
TimePasses ==
    /\ patches' = [sg \in TGs |->
          IF patches[sg] = NoPatch THEN NoPatch
          ELSE [patches[sg] EXCEPT !.age = Older(@)]]
    /\ UNCHANGED <<iden, voiceChans, site, selfSite, calls, viewVars>>

\* The grant and broadcast callbacks, for a consumer that keeps nothing of them.
FireOther ==
    /\ Due("onDiscover") \/ Due("onSiteDiscover") \/ Due("onDataDiscover")
    /\ calls' = Tail(calls)
    /\ UNCHANGED <<trackerVars, viewVars>>

TrackerNext == \/ Apply /\ UNCHANGED viewVars
               \/ FireSite \/ FirePatch \/ FireOther
               \/ GetPatches \/ TimePasses

TrackerAloneInit == TrackerInit /\ ViewInit

TrackerSpec == TrackerAloneInit /\ [][TrackerNext]_<<trackerVars, calls, viewVars>>
-----------------------------------------------------------------------------
(* Properties.                                                             *)

\* Between two TSBKs the consumer's copy of the site is the site: no change is
\* published late, partly or not at all (110-111).
SiteViewCurrent == Idle => siteView = site

\* Between two TSBKs the consumer knows every patch that is active, with its
\* members, however GetPatches calls and expiries fall (130-132).
PatchViewCurrent ==
    Idle => \A sg \in TGs :
              patches[sg] # NoPatch /\ ~Expired(patches[sg])
                => sg \in DOMAIN patchView /\ patchView[sg] = patches[sg].members

\* The two grants of one update are reported as two channels, also when they are
\* two slots of one carrier, which counts as new once (506-511).
GrantsDistinct ==
    \A i, j \in DOMAIN calls :
        i < j /\ calls[i].call = "onDiscover" /\ calls[j].call = "onDiscover"
          => /\ calls[i].d.ch # calls[j].d.ch
             /\ calls[i].d.FreqHz = calls[j].d.FreqHz => ~calls[j].d.New
=============================================================================
