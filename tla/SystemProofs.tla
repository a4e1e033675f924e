---------------------------- MODULE SystemProofs ----------------------------
(***************************************************************************)
(* What holds of a TrunkTracker for every band plan, every set of          *)
(* talkgroups and every broadcast, with TLAPS proofs: its types, that the  *)
(* grants of one update are told apart, and that the consumer's copies of  *)
(* the site and of the patches are current between two TSBKs.  Then, on    *)
(* top of it, what holds of a System for every capture window and all warm *)
(* channels.                                                               *)
(***************************************************************************)
EXTENDS System, TLAPS

\* A callback of that name has still to be made.
Pending(name) == \E i \in DOMAIN calls : calls[i].call = name

-----------------------------------------------------------------------------
(* Types.                                                                  *)

LEMMA HzType ==
  ASSUME TrackerTypeOK, NEW ch \in Channels, Known(ch)
  PROVE  /\ ChannelToHz(ch) \in Freqs /\ UplinkHz(ch) \in Freqs
         /\ iden[ch.iden].TDMASlots \in Nat
<1> DEFINE e == iden[ch.iden]
           div == IF e.TDMASlots > 1 THEN e.TDMASlots ELSE 1
<1>1. ch.iden \in Idens /\ ch.num \in Nat
  BY TrackerParams DEF Channels
<1>2. e \in IdenEntry
  BY <1>1, TrackerParams DEF TrackerTypeOK, Known
<1>3. /\ e.BaseHz \in Nat /\ e.StepHz \in Nat /\ e.TxOffsetHz \in Int /\ e.TDMASlots \in Nat
  BY <1>2 DEF IdenEntry
<1>4. div \in Nat \ {0}
  BY <1>3
<1>5. FreqMod \in Nat \ {0}
  BY TrackerParams
<1> HIDE DEF e, div
<1>6. ch.num \div div \in Int
  BY <1>1, <1>4
<1>7. e.BaseHz + e.StepHz * (ch.num \div div) \in Int
  BY <1>3, <1>6
<1>8. \A x \in Int : x % FreqMod \in Freqs
  BY <1>5 DEF Freqs
<1>9. ChannelToHz(ch) \in Freqs
  BY <1>7, <1>8 DEF ChannelToHz, e, div
<1>10. UplinkHz(ch) \in Freqs
  <2>1. ChannelToHz(ch) \in Int
    BY <1>5, <1>9 DEF Freqs
  <2>2. 0 \in Freqs
    BY <1>5 DEF Freqs
  <2> QED
    BY <1>3, <1>8, <2>1, <2>2 DEF UplinkHz, e
<1> QED
  BY <1>3, <1>9, <1>10 DEF e

VoiceChans == [Freqs -> Channels \cup {NoChan}]

LEMMA RecordType ==
  ASSUME TrackerTypeOK, NEW vcs \in VoiceChans, NEW ch \in Channels
  PROVE  Record(vcs, ch) \in VoiceChans
BY HzType DEF Record, Grantable, VoiceChans

LEMMA DiscoveredType ==
  ASSUME TrackerTypeOK, NEW vcs \in VoiceChans, NEW ch \in Channels,
         NEW tg \in TGs, NEW src \in Units, NEW unit \in BOOLEAN
  PROVE  Discovered(vcs, ch, tg, src, unit) \in Seq(Call)
<1>1. CASE ~Grantable(ch)
  BY <1>1 DEF Discovered
<1>2. CASE Grantable(ch)
  <2> DEFINE d == [FreqHz |-> ChannelToHz(ch), ch |-> ch, TGID |-> tg, SrcID |-> src,
                   TDMASlots |-> iden[ch.iden].TDMASlots,
                   New |-> vcs[ChannelToHz(ch)] = NoChan, UnitToUnit |-> unit]
  <2>1. (vcs[ChannelToHz(ch)] = NoChan) \in BOOLEAN
    OBVIOUS
  <2>2. d \in Discovery
    BY <1>2, <2>1, HzType DEF Discovery, Grantable
  <2> HIDE DEF d
  <2>3. [call |-> "onDiscover", d |-> d] \in Call
    BY <2>2 DEF Call
  <2>4. Discovered(vcs, ch, tg, src, unit) = <<[call |-> "onDiscover", d |-> d]>>
    BY <1>2 DEF Discovered, d
  <2> QED
    BY <2>3, <2>4
<1> QED
  BY <1>1, <1>2

LEMMA FireIfType ==
  ASSUME NEW changed, NEW name \in {"onSite", "onPatch"}
  PROVE  /\ FireIf(changed, name) \in Seq(Call)
         /\ changed => FireIf(changed, name) = <<[call |-> name]>>
         /\ ~changed => FireIf(changed, name) = <<>>
<1>1. [call |-> name] \in Call
  BY DEF Call
<1>2. <<[call |-> name]>> \in Seq(Call) /\ <<>> \in Seq(Call)
  BY <1>1
<1> QED
  BY <1>2 DEF FireIf

Patches == [TGs -> Patch \cup {NoPatch}]

LEMMA FreshType == \A members \in SUBSET TGs : Fresh(members) \in Patch
BY TrackerParams DEF Fresh, Patch

LEMMA PatchAddType ==
  ASSUME patches \in Patches, NEW sg \in TGs, NEW new \in SUBSET TGs
  PROVE  PatchAdd(sg, new) \in Patches
<1> DEFINE old == IF patches[sg] = NoPatch THEN {} ELSE patches[sg].members
<1>1. old \in SUBSET TGs
  BY DEF Patches, Patch
<1>2. Fresh(old \cup (new \ {0, sg})) \in Patch
  BY <1>1, FreshType
<1> HIDE DEF old
<1>3. PatchAdd(sg, new) = IF sg = 0 THEN patches
                          ELSE [patches EXCEPT ![sg] = Fresh(old \cup (new \ {0, sg}))]
  BY DEF PatchAdd, old
<1> QED
  BY <1>2, <1>3 DEF Patches

LEMMA PatchDelType ==
  ASSUME patches \in Patches, NEW sg \in TGs, NEW gone \in SUBSET TGs
  PROVE  PatchDel(sg, gone) \in Patches
<1>1. CASE patches[sg] = NoPatch
  BY <1>1 DEF PatchDel
<1>2. CASE patches[sg] # NoPatch
  <2> DEFINE p == patches[sg]
             left == p.members \ gone
             q == IF gone = {} \/ left = {} THEN NoPatch
                  ELSE IF left # p.members THEN [p EXCEPT !.members = left, !.age = 0] ELSE p
  <2>1. p \in Patch /\ left \in SUBSET TGs
    BY <1>2 DEF Patches, Patch
  <2>2. 0 \in 0..(PatchExpiry + 1)
    BY TrackerParams
  <2>3. [p EXCEPT !.members = left, !.age = 0] \in Patch
    <3> HIDE DEF p, left
    <3> QED
      BY <2>1, <2>2 DEF Patch
  <2>4. q \in Patch \cup {NoPatch}
    BY <2>1, <2>3
  <2>5. PatchDel(sg, gone) = [patches EXCEPT ![sg] = q]
    BY <1>2 DEF PatchDel
  <2> HIDE DEF q
  <2> QED
    BY <2>4, <2>5 DEF Patches
<1> QED
  BY <1>1, <1>2

LEMMA PatchTouchType ==
  ASSUME patches \in Patches, NEW sgs
  PROVE  PatchTouch(sgs) \in Patches
<1>1. \A sg \in TGs : patches[sg] # NoPatch => Fresh(patches[sg].members) \in Patch
  BY FreshType DEF Patches, Patch
<1> QED
  BY <1>1 DEF PatchTouch, Patches

LEMMA PrunedType == patches \in Patches => Pruned \in Patches
BY DEF Pruned, Patches

LEMMA SiteBcastType ==
  ASSUME TrackerTypeOK, NEW n \in SiteNums, NEW ch \in Channels, NEW fl \in StatusFlags,
         NEW self \in BOOLEAN
  PROVE  SiteBcast(n, ch, fl, self) \in Seq(Call)
<1>1. CCFreqOf(ch) \in Freqs
  BY HzType, TrackerParams DEF CCFreqOf, Freqs
<1>2. [Site |-> n, CCFreq |-> CCFreqOf(ch), Self |-> self, flags |-> fl] \in SiteDiscovery
  BY <1>1 DEF SiteDiscovery
<1>3. [call |-> "onSiteDiscover",
       d |-> [Site |-> n, CCFreq |-> CCFreqOf(ch), Self |-> self, flags |-> fl]] \in Call
  BY <1>2 DEF Call
<1> QED
  BY <1>3 DEF SiteBcast

LEMMA SiteChangeType ==
  ASSUME TrackerTypeOK, NEW new \in SiteState, SiteChange(new)
  PROVE  TrackerTypeOK'
<1>1. calls' \in Seq(Call)
  BY FireIfType DEF SiteChange
<1> QED
  BY <1>1 DEF SiteChange, TrackerTypeOK

LEMMA GrantType ==
  ASSUME TrackerTypeOK, NEW ch \in Channels, NEW tg \in TGs, NEW src \in Units,
         NEW unit \in BOOLEAN, Grant(ch, tg, src, unit)
  PROVE  voiceChans' \in VoiceChans /\ calls' \in Seq(Call)
<1>1. voiceChans \in VoiceChans
  BY DEF TrackerTypeOK, VoiceChans
<1> QED
  BY <1>1, RecordType, DiscoveredType DEF Grant

LEMMA TwoGrantsType ==
  ASSUME TrackerTypeOK, NEW ch1 \in Channels, NEW tg1 \in TGs, NEW ch2 \in Channels,
         NEW tg2 \in TGs, TwoGrants(ch1, tg1, ch2, tg2)
  PROVE  voiceChans' \in VoiceChans /\ calls' \in Seq(Call)
<1> DEFINE vcs == Record(voiceChans, ch1)
           two == ch2 # NoChannel /\ ch2 # ch1
           one == Discovered(voiceChans, ch1, tg1, 0, FALSE)
           other == Discovered(vcs, ch2, tg2, 0, FALSE)
<1>1. voiceChans \in VoiceChans /\ vcs \in VoiceChans /\ Record(vcs, ch2) \in VoiceChans
  BY RecordType DEF TrackerTypeOK, VoiceChans
<1>2. one \in Seq(Call) /\ other \in Seq(Call)
  BY <1>1, TrackerParams, DiscoveredType
<1>3. /\ voiceChans' = IF two THEN Record(vcs, ch2) ELSE vcs
      /\ calls' = one \o (IF two THEN other ELSE <<>>)
  BY DEF TwoGrants
<1> HIDE DEF vcs, two, one, other
<1> QED
  BY <1>1, <1>2, <1>3

\* The steps of Apply keep the types.
LEMMA ApplyType == ASSUME TrackerTypeOK, Apply PROVE TrackerTypeOK'
<1> USE DEF TrackerTypeOK
<1>a. patches \in Patches /\ voiceChans \in VoiceChans
  BY DEF Patches, VoiceChans
<1>1. CASE MotBSI
  <2>1. PICK cs \in Callsigns, ch \in BSIs :
           SiteChange([site EXCEPT !.Callsign = Learn(@, cs), !.BSIChannelID = Learn(@, ch)])
    BY <1>1 DEF MotBSI
  <2>2. [site EXCEPT !.Callsign = Learn(@, cs), !.BSIChannelID = Learn(@, ch)] \in SiteState
    BY DEF SiteState, Learn, Or0
  <2> QED
    BY <2>1, <2>2, SiteChangeType
<1>2. CASE MotSiteFlags
  <2>1. PICK x \in Flags : SiteChange([site EXCEPT !.SiteFlags = x, !.HaveSiteFlags = TRUE])
    BY <1>2 DEF MotSiteFlags
  <2>2. [site EXCEPT !.SiteFlags = x, !.HaveSiteFlags = TRUE] \in SiteState
    BY DEF SiteState, Or0
  <2> QED
    BY <2>1, <2>2, SiteChangeType
<1>3. CASE MotLoadPct
  <2>1. PICK x \in Loads : SiteChange([site EXCEPT !.LoadPct = x, !.HaveLoadPct = TRUE])
    BY <1>3 DEF MotLoadPct
  <2>2. [site EXCEPT !.LoadPct = x, !.HaveLoadPct = TRUE] \in SiteState
    BY DEF SiteState, Or0
  <2> QED
    BY <2>1, <2>2, SiteChangeType
<1>4. CASE NetworkStatusBcast
  <2>1. PICK w \in WACNs, s \in SysIDs :
           SiteChange([site EXCEPT !.WACN = Learn(@, w), !.SYSID = Learn(@, s)])
    BY <1>4 DEF NetworkStatusBcast
  <2>2. [site EXCEPT !.WACN = Learn(@, w), !.SYSID = Learn(@, s)] \in SiteState
    BY DEF SiteState, Learn, Or0
  <2> QED
    BY <2>1, <2>2, SiteChangeType
<1>5. CASE RFSSStatusBcast
  <2>1. PICK s \in SysIDs, n \in SiteNums, ch \in Channels, fl \in StatusFlags :
           /\ site' = [site EXCEPT !.SYSID = Learn(@, s)]
           /\ selfSite' = n
           /\ calls' = FireIf(site' # site, "onSite") \o SiteBcast(n, ch, fl, TRUE)
    BY <1>5 DEF RFSSStatusBcast
  <2>2. site' \in SiteState
    BY <2>1 DEF SiteState, Learn, Or0
  <2>3. calls' \in Seq(Call)
    <3> DEFINE one == FireIf(site' # site, "onSite")
               other == SiteBcast(n, ch, fl, TRUE)
    <3>1. one \in Seq(Call) /\ other \in Seq(Call)
      BY FireIfType, SiteBcastType
    <3>2. calls' = one \o other
      BY <2>1
    <3> HIDE DEF one, other
    <3> QED
      BY <3>1, <3>2
  <2> QED
    BY <1>5, <2>1, <2>2, <2>3 DEF RFSSStatusBcast, Or0
<1>6. CASE AdjacentSiteBcast
  <2>1. calls' \in Seq(Call)
    BY <1>6, SiteBcastType DEF AdjacentSiteBcast
  <2> QED
    BY <1>6, <2>1 DEF AdjacentSiteBcast, trackerVars
<1>7. CASE IdenUp
  BY <1>7, TrackerParams DEF IdenUp
<1>8. CASE MotGRGAdd
  <2>1. PICK sg \in SuperGroups, new \in SUBSET TGs :
           patches' = PatchAdd(sg, new) /\ calls' = FireIf(AddChanges(sg, new), "onPatch")
    BY <1>8 DEF MotGRGAdd
  <2>2. patches' \in Patches
    BY <1>a, <2>1, PatchAddType, TrackerParams
  <2>3. calls' \in Seq(Call)
    BY <2>1, FireIfType
  <2> QED
    BY <1>8, <2>2, <2>3 DEF MotGRGAdd, Patches
<1>9. CASE MotGRGDel
  <2>1. PICK sg \in SuperGroups, gone \in SUBSET TGs :
           patches' = PatchDel(sg, gone) /\ calls' = FireIf(DelChanges(sg, gone), "onPatch")
    BY <1>9 DEF MotGRGDel
  <2>2. patches' \in Patches
    BY <1>a, <2>1, PatchDelType, TrackerParams
  <2>3. calls' \in Seq(Call)
    BY <2>1, FireIfType
  <2> QED
    BY <1>9, <2>2, <2>3 DEF MotGRGDel, Patches
<1>10. CASE MotGRGCNGrant
  <2>1. PICK ch \in Channels, sg \in SuperGroups, src \in Units :
           patches' = PatchTouch({sg}) /\ Grant(ch, sg, src, FALSE)
    BY <1>10 DEF MotGRGCNGrant
  <2>2. patches' \in Patches
    BY <1>a, <2>1, PatchTouchType
  <2>3. voiceChans' \in VoiceChans /\ calls' \in Seq(Call)
    BY <2>1, GrantType, TrackerParams
  <2> QED
    BY <1>10, <2>2, <2>3 DEF MotGRGCNGrant, Patches, VoiceChans
<1>11. CASE MotGRGCNGrantUpdt
  <2>1. PICK ch1 \in Channels, ch2 \in Channels, sg1 \in SuperGroups, sg2 \in SuperGroups :
           /\ patches' = PatchTouch(IF ch2 # NoChannel /\ ch2 # ch1 THEN {sg1, sg2} ELSE {sg1})
           /\ TwoGrants(ch1, sg1, ch2, sg2)
    BY <1>11 DEF MotGRGCNGrantUpdt
  <2>2. patches' \in Patches
    BY <1>a, <2>1, PatchTouchType
  <2>3. voiceChans' \in VoiceChans /\ calls' \in Seq(Call)
    BY <2>1, TwoGrantsType, TrackerParams
  <2> QED
    BY <1>11, <2>2, <2>3 DEF MotGRGCNGrantUpdt, Patches, VoiceChans
<1>12. CASE GroupVoiceGrant
  <2>1. voiceChans' \in VoiceChans /\ calls' \in Seq(Call)
    BY <1>12, GrantType DEF GroupVoiceGrant
  <2> QED
    BY <1>12, <2>1 DEF GroupVoiceGrant, VoiceChans
<1>13. CASE GroupVoiceGrantUpdate
  <2>1. voiceChans' \in VoiceChans /\ calls' \in Seq(Call)
    BY <1>13, TwoGrantsType DEF GroupVoiceGrantUpdate
  <2> QED
    BY <1>13, <2>1 DEF GroupVoiceGrantUpdate, VoiceChans
<1>14. CASE UnitVoiceGrant
  <2>1. voiceChans' \in VoiceChans /\ calls' \in Seq(Call)
    BY <1>14, GrantType, TrackerParams DEF UnitVoiceGrant
  <2> QED
    BY <1>14, <2>1 DEF UnitVoiceGrant, VoiceChans
<1>15. CASE GroupDataGrant
  <2>1. PICK ch \in Channels :
           /\ Known(ch)
           /\ calls' = <<[call |-> "onDataDiscover",
                          d |-> [FreqHz |-> ChannelToHz(ch), UplinkHz |-> UplinkHz(ch), ch |-> ch]]>>
    BY <1>15 DEF GroupDataGrant
  <2>2. [FreqHz |-> ChannelToHz(ch), UplinkHz |-> UplinkHz(ch), ch |-> ch] \in DataDiscovery
    BY <2>1, HzType DEF DataDiscovery
  <2>3. calls' \in Seq(Call)
    BY <2>1, <2>2 DEF Call
  <2> QED
    BY <1>15, <2>3 DEF GroupDataGrant, trackerVars
<1> QED
  BY <1>1, <1>2, <1>3, <1>4, <1>5, <1>6, <1>7, <1>8, <1>9, <1>10, <1>11, <1>12, <1>13, <1>14,
     <1>15 DEF Apply

\* So does everything else.
LEMMA RestType ==
  ASSUME TrackerTypeOK, FireSite \/ FirePatch \/ FireOther \/ GetPatches \/ TimePasses
  PROVE  TrackerTypeOK'
<1> USE DEF TrackerTypeOK
<1>1. patches \in Patches
  BY DEF Patches
<1>2. calls # <<>> => Tail(calls) \in Seq(Call)
  OBVIOUS
<1>3. CASE FireSite \/ FirePatch \/ FireOther
  BY <1>1, <1>2, <1>3, PrunedType DEF FireSite, FirePatch, FireOther, Due, trackerVars, Patches
<1>4. CASE GetPatches
  BY <1>1, <1>4, PrunedType DEF GetPatches, viewVars, Patches
<1>5. CASE TimePasses
  <2>1. \A p \in Patch : [p EXCEPT !.age = Older(@)] \in Patch
    <3>1. \A age \in 0..(PatchExpiry + 1) : Older(age) \in 0..(PatchExpiry + 1)
      BY TrackerParams DEF Older
    <3> QED
      BY <3>1 DEF Patch
  <2>2. patches' \in Patches
    BY <1>1, <1>5, <2>1 DEF TimePasses, Patches
  <2> QED
    BY <1>5, <2>2 DEF TimePasses, Patches
<1> QED
  BY <1>3, <1>4, <1>5

\* Every variable of the tracker keeps to its type (trunk.go:10-166): a channel that is
\* granted has a frequency, and a callback carries one of its own kind.
THEOREM TrackerTypeInv == TrackerSpec => []TrackerTypeOK
<1>1. TrackerAloneInit => TrackerTypeOK
  <2> SUFFICES ASSUME TrackerAloneInit PROVE TrackerTypeOK
    OBVIOUS
  <2>1. NoSite \in SiteState
    BY DEF NoSite, SiteState, Or0
  <2>2. <<>> \in Seq(Call)
    OBVIOUS
  <2> QED
    BY <2>1, <2>2 DEF TrackerAloneInit, TrackerInit, TrackerTypeOK, Or0
<1>2. TrackerTypeOK /\ [TrackerNext]_<<trackerVars, calls, viewVars>> => TrackerTypeOK'
  <2>1. TrackerTypeOK /\ UNCHANGED <<trackerVars, calls, viewVars>> => TrackerTypeOK'
    BY DEF trackerVars, TrackerTypeOK
  <2> QED
    BY <2>1, ApplyType, RestType DEF TrackerNext
<1> QED
  BY <1>1, <1>2, PTL DEF TrackerSpec

-----------------------------------------------------------------------------
(* Callbacks that are due.                                                  *)

LEMMA StillPending ==
  ASSUME calls \in Seq(Call), calls # <<>>, calls' = Tail(calls),
         NEW name, Pending(name), Head(calls).call # name
  PROVE  Pending(name)'
<1>1. PICK i \in DOMAIN calls : calls[i].call = name
  BY DEF Pending
<1>2. i \in 1..Len(calls) /\ i # 1
  BY <1>1
<1>3. i - 1 \in DOMAIN Tail(calls) /\ Tail(calls)[i - 1] = calls[i]
  BY <1>2
<1> QED
  BY <1>1, <1>3 DEF Pending

LEMMA NonePending == Idle => \A name : ~Pending(name)
BY DEF Idle, Pending

LEMMA FireIfPends ==
  ASSUME NEW changed, NEW name, calls' = FireIf(changed, name), changed
  PROVE  Pending(name)'
BY DEF FireIf, Pending

\* A change of the site makes its callback due.
LEMMA ApplySite ==
  ASSUME TrackerTypeOK, Apply
  PROVE  site' = site \/ Pending("onSite")'
<1>1. ASSUME NEW new, SiteChange(new) PROVE site' = site \/ Pending("onSite")'
  BY <1>1, FireIfPends DEF SiteChange
<1>2. CASE MotBSI \/ MotSiteFlags \/ MotLoadPct \/ NetworkStatusBcast
  BY <1>1, <1>2 DEF MotBSI, MotSiteFlags, MotLoadPct, NetworkStatusBcast
<1>3. CASE RFSSStatusBcast
  <2> SUFFICES ASSUME site' # site PROVE Pending("onSite")'
    OBVIOUS
  <2>1. PICK s \in SysIDs, n \in SiteNums, ch \in Channels, fl \in StatusFlags :
           calls' = FireIf(site' # site, "onSite") \o SiteBcast(n, ch, fl, TRUE)
    BY <1>3 DEF RFSSStatusBcast
  <2>2. /\ FireIf(site' # site, "onSite") = <<[call |-> "onSite"]>>
        /\ [call |-> "onSite"] \in Call
    BY DEF FireIf, Call
  <2> DEFINE rest == SiteBcast(n, ch, fl, TRUE)
             fire == [call |-> "onSite"]
  <2>3. calls' = <<fire>> \o rest
    BY <2>1, <2>2
  <2>4. rest \in Seq(Call) /\ fire \in Call /\ fire.call = "onSite"
    BY <2>2, SiteBcastType
  <2> HIDE DEF rest, fire
  <2>5. 1 \in DOMAIN calls' /\ calls'[1] = fire
    BY <2>3, <2>4
  <2> QED
    BY <2>4, <2>5 DEF Pending
<1>4. CASE ~(MotBSI \/ MotSiteFlags \/ MotLoadPct \/ NetworkStatusBcast \/ RFSSStatusBcast)
  BY <1>4 DEF Apply, AdjacentSiteBcast, IdenUp, MotGRGAdd, MotGRGDel, MotGRGCNGrant, MotGRGCNGrantUpdt,
     GroupVoiceGrant, GroupVoiceGrantUpdate, UnitVoiceGrant, GroupDataGrant, trackerVars
<1> QED
  BY <1>2, <1>3, <1>4

\* The patches there are, are there with the members they had.
SameMembers ==
    \A sg \in TGs : patches'[sg] # NoPatch =>
        patches[sg] # NoPatch /\ patches'[sg].members = patches[sg].members

\* A patch that gains or loses a member makes its callback due.
LEMMA ApplyPatches ==
  ASSUME TrackerTypeOK, Apply
  PROVE  SameMembers \/ Pending("onPatch")'
<1>1. patches \in Patches
  BY DEF TrackerTypeOK, Patches
<1>2. CASE MotGRGAdd
  <2> SUFFICES ASSUME ~Pending("onPatch")' PROVE SameMembers
    OBVIOUS
  <2>1. PICK sg \in SuperGroups, new \in SUBSET TGs :
           patches' = PatchAdd(sg, new) /\ calls' = FireIf(AddChanges(sg, new), "onPatch")
    BY <1>2 DEF MotGRGAdd
  <2>2. ~AddChanges(sg, new)
    BY <2>1, FireIfPends
  <2>3. CASE sg = 0
    BY <2>1, <2>3 DEF PatchAdd, SameMembers
  <2>4. CASE sg # 0
    <3> DEFINE old == patches[sg].members
    <3>1. patches[sg] # NoPatch /\ new \ {0, sg} \subseteq old
      BY <2>2, <2>4 DEF AddChanges
    <3>2. old \cup (new \ {0, sg}) = old
      BY <3>1
    <3>3. patches' = [patches EXCEPT ![sg] = Fresh(old)]
      BY <2>1, <2>4, <3>1, <3>2 DEF PatchAdd
    <3>4. Fresh(old).members = old
      BY DEF Fresh
    <3>5. sg \in TGs
      BY TrackerParams
    <3> QED
      BY <1>1, <3>1, <3>3, <3>4, <3>5 DEF SameMembers, Patches
  <2> QED
    BY <2>3, <2>4
<1>3. CASE MotGRGDel
  <2>1. PICK sg \in SuperGroups, gone \in SUBSET TGs :
           patches' = PatchDel(sg, gone) /\ calls' = FireIf(DelChanges(sg, gone), "onPatch")
    BY <1>3 DEF MotGRGDel
  <2> QED
    BY <2>1, FireIfPends DEF DelChanges, SameMembers
<1>4. CASE MotGRGCNGrant \/ MotGRGCNGrantUpdt
  <2>1. PICK sgs : patches' = PatchTouch(sgs)
    BY <1>4 DEF MotGRGCNGrant, MotGRGCNGrantUpdt
  <2>2. \A members : Fresh(members).members = members
    BY DEF Fresh
  <2> QED
    BY <2>1, <2>2 DEF PatchTouch, SameMembers
<1>5. CASE ~(MotGRGAdd \/ MotGRGDel \/ MotGRGCNGrant \/ MotGRGCNGrantUpdt)
  <2>1. patches' = patches
    BY <1>5 DEF Apply, MotBSI, MotSiteFlags, MotLoadPct, NetworkStatusBcast, SiteChange, RFSSStatusBcast,
       AdjacentSiteBcast, IdenUp, GroupVoiceGrant, GroupVoiceGrantUpdate, UnitVoiceGrant,
       GroupDataGrant, trackerVars
  <2> QED
    BY <2>1 DEF SameMembers
<1> QED
  BY <1>2, <1>3, <1>4, <1>5

LEMMA ApplyIdle == Apply => Idle
BY DEF Apply, MotBSI, MotSiteFlags, MotLoadPct, NetworkStatusBcast, RFSSStatusBcast, AdjacentSiteBcast,
   IdenUp, MotGRGAdd, MotGRGDel, MotGRGCNGrant, MotGRGCNGrantUpdt, GroupVoiceGrant,
   GroupVoiceGrantUpdate, UnitVoiceGrant, GroupDataGrant

-----------------------------------------------------------------------------
(* The grants of one update.                                                *)

\* s is the callback of a grant of ch, or nothing if ch cannot be resolved.
ReportOf(s, ch, New) ==
    IF Grantable(ch)
    THEN \E c : /\ s = <<c>> /\ c.call = "onDiscover"
               /\ c.d.ch = ch /\ c.d.FreqHz = ChannelToHz(ch) /\ c.d.New = New
    ELSE s = <<>>

LEMMA DiscoveredReports ==
  \A vcs, ch, tg, src, unit :
    ReportOf(Discovered(vcs, ch, tg, src, unit), ch, vcs[ChannelToHz(ch)] = NoChan)
<1> SUFFICES ASSUME NEW vcs, NEW ch, NEW tg, NEW src, NEW unit
             PROVE  ReportOf(Discovered(vcs, ch, tg, src, unit), ch,
                             vcs[ChannelToHz(ch)] = NoChan)
  OBVIOUS
<1> DEFINE new == vcs[ChannelToHz(ch)] = NoChan
           c == [call |-> "onDiscover",
                 d |-> [FreqHz |-> ChannelToHz(ch), ch |-> ch, TGID |-> tg, SrcID |-> src,
                        TDMASlots |-> iden[ch.iden].TDMASlots, New |-> new,
                        UnitToUnit |-> unit]]
<1>1. /\ c.call = "onDiscover"
      /\ c.d.ch = ch /\ c.d.FreqHz = ChannelToHz(ch) /\ c.d.New = new
  OBVIOUS
<1>2. Discovered(vcs, ch, tg, src, unit) = IF ~Grantable(ch) THEN <<>> ELSE <<c>>
  BY DEF Discovered
<1> HIDE DEF c, new
<1>3. ReportOf(Discovered(vcs, ch, tg, src, unit), ch, new)
  BY <1>1, <1>2 DEF ReportOf
<1> QED
  BY <1>3 DEF new

LEMMA TwoGrantsDistinct ==
  ASSUME TrackerTypeOK, NEW ch1 \in Channels, NEW tg1 \in TGs, NEW ch2 \in Channels,
         NEW tg2 \in TGs, TwoGrants(ch1, tg1, ch2, tg2)
  PROVE  GrantsDistinct'
<1> DEFINE vcs == Record(voiceChans, ch1)
           two == ch2 # NoChannel /\ ch2 # ch1
           one == Discovered(voiceChans, ch1, tg1, 0, FALSE)
           other == Discovered(vcs, ch2, tg2, 0, FALSE)
           new1 == voiceChans[ChannelToHz(ch1)] = NoChan
           new2 == vcs[ChannelToHz(ch2)] = NoChan
<1>1. calls' = one \o (IF two THEN other ELSE <<>>)
  BY DEF TwoGrants
<1>2. ReportOf(one, ch1, new1) /\ ReportOf(other, ch2, new2)
  BY DiscoveredReports, Zenon
<1>3. Grantable(ch1) /\ ChannelToHz(ch1) = ChannelToHz(ch2) => ~new2
  <2>1. /\ voiceChans \in VoiceChans
        /\ Grantable(ch1) => ChannelToHz(ch1) \in Freqs
    BY HzType DEF TrackerTypeOK, VoiceChans, Grantable
  <2> QED
    BY <2>1, TrackerParams DEF Record, VoiceChans
<1> HIDE DEF one, other, new1, new2
<1>4. CASE two /\ Grantable(ch1) /\ Grantable(ch2)
  <2>1. PICK c1 : /\ one = <<c1>> /\ c1.call = "onDiscover"
                  /\ c1.d.ch = ch1 /\ c1.d.FreqHz = ChannelToHz(ch1) /\ c1.d.New = new1
    BY <1>2, <1>4 DEF ReportOf
  <2>2. PICK c2 : /\ other = <<c2>> /\ c2.call = "onDiscover"
                  /\ c2.d.ch = ch2 /\ c2.d.FreqHz = ChannelToHz(ch2) /\ c2.d.New = new2
    BY <1>2, <1>4 DEF ReportOf
  <2>3. calls' = <<c1>> \o <<c2>>
    BY <1>1, <1>4, <2>1, <2>2
  <2>4. DOMAIN calls' = 1..2 /\ calls'[1] = c1 /\ calls'[2] = c2
    <3>1. <<c1>> \in Seq({c1, c2}) /\ <<c2>> \in Seq({c1, c2})
      OBVIOUS
    <3> QED
      BY <2>3, <3>1
  <2>5. c1.d.ch # c2.d.ch
    BY <1>4, <2>1, <2>2
  <2>6. c1.d.FreqHz = c2.d.FreqHz => ~c2.d.New
    BY <1>3, <1>4, <2>1, <2>2
  <2> QED
    BY <2>4, <2>5, <2>6 DEF GrantsDistinct
<1>5. CASE ~(two /\ Grantable(ch1) /\ Grantable(ch2))
  <2>1. calls' = <<>> \/ \E c : calls' = <<c>>
    <3>1. one = <<>> \/ \E c : one = <<c>>
      BY <1>2 DEF ReportOf
    <3>2. other = <<>> \/ \E c : other = <<c>>
      BY <1>2 DEF ReportOf
    <3>3. two => one = <<>> \/ other = <<>>
      BY <1>2, <1>5 DEF ReportOf
    <3> HIDE DEF two
    <3> QED
      BY <1>1, <3>1, <3>2, <3>3
  <2> QED
    BY <2>1 DEF GrantsDistinct
<1> QED
  BY <1>4, <1>5

\* Every other TSBK reports at most one grant.
LEMMA ApplyGrants ==
  ASSUME TrackerTypeOK, Apply
  PROVE  GrantsDistinct'
<1>1. ASSUME NEW ch \in Channels, NEW tg \in TGs, NEW src \in Units, NEW unit \in BOOLEAN,
             Grant(ch, tg, src, unit)
      PROVE  GrantsDistinct'
  <2>1. calls' = <<>> \/ \E c : calls' = <<c>>
    BY <1>1 DEF Grant, Discovered
  <2> QED
    BY <2>1 DEF GrantsDistinct
<1>2. ASSUME calls' = <<>> \/ \E c : calls' = <<c>> PROVE GrantsDistinct'
  BY <1>2 DEF GrantsDistinct
<1>3. CASE MotBSI \/ MotSiteFlags \/ MotLoadPct \/ NetworkStatusBcast
  BY <1>2, <1>3 DEF MotBSI, MotSiteFlags, MotLoadPct, NetworkStatusBcast, SiteChange, FireIf
<1>4. CASE MotGRGAdd \/ MotGRGDel \/ AdjacentSiteBcast \/ GroupDataGrant
  BY <1>2, <1>4 DEF MotGRGAdd, MotGRGDel, AdjacentSiteBcast, GroupDataGrant, FireIf, SiteBcast
<1>5. CASE IdenUp
  BY <1>2, <1>5, ApplyIdle DEF IdenUp, Idle
<1>6. CASE RFSSStatusBcast
  <2>1. PICK n \in SiteNums, ch \in Channels, fl \in StatusFlags :
           calls' = FireIf(site' # site, "onSite") \o SiteBcast(n, ch, fl, TRUE)
    BY <1>6 DEF RFSSStatusBcast
  <2> DEFINE b == [call |-> "onSiteDiscover",
                   d |-> [Site |-> n, CCFreq |-> CCFreqOf(ch), Self |-> TRUE, flags |-> fl]]
             s == [call |-> "onSite"]
             first == FireIf(site' # site, "onSite")
             last == SiteBcast(n, ch, fl, TRUE)
  <2>a. calls' = first \o last
    BY <2>1
  <2>2. last = <<b>>
    BY DEF SiteBcast
  <2>3. b.call = "onSiteDiscover" /\ s.call = "onSite"
    OBVIOUS
  <2>4. first \in {<<>>, <<s>>}
    BY DEF FireIf
  <2> HIDE DEF b, s, first, last
  <2>5. <<s>> \in Seq({b, s}) /\ <<b>> \in Seq({b, s}) /\ <<>> \in Seq({b, s})
    OBVIOUS
  <2>6. calls' \in Seq({b, s})
    <3>1. first \in Seq({b, s}) /\ last \in Seq({b, s})
      BY <2>2, <2>4, <2>5
    <3>2. first \o last \in Seq({b, s})
      BY <3>1
    <3> QED
      BY <2>a, <3>2
  <2>7. \A i \in DOMAIN calls' : calls'[i] \in {b, s}
    BY <2>6
  <2> QED
    BY <2>3, <2>7 DEF GrantsDistinct
<1>7. CASE MotGRGCNGrant \/ GroupVoiceGrant \/ UnitVoiceGrant
  BY <1>1, <1>7, TrackerParams DEF MotGRGCNGrant, GroupVoiceGrant, UnitVoiceGrant
<1>8. CASE MotGRGCNGrantUpdt \/ GroupVoiceGrantUpdate
  BY <1>8, TwoGrantsDistinct, TrackerParams DEF MotGRGCNGrantUpdt, GroupVoiceGrantUpdate
<1> QED
  BY <1>3, <1>4, <1>5, <1>6, <1>7, <1>8 DEF Apply

LEMMA TailDistinct ==
  ASSUME calls \in Seq(Call), calls # <<>>, calls' = Tail(calls), GrantsDistinct
  PROVE  GrantsDistinct'
<1>1. \A i \in DOMAIN calls' : i + 1 \in DOMAIN calls /\ calls'[i] = calls[i + 1] /\ i \in Int
  OBVIOUS
<1> QED
  BY <1>1 DEF GrantsDistinct

\* The two grants of one update are reported as two channels, also when they are two
\* slots of one carrier, of which one at most is new (trunk.go:487, 506).
THEOREM GrantsDistinctInv == TrackerSpec => []GrantsDistinct
<1>1. TrackerAloneInit => GrantsDistinct
  BY DEF TrackerAloneInit, TrackerInit, GrantsDistinct
<1>2. TrackerTypeOK /\ GrantsDistinct /\ [TrackerNext]_<<trackerVars, calls, viewVars>>
        => GrantsDistinct'
  <2> SUFFICES ASSUME TrackerTypeOK, GrantsDistinct,
                      [TrackerNext]_<<trackerVars, calls, viewVars>>
               PROVE  GrantsDistinct'
    OBVIOUS
  <2>1. CASE Apply /\ UNCHANGED viewVars
    BY <2>1, ApplyGrants
  <2>2. CASE FireSite \/ FirePatch \/ FireOther
    <3>1. calls \in Seq(Call) /\ calls # <<>> /\ calls' = Tail(calls)
      BY <2>2 DEF TrackerTypeOK, FireSite, FirePatch, FireOther, Due
    <3> QED
      BY <3>1, TailDistinct
  <2>3. CASE UNCHANGED calls
    BY <2>3 DEF GrantsDistinct
  <2> QED
    BY <2>1, <2>2, <2>3 DEF TrackerNext, GetPatches, TimePasses
<1> QED
  BY <1>1, <1>2, TrackerTypeInv, PTL DEF TrackerSpec

-----------------------------------------------------------------------------
(* The consumer's copies.                                                   *)

SiteInv == siteView = site \/ Pending("onSite")

\* Whether it has expired or not: one that has may be refreshed without a callback.
PatchesShown ==
    \A sg \in TGs : patches[sg] # NoPatch =>
        sg \in DOMAIN patchView /\ patchView[sg] = patches[sg].members

PatchInv == PatchesShown \/ Pending("onPatch")

\* The site that the consumer has is the site, unless it is about to be told
\* (trunk.go:110-111, 568-580): every field that any broadcast changes is published.
THEOREM SiteViewCurrentInv == TrackerSpec => []SiteViewCurrent
<1>1. TrackerAloneInit => SiteInv
  BY DEF TrackerAloneInit, TrackerInit, ViewInit, SiteInv
<1>2. TrackerTypeOK /\ SiteInv /\ [TrackerNext]_<<trackerVars, calls, viewVars>> => SiteInv'
  <2> SUFFICES ASSUME TrackerTypeOK, SiteInv, [TrackerNext]_<<trackerVars, calls, viewVars>>
               PROVE  SiteInv'
    OBVIOUS
  <2>1. CASE Apply /\ UNCHANGED viewVars
    BY <2>1, ApplyIdle, ApplySite, NonePending DEF SiteInv, viewVars
  <2>2. CASE FireSite
    BY <2>2 DEF FireSite, trackerVars, SiteInv
  <2>3. CASE FirePatch \/ FireOther
    <3>1. calls # <<>> /\ calls' = Tail(calls) /\ Head(calls).call # "onSite"
      BY <2>3 DEF FirePatch, FireOther, Due
    <3>2. site' = site /\ siteView' = siteView
      BY <2>3 DEF FirePatch, FireOther, trackerVars, viewVars
    <3> QED
      BY <3>1, <3>2, StillPending DEF SiteInv, TrackerTypeOK
  <2>4. CASE GetPatches \/ TimePasses \/ UNCHANGED <<trackerVars, calls, viewVars>>
    BY <2>4 DEF GetPatches, TimePasses, trackerVars, viewVars, SiteInv, Pending
  <2> QED
    BY <2>1, <2>2, <2>3, <2>4 DEF TrackerNext
<1>3. SiteInv => SiteViewCurrent
  BY NonePending DEF SiteInv, SiteViewCurrent
<1> QED
  BY <1>1, <1>2, <1>3, TrackerTypeInv, PTL DEF TrackerSpec

\* The consumer has every patch that there is, with its members, unless it is about to be
\* told (trunk.go:130-132): patches may expire, be pruned by another goroutine, and be
\* refreshed without a callback, but none of that brings back one that it does not have.
THEOREM PatchViewCurrentInv == TrackerSpec => []PatchViewCurrent
<1>1. TrackerAloneInit => PatchInv
  BY DEF TrackerAloneInit, TrackerInit, PatchInv, PatchesShown
<1>2. TrackerTypeOK /\ PatchInv /\ [TrackerNext]_<<trackerVars, calls, viewVars>> => PatchInv'
  <2> SUFFICES ASSUME TrackerTypeOK, PatchInv, [TrackerNext]_<<trackerVars, calls, viewVars>>
               PROVE  PatchInv'
    OBVIOUS
  <2>1. SameMembers /\ patchView' = patchView /\ PatchesShown => PatchesShown'
    BY DEF SameMembers, PatchesShown
  <2>2. CASE Apply /\ UNCHANGED viewVars
    BY <2>1, <2>2, ApplyIdle, ApplyPatches, NonePending DEF PatchInv, viewVars
  <2>3. CASE FirePatch
    <3>1. patches' = Pruned /\ patchView' = ActivePatches
      BY <2>3 DEF FirePatch
    <3>2. PatchesShown'
      BY <3>1 DEF PatchesShown, ActivePatches, Pruned
    <3> QED
      BY <3>2 DEF PatchInv
  <2>4. CASE FireSite \/ FireOther
    <3>1. calls # <<>> /\ calls' = Tail(calls) /\ Head(calls).call # "onPatch"
      BY <2>4 DEF FireSite, FireOther, Due
    <3>2. patches' = patches /\ patchView' = patchView
      BY <2>4 DEF FireSite, FireOther, trackerVars, viewVars
    <3> QED
      BY <3>1, <3>2, StillPending DEF PatchInv, PatchesShown, TrackerTypeOK
  <2>5. CASE GetPatches \/ TimePasses
    <3>1. SameMembers
      <4>1. CASE GetPatches
        BY <4>1 DEF GetPatches, Pruned, SameMembers
      <4>2. CASE TimePasses
        <5>1. \A sg \in TGs : patches[sg] # NoPatch => patches[sg] \in Patch
          BY DEF TrackerTypeOK
        <5>2. \A q \in Patch : [q EXCEPT !.age = Older(@)].members = q.members
          BY DEF Patch
        <5> QED
          BY <4>2, <5>1, <5>2 DEF TimePasses, SameMembers
      <4> QED
        BY <2>5, <4>1, <4>2
    <3>2. calls' = calls /\ patchView' = patchView
      BY <2>5 DEF GetPatches, TimePasses, viewVars
    <3> QED
      BY <2>1, <3>1, <3>2 DEF PatchInv, Pending
  <2>6. CASE UNCHANGED <<trackerVars, calls, viewVars>>
    BY <2>6 DEF trackerVars, viewVars, PatchInv, PatchesShown, Pending
  <2> QED
    BY <2>2, <2>3, <2>4, <2>5, <2>6 DEF TrackerNext
<1>3. PatchInv => PatchViewCurrent
  BY NonePending DEF PatchInv, PatchesShown, PatchViewCurrent
<1> QED
  BY <1>1, <1>2, <1>3, TrackerTypeInv, PTL DEF TrackerSpec

-----------------------------------------------------------------------------
(* Types of the System.                                                    *)

Pipelines == [{"voice", "data"} -> [Freqs -> 0..MaxPipelines]]

\* What a callback is called with.
LEMMA HeadOf ==
  ASSUME calls \in Seq(Call), calls # <<>>
  PROVE  /\ Tail(calls) \in Seq(Call)
         /\ Head(calls).call = "onDiscover" => Head(calls).d \in Discovery
         /\ Head(calls).call = "onDataDiscover" => Head(calls).d \in DataDiscovery
<1>1. Head(calls) \in Call
  OBVIOUS
<1> QED
  BY <1>1 DEF Call

LEMMA SpawnedIs ==
  ASSUME pipelines \in Pipelines, NEW kind \in {"voice", "data"}, NEW f \in Freqs
  PROVE  /\ Spawned(kind, f) \in Pipelines
         /\ \A k \in {"voice", "data"}, g \in Freqs :
              /\ k # kind \/ g # f => Spawned(kind, f)[k][g] = pipelines[k][g]
              /\ k = kind /\ g = f /\ pipelines[k][g] = 0 => Spawned(kind, f)[k][g] = 1
<1> DEFINE n == IF pipelines[kind][f] < MaxPipelines THEN pipelines[kind][f] + 1
                                                     ELSE pipelines[kind][f]
<1>1. Spawned(kind, f) = [pipelines EXCEPT ![kind] = [pipelines[kind] EXCEPT ![f] = n]]
  BY DEF Spawned, Pipelines
<1>2. /\ pipelines[kind] \in [Freqs -> 0..MaxPipelines] /\ pipelines[kind][f] \in 0..MaxPipelines
      /\ n \in 0..MaxPipelines
      /\ pipelines[kind][f] = 0 => n = 1
  BY DEF Pipelines, MaxPipelines
<1> HIDE DEF n
<1>3. [pipelines[kind] EXCEPT ![f] = n] \in [Freqs -> 0..MaxPipelines]
  BY <1>2
<1> QED
  BY <1>1, <1>2, <1>3 DEF Pipelines

LEMMA EnsureVoiceIs ==
  ASSUME pipelines \in Pipelines, voice \in SUBSET Freqs, NEW f \in Freqs, EnsureVoice(f)
  PROVE  voice' \in SUBSET Freqs /\ pipelines' \in Pipelines
BY SpawnedIs DEF EnsureVoice

LEMMA ReleasedIs ==
  ASSUME following \in [Freqs -> TGs], NEW g \in Freqs, NEW tg \in TGs
  PROVE  /\ Released(following, g, tg) \in [Freqs -> TGs]
         /\ \A f \in Freqs : /\ f # g => Released(following, g, tg)[f] = following[f]
                             /\ Released(following, g, tg)[f] \in {0, following[f]}
         /\ g \in voice /\ tg # 0 => Released(following, g, tg)[g] # tg
BY TrackerParams DEF Released

\* What one more data grant does to the pipelines.
LEMMA DataIs ==
  ASSUME SystemTypeOK, OnDataDiscover
  PROVE  \E made \in SUBSET Freqs :
           /\ \A f \in made : Tunable(f) /\ f \notin data
           /\ data' = data \cup made
           /\ pipelines' \in Pipelines
           /\ pipelines'["voice"] = pipelines["voice"]
           /\ \A f \in Freqs \ made : pipelines'["data"][f] = pipelines["data"][f]
           /\ \A f \in made : pipelines["data"][f] = 0 => pipelines'["data"][f] = 1
<1> DEFINE d == Head(calls).d
           bearers == {d.FreqHz} \cup (IF d.UplinkHz # 0 THEN {d.UplinkHz} ELSE {})
           new == {f \in bearers : Tunable(f) /\ f \notin data}
           old == pipelines["data"]
           Row(made) == [f \in Freqs |-> IF f \in made /\ old[f] < MaxPipelines
                                         THEN old[f] + 1 ELSE old[f]]
<1>1. d.FreqHz \in Freqs /\ d.UplinkHz \in Freqs
  BY HeadOf DEF SystemTypeOK, TrackerTypeOK, OnDataDiscover, Due, DataDiscovery
<1>2. pipelines \in Pipelines /\ old \in [Freqs -> 0..MaxPipelines]
  BY DEF SystemTypeOK, Pipelines
<1>3. PICK made \in SUBSET new :
         /\ data' = data \cup made
         /\ pipelines' = [pipelines EXCEPT !["data"] = Row(made)]
  BY <1>2 DEF OnDataDiscover, Pipelines
<1>4. made \in SUBSET Freqs
  BY <1>1, <1>3
<1>5. Row(made) \in [Freqs -> 0..MaxPipelines]
  BY <1>2 DEF MaxPipelines
<1>6. \A f \in Freqs : /\ f \notin made => Row(made)[f] = old[f]
                       /\ f \in made /\ old[f] = 0 => Row(made)[f] = 1
  BY <1>2 DEF MaxPipelines
<1>7. \A f \in made : Tunable(f) /\ f \notin data
  BY <1>3
<1> HIDE DEF Row, new, bearers, d
<1> QED
  BY <1>2, <1>3, <1>4, <1>5, <1>6, <1>7 DEF Pipelines

LEMMA StartType ==
  ASSUME SystemTypeOK, Start
  PROVE  SystemTypeOK'
<1> USE DEF SystemTypeOK
<1>1. UNCHANGED <<voiceChans, site, selfSite, patches, calls, p2primed,
                  wacnSeen, tgLastFreq, following, scramble, tdma>>
  BY DEF Start, StartInert, LoadIden, SeedCheck, SeedSpawn, SeedNext, Unchanged4Start
<1>2. CASE StartInert \/ SeedNext
  BY <1>1, <1>2, SystemParams DEF StartInert, SeedNext, TrackerTypeOK
<1>3. CASE LoadIden
  BY <1>1, <1>3, SystemParams DEF LoadIden, TrackerTypeOK
<1>4. CASE SeedCheck
  <2>1. Head(warm) \in Freqs /\ Tail(warm) \in Seq(Freqs)
    BY <1>4 DEF SeedCheck
  <2> QED
    BY <1>1, <1>4, <2>1 DEF SeedCheck, TrackerTypeOK
<1>5. CASE SeedSpawn
  <2>1. picked \in Freqs
    BY <1>5 DEF SeedSpawn
  <2>2. /\ Spawned("voice", picked) \in Pipelines
        /\ Spawned("data", picked) \in Pipelines
    BY <2>1, SpawnedIs DEF Pipelines
  <2>3. voice' \in SUBSET Freqs /\ data' \in SUBSET Freqs /\ pipelines' \in Pipelines
    BY <1>5, <2>1, <2>2 DEF SeedSpawn, Pipelines
  <2> QED
    BY <1>1, <1>5, <2>3 DEF SeedSpawn, TrackerTypeOK, Pipelines
<1> QED
  BY <1>2, <1>3, <1>4, <1>5 DEF Start

LEMMA ParamsType == SystemTypeOK => Params \in Or0(SysIDs) \X Or0(WACNs)
BY DEF SystemTypeOK, TrackerTypeOK, SiteState, Params

LEMMA CallbackType ==
  ASSUME SystemTypeOK, Callback
  PROVE  SystemTypeOK'
<1> DEFINE d == Head(calls).d
<1>a. calls \in Seq(Call) /\ pipelines \in Pipelines
  BY DEF SystemTypeOK, TrackerTypeOK, Pipelines
<1>b. calls # <<>> /\ calls' = Tail(calls)
  BY DEF Callback, DiscoverDropped, DiscoverTDMA, DiscoverUnit, DiscoverGroup, OnSite,
         OnPatch, FirePatch, OnSiteDiscover, OnDataDiscover, Due, Return
<1>c. calls' \in Seq(Call)
  BY <1>a, <1>b, HeadOf
<1>d. Due("onDiscover") => d \in Discovery
  BY <1>a, HeadOf DEF Due
<1>e. 0 \in TGs
  BY TrackerParams
<1>1. CASE DiscoverDropped \/ OnSiteDiscover
  BY <1>1, <1>c DEF DiscoverDropped, OnSiteDiscover, SystemTypeOK, TrackerTypeOK,
     trackerVars, viewVars, sysVars
<1>2. CASE DiscoverTDMA
  <2>1. d.FreqHz \in Freqs
    BY <1>2, <1>d DEF DiscoverTDMA, Discovery
  <2>2. voice' \in SUBSET Freqs /\ pipelines' \in Pipelines
    BY <1>2, <1>a, <2>1, EnsureVoiceIs DEF DiscoverTDMA, SystemTypeOK
  <2>3. /\ tdma' \in SUBSET Freqs /\ p2primed' \in SUBSET Freqs
    BY <1>2, <2>1 DEF DiscoverTDMA, SystemTypeOK
  <2>4. scramble' \in [Freqs -> (Or0(SysIDs) \X Or0(WACNs)) \cup {NoParams}]
    BY <1>2, <2>1, ParamsType DEF DiscoverTDMA, SystemTypeOK
  <2> QED
    BY <1>2, <1>c, <2>2, <2>3, <2>4
    DEF DiscoverTDMA, SystemTypeOK, TrackerTypeOK, trackerVars, Pipelines
<1>3. CASE DiscoverUnit
  <2>1. d.FreqHz \in Freqs
    BY <1>3, <1>d DEF DiscoverUnit, Discovery
  <2>2. voice' \in SUBSET Freqs /\ pipelines' \in Pipelines
    BY <1>3, <1>a, <2>1, EnsureVoiceIs DEF DiscoverUnit, SystemTypeOK
  <2>3. following' \in [Freqs -> TGs]
    BY <1>3, <1>e, <2>1 DEF DiscoverUnit, SystemTypeOK
  <2> QED
    BY <1>3, <1>c, <2>2, <2>3 DEF DiscoverUnit, SystemTypeOK, TrackerTypeOK, trackerVars, Pipelines
<1>4. CASE DiscoverGroup
  <2> DEFINE prev == tgLastFreq[d.TGID]
             moved == d.TGID # 0 /\ prev # NoFreq /\ prev # d.FreqHz
             fol == IF moved THEN Released(following, prev, d.TGID) ELSE following
  <2>1. d.FreqHz \in Freqs /\ d.TGID \in TGs
    BY <1>4, <1>d DEF DiscoverGroup, Discovery
  <2>2. voice' \in SUBSET Freqs /\ pipelines' \in Pipelines
    BY <1>4, <1>a, <2>1, EnsureVoiceIs DEF DiscoverGroup, SystemTypeOK
  <2>3. following \in [Freqs -> TGs] /\ prev \in Freqs \cup {NoFreq}
    BY <2>1 DEF SystemTypeOK
  <2>4. fol \in [Freqs -> TGs]
    BY <2>1, <2>3, ReleasedIs
  <2>5. following' = [fol EXCEPT ![d.FreqHz] = d.TGID]
    BY <1>4 DEF DiscoverGroup
  <2>6. following' \in [Freqs -> TGs]
    <3> HIDE DEF fol, d
    <3> QED
      BY <2>1, <2>4, <2>5
  <2>7. tgLastFreq' \in [TGs -> Freqs \cup {NoFreq}]
    BY <1>4, <2>1 DEF DiscoverGroup, SystemTypeOK
  <2> QED
    BY <1>4, <1>c, <2>2, <2>6, <2>7
    DEF DiscoverGroup, SystemTypeOK, TrackerTypeOK, trackerVars, Pipelines
<1>5. CASE OnSite
  <2>1. wacnSeen' \in BOOLEAN /\ p2primed' \in SUBSET Freqs
    BY <1>5 DEF OnSite, SystemTypeOK
  <2>2. scramble' \in [Freqs -> (Or0(SysIDs) \X Or0(WACNs)) \cup {NoParams}]
    BY <1>5, ParamsType DEF OnSite, SystemTypeOK
  <2> QED
    BY <1>5, <1>c, <2>1, <2>2 DEF OnSite, SystemTypeOK, TrackerTypeOK, trackerVars
<1>6. CASE OnPatch
  <2>1. patches' \in Patches
    BY <1>6, PrunedType DEF OnPatch, FirePatch, SystemTypeOK, TrackerTypeOK, Patches
  <2> QED
    BY <1>6, <1>c, <2>1 DEF OnPatch, FirePatch, SystemTypeOK, TrackerTypeOK, sysVars, Patches
<1>7. CASE OnDataDiscover
  <2>1. data' \in SUBSET Freqs /\ pipelines' \in Pipelines
    BY <1>7, DataIs DEF SystemTypeOK
  <2> QED
    BY <1>7, <1>c, <2>1 DEF OnDataDiscover, SystemTypeOK, TrackerTypeOK, trackerVars, Pipelines
<1> QED
  BY <1>1, <1>2, <1>3, <1>4, <1>5, <1>6, <1>7 DEF Callback

LEMMA StepType == SystemTypeOK /\ [SystemNext]_vars => SystemTypeOK'
<1> SUFFICES ASSUME SystemTypeOK, [SystemNext]_vars PROVE SystemTypeOK'
  OBVIOUS
<1>1. CASE Start \/ Callback
  BY <1>1, StartType, CallbackType
<1>2. CASE Wired /\ Apply /\ UNCHANGED <<viewVars, sysVars>>
  <2>1. TrackerTypeOK'
    BY <1>2, ApplyType DEF SystemTypeOK
  <2> QED
    BY <1>2, <2>1 DEF SystemTypeOK, sysVars
<1>3. ASSUME NEW f \in Freqs, CallEnds(f) PROVE SystemTypeOK'
  BY <1>3, TrackerParams DEF CallEnds, SystemTypeOK, TrackerTypeOK, trackerVars
<1>4. CASE UNCHANGED vars
  BY <1>4 DEF vars, sysVars, trackerVars, SystemTypeOK, TrackerTypeOK
<1> QED
  BY <1>1, <1>2, <1>3, <1>4 DEF SystemNext

LEMMA SystemTypeInit == SystemInit => SystemTypeOK
<1> SUFFICES ASSUME SystemInit PROVE SystemTypeOK
  OBVIOUS
<1>1. NoSite \in SiteState
  BY DEF NoSite, SiteState, Or0
<1>2. <<>> \in Seq(Call) /\ <<>> \in Seq(Freqs)
  OBVIOUS
<1>3. TrackerTypeOK
  BY <1>1, <1>2 DEF SystemInit, TrackerInit, TrackerTypeOK, Or0
<1>4. pipelines \in Pipelines
  BY DEF SystemInit, Pipelines, MaxPipelines
<1> QED
  BY <1>2, <1>3, <1>4, TrackerParams DEF SystemInit, SystemTypeOK, Pipelines

\* Every variable of a System and of its tracker keeps to its type, whatever is
\* loaded, granted and broadcast: each frequency a pipeline is put on comes from a
\* 32-bit sum, each talkgroup it is inside from a grant.
THEOREM SystemTypeInv == Spec => []SystemTypeOK
BY SystemTypeInit, StepType, PTL DEF Spec

-----------------------------------------------------------------------------
(* The pipelines.                                                          *)

\* The keys of a kind's map.
KeysOf(kind) == IF kind = "voice" THEN voice ELSE data

\* A pipeline has its key, a key is tunable, and a warm channel that was found to
\* have none is still without: only the seed loop writes while it is held.
PipelineInv ==
    /\ \A k \in {"voice", "data"}, f \in Freqs :
         /\ pipelines[k][f] \in {0, 1}
         /\ pipelines[k][f] = 1 => f \in KeysOf(k)
    /\ \A f \in voice \cup data : Tunable(f)
    /\ start # "wired" => calls = <<>>
    /\ picked # NoFreq =>
         start \in {"voice", "data"} /\ Tunable(picked) /\ picked \notin KeysOf(start)

LEMMA OneMorePipeline ==
  ASSUME SystemTypeOK, PipelineInv, NEW kind \in {"voice", "data"}, NEW f \in Freqs,
         Tunable(f), f \notin KeysOf(kind), pipelines' = Spawned(kind, f),
         voice' = (IF kind = "voice" THEN voice \cup {f} ELSE voice),
         data' = (IF kind = "data" THEN data \cup {f} ELSE data)
  PROVE  /\ \A k \in {"voice", "data"}, g \in Freqs :
              /\ pipelines'[k][g] \in {0, 1}
              /\ pipelines'[k][g] = 1 => g \in (KeysOf(k))'
         /\ \A g \in voice' \cup data' : Tunable(g)
<1>1. pipelines \in Pipelines
  BY DEF SystemTypeOK, Pipelines
<1>2. pipelines[kind][f] = 0
  BY DEF PipelineInv
<1>3. \A k \in {"voice", "data"}, g \in Freqs :
        \/ pipelines'[k][g] = pipelines[k][g]
        \/ k = kind /\ g = f /\ pipelines'[k][g] = 1
  BY <1>1, <1>2, SpawnedIs
<1>4. \A k \in {"voice", "data"} : KeysOf(k) \subseteq (KeysOf(k))'
  BY DEF KeysOf
<1>5. f \in (KeysOf(kind))'
  BY DEF KeysOf
<1>6. \A g \in voice' \cup data' : Tunable(g)
  BY DEF PipelineInv
<1> QED
  BY <1>3, <1>4, <1>5, <1>6 DEF PipelineInv

\* The same for a voice pipeline that may be there already.
LEMMA EnsureVoiceKeeps ==
  ASSUME SystemTypeOK, PipelineInv, NEW f \in Freqs, Tunable(f), EnsureVoice(f), data' = data
  PROVE  /\ \A k \in {"voice", "data"}, g \in Freqs :
              /\ pipelines'[k][g] \in {0, 1}
              /\ pipelines'[k][g] = 1 => g \in (KeysOf(k))'
         /\ \A g \in voice' \cup data' : Tunable(g)
<1>1. CASE f \in voice
  <2>1. voice' = voice /\ pipelines' = pipelines
    BY <1>1 DEF EnsureVoice
  <2> QED
    BY <2>1 DEF PipelineInv, KeysOf
<1>2. CASE f \notin voice
  BY <1>2, OneMorePipeline DEF EnsureVoice, KeysOf
<1> QED
  BY <1>1, <1>2

LEMMA PipelineStep == SystemTypeOK /\ PipelineInv /\ [SystemNext]_vars => PipelineInv'
<1> SUFFICES ASSUME SystemTypeOK, PipelineInv, [SystemNext]_vars PROVE PipelineInv'
  OBVIOUS
<1> DEFINE d == Head(calls).d
<1>a. calls \in Seq(Call)
  BY DEF SystemTypeOK, TrackerTypeOK
<1>b. Due("onDiscover") => d.FreqHz \in Freqs
  BY <1>a, HeadOf DEF Due, Discovery
<1>1. CASE UNCHANGED <<start, picked, voice, data, pipelines>> /\ (calls = <<>> => calls' = <<>>)
  BY <1>1 DEF PipelineInv, KeysOf
<1>2. CASE StartInert \/ LoadIden \/ SeedNext
  BY <1>2 DEF StartInert, LoadIden, SeedNext, Unchanged4Start, PipelineInv, KeysOf
<1>3. CASE SeedCheck
  BY <1>3 DEF SeedCheck, Unchanged4Start, PipelineInv, KeysOf
<1>4. CASE SeedSpawn
  <2>1. /\ picked \in Freqs /\ Tunable(picked) /\ picked \notin KeysOf(start)
        /\ start \in {"voice", "data"} /\ picked' = NoFreq /\ UNCHANGED <<start, calls>>
    BY <1>4 DEF SeedSpawn, SystemTypeOK, PipelineInv, Unchanged4Start
  <2>2. CASE UNCHANGED <<voice, data, pipelines>>
    BY <2>1, <2>2 DEF PipelineInv, KeysOf
  <2>3. CASE ~UNCHANGED <<voice, data, pipelines>>
    <3>1. /\ pipelines' = Spawned(start, picked)
          /\ voice' = (IF start = "voice" THEN voice \cup {picked} ELSE voice)
          /\ data' = (IF start = "data" THEN data \cup {picked} ELSE data)
      BY <1>4, <2>3 DEF SeedSpawn
    <3> QED
      BY <2>1, <3>1, OneMorePipeline DEF PipelineInv
  <2> QED
    BY <2>2, <2>3
<1>5. ASSUME Callback, UNCHANGED <<start, picked>>,
             \A k \in {"voice", "data"}, g \in Freqs :
               /\ pipelines'[k][g] \in {0, 1}
               /\ pipelines'[k][g] = 1 => g \in (KeysOf(k))',
             \A g \in voice' \cup data' : Tunable(g)
      PROVE  PipelineInv'
  <2>1. calls # <<>>
    BY <1>5 DEF Callback, DiscoverDropped, DiscoverTDMA, DiscoverUnit, DiscoverGroup, OnSite,
         OnPatch, FirePatch, OnSiteDiscover, OnDataDiscover, Due
  <2>2. start = "wired" /\ picked = NoFreq
    BY <2>1 DEF PipelineInv
  <2> QED
    BY <1>5, <2>2 DEF PipelineInv, Tunable
<1>6. CASE DiscoverTDMA \/ DiscoverUnit \/ DiscoverGroup
  <2>1. /\ Due("onDiscover") /\ EnsureVoice(d.FreqHz) /\ Tunable(d.FreqHz)
        /\ UNCHANGED <<data, start, picked>>
    BY <1>6 DEF DiscoverTDMA, DiscoverUnit, DiscoverGroup, Dropped
  <2> HIDE DEF d
  <2>2. d.FreqHz \in Freqs
    BY <2>1, <1>b
  <2>3. /\ \A k \in {"voice", "data"}, g \in Freqs :
             /\ pipelines'[k][g] \in {0, 1}
             /\ pipelines'[k][g] = 1 => g \in (KeysOf(k))'
        /\ \A g \in voice' \cup data' : Tunable(g)
    BY <2>1, <2>2, EnsureVoiceKeeps
  <2> QED
    BY <1>5, <1>6, <2>1, <2>3 DEF Callback
<1>7. CASE OnDataDiscover
  <2>1. PICK made \in SUBSET Freqs :
           /\ \A f \in made : Tunable(f) /\ f \notin data
           /\ data' = data \cup made
           /\ pipelines' \in Pipelines
           /\ pipelines'["voice"] = pipelines["voice"]
           /\ \A f \in Freqs \ made : pipelines'["data"][f] = pipelines["data"][f]
           /\ \A f \in made : pipelines["data"][f] = 0 => pipelines'["data"][f] = 1
    BY <1>7, DataIs
  <2>2. UNCHANGED <<voice, start, picked>>
    BY <1>7 DEF OnDataDiscover
  <2>3. \A g \in voice' \cup data' : Tunable(g)
    BY <2>1, <2>2 DEF PipelineInv
  <2>4. \A f \in made : pipelines["data"][f] = 0
    BY <2>1 DEF PipelineInv, KeysOf
  <2>5. \A g \in Freqs : /\ pipelines'["voice"][g] \in {0, 1}
                         /\ pipelines'["voice"][g] = 1 => g \in voice'
                         /\ pipelines'["data"][g] \in {0, 1}
                         /\ pipelines'["data"][g] = 1 => g \in data'
    BY <2>1, <2>2, <2>4 DEF PipelineInv, KeysOf
  <2>6. \A k \in {"voice", "data"}, g \in Freqs :
          /\ pipelines'[k][g] \in {0, 1}
          /\ pipelines'[k][g] = 1 => g \in (KeysOf(k))'
    BY <2>5 DEF KeysOf
  <2> QED
    BY <1>5, <1>7, <2>2, <2>3, <2>6 DEF Callback
<1>8. CASE DiscoverDropped \/ OnSite \/ OnPatch \/ OnSiteDiscover
  <2>1. UNCHANGED <<start, picked, voice, data, pipelines>> /\ calls # <<>>
    BY <1>8 DEF DiscoverDropped, OnSite, OnPatch, FirePatch, OnSiteDiscover, Due, sysVars
  <2> QED
    BY <1>1, <2>1
<1>9. CASE Wired /\ Apply /\ UNCHANGED <<viewVars, sysVars>>
  BY <1>9 DEF Wired, sysVars, PipelineInv, KeysOf
<1>10. ASSUME NEW f \in Freqs, CallEnds(f) PROVE PipelineInv'
  BY <1>1, <1>10 DEF CallEnds
<1>11. CASE UNCHANGED vars
  BY <1>1, <1>11 DEF vars, sysVars
<1> QED
  BY <1>2, <1>3, <1>4, <1>6, <1>7, <1>8, <1>9, <1>10, <1>11 DEF SystemNext, Start, Callback

LEMMA PipelineInit == SystemInit => PipelineInv
BY DEF SystemInit, TrackerInit, PipelineInv, KeysOf

\* However a channel is met - warm seed, grant, data grant, uplink offset - the host
\* makes at most one pipeline of each kind on its frequency: neither two seeds of
\* one channel nor a seed and a callback of the pump both spawn it (system.go:190).
THEOREM OnePipelineInv == Spec => []OnePipeline
<1>1. SystemInit => SystemTypeOK
  BY SystemTypeInit
<1>2. PipelineInv => OnePipeline
  BY DEF PipelineInv, OnePipeline
<1> QED
  BY <1>1, <1>2, StepType, PipelineInit, PipelineStep, PTL DEF Spec

\* No pipeline is put on the control channel or outside the capture window, though
\* an uplink comes from an offset that may wrap (system.go:203, 289, 430).
THEOREM PipelinesTunableInv == Spec => []PipelinesTunable
<1>1. SystemInit => SystemTypeOK
  BY SystemTypeInit
<1>2. PipelineInv => PipelinesTunable
  BY DEF PipelineInv, PipelinesTunable
<1> QED
  BY <1>1, <1>2, StepType, PipelineInit, PipelineStep, PTL DEF Spec

-----------------------------------------------------------------------------
(* Twins, of FDMA channels.                                                *)

\* The pipeline inside an FDMA group call is the one that the last FDMA grant of its
\* talkgroup was for.
TwinInv ==
    \A f \in Freqs : following[f] # 0 => f \in voice /\ tgLastFreq[following[f]] = f

LEMMA DiscoverGroupTwin ==
  ASSUME SystemTypeOK, TwinInv, DiscoverGroup
  PROVE  TwinInv'
<1> DEFINE d == Head(calls).d
           prev == tgLastFreq[d.TGID]
           moved == d.TGID # 0 /\ prev # NoFreq /\ prev # d.FreqHz
           fol == IF moved THEN Released(following, prev, d.TGID) ELSE following
<1>1. d.FreqHz \in Freqs /\ d.TGID \in TGs
  BY HeadOf DEF SystemTypeOK, TrackerTypeOK, DiscoverGroup, Due, Discovery
<1>2. /\ following \in [Freqs -> TGs] /\ tgLastFreq \in [TGs -> Freqs \cup {NoFreq}]
      /\ prev \in Freqs \cup {NoFreq}
  BY <1>1 DEF SystemTypeOK
<1>3. fol \in [Freqs -> TGs] /\ \A g \in Freqs : fol[g] \in {0, following[g]}
  BY <1>1, <1>2, ReleasedIs
<1>4. /\ following' = [fol EXCEPT ![d.FreqHz] = d.TGID]
      /\ tgLastFreq' = IF d.TGID # 0 THEN [tgLastFreq EXCEPT ![d.TGID] = d.FreqHz]
                                     ELSE tgLastFreq
      /\ voice' = voice \cup {d.FreqHz}
  BY DEF DiscoverGroup, EnsureVoice
<1>5. ASSUME NEW g \in Freqs, g # d.FreqHz, fol[g] # 0
      PROVE  g \in voice /\ fol[g] = following[g] /\ tgLastFreq[following[g]] = g
                         /\ following[g] # d.TGID
  <2>1. fol[g] = following[g] /\ g \in voice /\ tgLastFreq[following[g]] = g
    BY <1>3, <1>5 DEF TwinInv
  <2>2. ASSUME following[g] = d.TGID PROVE FALSE
    <3>1. prev = g /\ moved
      BY <1>5, <2>1, <2>2, SystemParams
    <3>2. fol[g] # d.TGID
      BY <1>1, <1>2, <1>5, <2>1, <2>2, <3>1, ReleasedIs
    <3> QED
      BY <2>1, <2>2, <3>2
  <2> QED
    BY <2>1, <2>2
<1> HIDE DEF fol, d
<1>6. ASSUME NEW g \in Freqs, following'[g] # 0
      PROVE  g \in voice' /\ tgLastFreq'[following'[g]] = g
  <2>1. CASE g = d.FreqHz
    BY <1>1, <1>2, <1>3, <1>4, <1>6, <2>1
  <2>2. CASE g # d.FreqHz
    <3>1. following'[g] = fol[g]
      BY <1>1, <1>3, <1>4, <2>2
    <3>2. /\ g \in voice /\ fol[g] = following[g] /\ tgLastFreq[following[g]] = g
          /\ following[g] # d.TGID
      BY <1>5, <1>6, <2>2, <3>1
    <3>3. tgLastFreq'[following[g]] = g
      BY <1>1, <1>2, <1>4, <3>2
    <3> QED
      BY <1>4, <3>1, <3>2, <3>3
  <2> QED
    BY <2>1, <2>2
<1> QED
  BY <1>6 DEF TwinInv

LEMMA TwinStep == SystemTypeOK /\ TwinInv /\ [SystemNext]_vars => TwinInv'
<1> SUFFICES ASSUME SystemTypeOK, TwinInv, [SystemNext]_vars PROVE TwinInv'
  OBVIOUS
<1>1. CASE UNCHANGED <<tgLastFreq, following>> /\ voice \subseteq voice'
  BY <1>1 DEF TwinInv
<1>2. CASE Start
  <2>1. UNCHANGED <<tgLastFreq, following>>
    BY <1>2 DEF Start, StartInert, LoadIden, SeedCheck, SeedSpawn, SeedNext, Unchanged4Start
  <2>2. voice \subseteq voice'
    BY <1>2 DEF Start, StartInert, LoadIden, SeedCheck, SeedSpawn, SeedNext
  <2> QED
    BY <1>1, <2>1, <2>2
<1>3. CASE DiscoverDropped \/ DiscoverTDMA
  BY <1>1, <1>3 DEF DiscoverDropped, DiscoverTDMA, EnsureVoice
<1>4. CASE OnSite \/ OnPatch \/ OnSiteDiscover \/ OnDataDiscover
  BY <1>1, <1>4 DEF OnSite, OnPatch, OnSiteDiscover, OnDataDiscover, sysVars
<1>5. CASE DiscoverUnit
  <2>1. /\ UNCHANGED tgLastFreq /\ voice \subseteq voice'
        /\ following' = [following EXCEPT ![Head(calls).d.FreqHz] = 0]
    BY <1>5 DEF DiscoverUnit, EnsureVoice
  <2>2. following \in [Freqs -> TGs]
    BY DEF SystemTypeOK
  <2> QED
    BY <2>1, <2>2 DEF TwinInv
<1>6. CASE DiscoverGroup
  BY <1>6, DiscoverGroupTwin
<1>7. ASSUME NEW f \in Freqs, CallEnds(f) PROVE TwinInv'
  BY <1>7 DEF CallEnds, TwinInv, SystemTypeOK
<1>8. CASE UNCHANGED vars \/ (Wired /\ Apply /\ UNCHANGED <<viewVars, sysVars>>)
  BY <1>1, <1>8 DEF vars, sysVars
<1> QED
  BY <1>2, <1>3, <1>4, <1>5, <1>6, <1>7, <1>8 DEF SystemNext, Callback

\* No two pipelines are inside FDMA calls of the same talkgroup: when an FDMA grant moves a
\* call to another channel, the pipeline it leaves is told, TDMA grants in between or not
\* (system.go:27, 101-106, 337).
THEOREM NoFDMATwinInv == Spec => []NoFDMATwin
<1>1. SystemInit => SystemTypeOK
  BY SystemTypeInit
<1>2. SystemInit => TwinInv
  BY DEF SystemInit, TwinInv
<1>3. TwinInv => NoFDMATwin
  BY DEF TwinInv, NoFDMATwin
<1> QED
  BY <1>1, <1>2, <1>3, StepType, TwinStep, PTL DEF Spec

-----------------------------------------------------------------------------
(* Scramble parameters.                                                    *)

\* What is marked as primed has been given a WACN; while the first WACN has not
\* been handed to onSite, that callback is due, and from then on every TDMA
\* pipeline is primed, the ones still to come at their grant.
PrimeInv ==
    /\ \A f \in p2primed : scramble[f] # NoParams /\ scramble[f][2] # 0
    /\ tdma \subseteq voice
    /\ wacnSeen => site.WACN # 0 /\ tdma \subseteq p2primed
    /\ site.WACN # 0 /\ ~wacnSeen => Pending("onSite")

\* A WACN once heard is replaced by another, never forgotten.
LEMMA ApplyKeepsWACN ==
  ASSUME TrackerTypeOK, Apply, site.WACN # 0
  PROVE  site'.WACN # 0
<1>1. site \in SiteState
  BY DEF TrackerTypeOK
<1>2. CASE MotBSI \/ MotSiteFlags \/ MotLoadPct \/ NetworkStatusBcast \/ RFSSStatusBcast
  BY <1>1, <1>2 DEF MotBSI, MotSiteFlags, MotLoadPct, NetworkStatusBcast, RFSSStatusBcast,
     SiteChange, Learn, SiteState
<1>3. CASE ~(MotBSI \/ MotSiteFlags \/ MotLoadPct \/ NetworkStatusBcast \/ RFSSStatusBcast)
  <2>1. site' = site
    BY <1>3 DEF Apply, AdjacentSiteBcast, IdenUp, MotGRGAdd, MotGRGDel, MotGRGCNGrant,
       MotGRGCNGrantUpdt, GroupVoiceGrant, GroupVoiceGrantUpdate, UnitVoiceGrant,
       GroupDataGrant, trackerVars
  <2> QED
    BY <2>1
<1> QED
  BY <1>2, <1>3

LEMMA ParamsHaveWACN ==
  ASSUME SystemTypeOK, site.WACN # 0
  PROVE  Params # NoParams /\ Params[2] # 0
BY ParamsType, SystemParams DEF Params

LEMMA PrimeStep == SystemTypeOK /\ PrimeInv /\ [SystemNext]_vars => PrimeInv'
<1> SUFFICES ASSUME SystemTypeOK, PrimeInv, [SystemNext]_vars PROVE PrimeInv'
  OBVIOUS
<1> DEFINE d == Head(calls).d
<1>a. calls \in Seq(Call)
  BY DEF SystemTypeOK, TrackerTypeOK
<1>b. /\ scramble \in [Freqs -> (Or0(SysIDs) \X Or0(WACNs)) \cup {NoParams}]
      /\ p2primed \in SUBSET Freqs /\ wacnSeen \in BOOLEAN /\ voice \in SUBSET Freqs
  BY DEF SystemTypeOK
\* A step that leaves the priming alone and answers another callback than onSite.
<1>1. ASSUME UNCHANGED <<site, p2primed, wacnSeen, scramble, tdma>>, voice \subseteq voice',
             \/ calls' = calls
             \/ calls # <<>> /\ calls' = Tail(calls) /\ Head(calls).call # "onSite"
      PROVE  PrimeInv'
  <2>1. Pending("onSite") => Pending("onSite")'
    BY <1>a, <1>1, StillPending DEF Pending
  <2> QED
    BY <1>1, <2>1 DEF PrimeInv
<1>2. CASE Start
  <2>1. UNCHANGED <<site, p2primed, wacnSeen, scramble, tdma, calls>>
    BY <1>2 DEF Start, StartInert, LoadIden, SeedCheck, SeedSpawn, SeedNext, Unchanged4Start
  <2>2. voice \subseteq voice'
    BY <1>2 DEF Start, StartInert, LoadIden, SeedCheck, SeedSpawn, SeedNext
  <2> QED
    BY <1>1, <2>1, <2>2
<1>3. CASE DiscoverDropped \/ DiscoverUnit \/ DiscoverGroup
  BY <1>1, <1>3 DEF DiscoverDropped, DiscoverUnit, DiscoverGroup, EnsureVoice, Due, Return,
     trackerVars
<1>4. CASE OnPatch \/ OnSiteDiscover \/ OnDataDiscover
  BY <1>1, <1>4 DEF OnPatch, FirePatch, OnSiteDiscover, OnDataDiscover, Due, Return, trackerVars,
     sysVars
<1>5. CASE DiscoverTDMA
  <2> DEFINE prime == d.FreqHz \notin p2primed /\ site.WACN # 0
  <2>1. d.FreqHz \in Freqs
    BY <1>5, <1>a, HeadOf DEF DiscoverTDMA, Due, Discovery
  <2>2. /\ voice' = voice \cup {d.FreqHz} /\ tdma' = tdma \cup {d.FreqHz}
        /\ p2primed' = (IF prime THEN p2primed \cup {d.FreqHz} ELSE p2primed)
        /\ scramble' = (IF prime THEN [scramble EXCEPT ![d.FreqHz] = Params] ELSE scramble)
        /\ UNCHANGED <<site, wacnSeen>>
    BY <1>5 DEF DiscoverTDMA, EnsureVoice, trackerVars
  <2>3. Pending("onSite") => Pending("onSite")'
    BY <1>5, <1>a, StillPending DEF DiscoverTDMA, Due, Return
  <2> HIDE DEF d
  <2>4. \A f \in p2primed' : scramble'[f] # NoParams /\ scramble'[f][2] # 0
    BY <1>b, <2>1, <2>2, ParamsHaveWACN DEF PrimeInv
  <2>5. tdma' \subseteq voice'
    BY <2>2 DEF PrimeInv
  <2>6. wacnSeen' => site'.WACN # 0 /\ tdma' \subseteq p2primed'
    BY <2>2 DEF PrimeInv
  <2> QED
    BY <2>2, <2>3, <2>4, <2>5, <2>6 DEF PrimeInv
<1>6. CASE OnSite
  <2> DEFINE first == site.WACN # 0 /\ ~wacnSeen
             todo == voice \ p2primed
  <2>1. /\ wacnSeen' = (wacnSeen \/ first)
        /\ p2primed' = (IF first THEN p2primed \cup todo ELSE p2primed)
        /\ scramble' = [f \in Freqs |-> IF first /\ f \in todo THEN Params ELSE scramble[f]]
        /\ UNCHANGED <<site, voice, tdma>>
    BY <1>6 DEF OnSite, trackerVars
  <2>2. \A f \in p2primed' : scramble'[f] # NoParams /\ scramble'[f][2] # 0
    BY <1>b, <2>1, ParamsHaveWACN DEF PrimeInv
  <2>3. wacnSeen' => site'.WACN # 0 /\ tdma' \subseteq p2primed'
    BY <2>1 DEF PrimeInv
  <2>4. site'.WACN # 0 => wacnSeen'
    BY <2>1
  <2> QED
    BY <2>1, <2>2, <2>3, <2>4 DEF PrimeInv
<1>7. CASE Wired /\ Apply /\ UNCHANGED <<viewVars, sysVars>>
  <2>1. TrackerTypeOK
    BY DEF SystemTypeOK
  <2>2. ~Pending("onSite")
    BY <1>7, ApplyIdle, NonePending
  <2>3. site' = site \/ Pending("onSite")'
    BY <1>7, <2>1, ApplySite
  <2>4. site.WACN # 0 => site'.WACN # 0
    BY <1>7, <2>1, ApplyKeepsWACN
  <2>5. UNCHANGED <<p2primed, wacnSeen, scramble, tdma, voice>>
    BY <1>7 DEF sysVars
  <2> QED
    BY <2>2, <2>3, <2>4, <2>5 DEF PrimeInv
<1>8. ASSUME NEW f \in Freqs, CallEnds(f) PROVE PrimeInv'
  BY <1>1, <1>8 DEF CallEnds, trackerVars
<1>9. CASE UNCHANGED vars
  BY <1>1, <1>9 DEF vars, sysVars, trackerVars
<1> QED
  BY <1>2, <1>3, <1>4, <1>5, <1>6, <1>7, <1>8, <1>9 DEF SystemNext, Callback

\* Between two TSBKs, once the WACN is known, every pipeline that was given a TDMA
\* grant has scramble parameters with a WACN in them, whether its grant came before
\* the WACN or after (system.go:310, 361).
THEOREM PrimedInv == Spec => []Primed
<1>1. SystemInit => SystemTypeOK
  BY SystemTypeInit
<1>2. SystemInit => PrimeInv
  BY DEF SystemInit, TrackerInit, NoSite, PrimeInv
<1>3. PrimeInv => Primed
  BY NonePending DEF PrimeInv, Primed
<1> QED
  BY <1>1, <1>2, <1>3, StepType, PrimeStep, PTL DEF Spec
=============================================================================
