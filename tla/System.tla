------------------------------- MODULE System -------------------------------
(***************************************************************************)
(* One trunked site (system.go) around its TrunkTracker: the start-up of   *)
(* StartWithCC, and the callbacks by which the CC's decode pump spawns and *)
(* steers voice and data pipelines.  The tracker's Apply is that of        *)
(* TrunkTracker; its callbacks are this module's actions.                  *)
(*                                                                         *)
(* A pipeline belongs to the host and is seen only through VoiceHandle:    *)
(* following[f] is the group call that an FDMA grant last put the voice    *)
(* pipeline on f inside (NotifyFDMAGrant, NotifyUnitGrant,                 *)
(* NotifyReassigned, system.go:13-43), scramble[f] what                    *)
(* SetP2ScrambleParams last gave it.  The calls of a TDMA channel are told *)
(* apart by slot and are the pipeline's own affair: of those only that     *)
(* there was a grant is kept (tdma).  Only the pump writes a System once   *)
(* it is wired, so each callback is one step.                              *)
(***************************************************************************)
EXTENDS TrunkTracker

CONSTANTS
    ControlFreq,     \* def.ControlFreq
    Window,          \* the frequencies host.InWindow accepts
    Denied,          \* talkgroups tgAllowed refuses
    IdenTables,      \* what LoadIdenTable may return
    WarmVoice,       \* what LoadVoiceChannels returns: a sequence
    WarmData,        \* what LoadDataChannels returns: a sequence
    NoFreq, NoParams

ASSUME SystemParams ==
    /\ ControlFreq \in Freqs /\ Window \subseteq Freqs
    /\ Denied \subseteq TGs
    /\ IdenTables \subseteq [Idens -> IdenEntries \cup {NoIden}]
    /\ WarmVoice \in Seq(Freqs) /\ WarmData \in Seq(Freqs)
    /\ NoFreq \notin Freqs /\ NoParams \notin Or0(SysIDs) \X Or0(WACNs)

VARIABLES
    start,        \* StartWithCC: "iden", "voice", "data", "wired" or "inert"
    warm,         \* the rest of the list being seeded
    picked,       \* a warm channel found missing from the map, before its spawn
    voice, data,  \* the keys of s.voice and s.data
    pipelines,    \* per kind and frequency: how many pipelines the host made
    p2primed, wacnSeen, tgLastFreq,
    following, scramble,
    tdma          \* the voice pipelines that NotifyTDMAGrant was called on

sysVars == <<start, warm, picked, voice, data, pipelines,
             p2primed, wacnSeen, tgLastFreq, following, scramble, tdma>>
vars == <<trackerVars, calls, viewVars, sysVars>>

MaxPipelines == 2    \* bound of the count: enough to tell one from several

SystemTypeOK ==
    /\ TrackerTypeOK
    /\ start \in {"iden", "voice", "data", "wired", "inert"}
    /\ warm \in Seq(Freqs)
    /\ picked \in Freqs \cup {NoFreq}
    /\ voice \in SUBSET Freqs /\ data \in SUBSET Freqs
    /\ pipelines \in [{"voice", "data"} -> [Freqs -> 0..MaxPipelines]]
    /\ p2primed \in SUBSET Freqs
    /\ wacnSeen \in BOOLEAN
    /\ tgLastFreq \in [TGs -> Freqs \cup {NoFreq}]
    /\ following \in [Freqs -> TGs]
    /\ scramble \in [Freqs -> (Or0(SysIDs) \X Or0(WACNs)) \cup {NoParams}]
    /\ tdma \in SUBSET Freqs

SystemInit ==
    /\ TrackerInit /\ ViewInit
    /\ start = "iden" /\ warm = <<>> /\ picked = NoFreq
    /\ voice = {} /\ data = {}
    /\ pipelines = [k \in {"voice", "data"} |-> [f \in Freqs |-> 0]]
    /\ p2primed = {} /\ wacnSeen = FALSE
    /\ tgLastFreq = [tg \in TGs |-> NoFreq]
    /\ following = [f \in Freqs |-> 0]
    /\ scramble = [f \in Freqs |-> NoParams]
    /\ tdma = {}

-----------------------------------------------------------------------------
(* StartWithCC                                                             *)

\* host.SpawnVoice / SpawnData made one more pipeline on f.
Spawned(kind, f) ==
    [pipelines EXCEPT ![kind][f] = IF @ < MaxPipelines THEN @ + 1 ELSE @]

Unchanged4Start ==
    UNCHANGED <<voiceChans, site, selfSite, patches, calls, viewVars, p2primed,
                wacnSeen, tgLastFreq, following, scramble, tdma>>

\* cc == nil: the System stays inert.
StartInert ==
    /\ start = "iden"
    /\ start' = "inert"
    /\ UNCHANGED <<iden, warm, picked, voice, data, pipelines>> /\ Unchanged4Start

LoadIden ==
    /\ start = "iden"
    /\ iden' \in IdenTables
    /\ start' = "voice" /\ warm' = WarmVoice
    /\ UNCHANGED <<picked, voice, data, pipelines>> /\ Unchanged4Start

Tunable(f) == f # ControlFreq /\ f \in Window

\* One turn of a seed loop looks a channel up in the map ...
SeedCheck ==
    /\ start \in {"voice", "data"} /\ warm # <<>> /\ picked = NoFreq
    /\ LET f == Head(warm)
           have == IF start = "voice" THEN voice ELSE data
       IN  picked' = IF Tunable(f) /\ f \notin have THEN f ELSE NoFreq
    /\ warm' = Tail(warm)
    /\ UNCHANGED <<iden, start, voice, data, pipelines>> /\ Unchanged4Start

\* ... and spawns it, which the host may refuse.
SeedSpawn ==
    /\ picked # NoFreq
    /\ picked' = NoFreq
    /\ \/ UNCHANGED <<voice, data, pipelines>>
       \/ /\ start = "voice"
          /\ voice' = voice \cup {picked} /\ pipelines' = Spawned("voice", picked)
          /\ UNCHANGED data
       \/ /\ start = "data"
          /\ data' = data \cup {picked} /\ pipelines' = Spawned("data", picked)
          /\ UNCHANGED voice
    /\ UNCHANGED <<iden, start, warm>> /\ Unchanged4Start

\* The next loop; after the last one SetTrunkTracker lets the pump call Apply.
SeedNext ==
    /\ start \in {"voice", "data"} /\ warm = <<>> /\ picked = NoFreq
    /\ start' = IF start = "voice" THEN "data" ELSE "wired"
    /\ warm' = IF start = "voice" THEN WarmData ELSE <<>>
    /\ UNCHANGED <<iden, picked, voice, data, pipelines>> /\ Unchanged4Start

\* Slip: SetTrunkTracker is called before the seed loops.
WiredEarly == start \in {"voice", "data", "wired"}

\* The tracker is on the pump: TSBKs reach Apply.
Wired == start = "wired"

-----------------------------------------------------------------------------
(* The callbacks                                                           *)

Return == calls' = Tail(calls)
Params == <<site.SYSID, site.WACN>>

\* Slip: the control channel is not excepted.
DroppedInWindow(d) == d.FreqHz \notin Window \/ (~d.UnitToUnit /\ d.TGID \in Denied)

\* The grants onDiscover drops: nothing is spawned, signalled or remembered.
Dropped(d) == ~Tunable(d.FreqHz) \/ (~d.UnitToUnit /\ d.TGID \in Denied)

DiscoverDropped ==
    /\ Due("onDiscover")
    /\ LET d == Head(calls).d IN
         \/ Dropped(d)
         \/ ~Dropped(d) /\ d.FreqHz \notin voice   \* SpawnVoice is nil
    /\ Return
    /\ UNCHANGED <<trackerVars, viewVars, start, warm, picked, voice, data, pipelines,
                   p2primed, wacnSeen, tgLastFreq, following, scramble, tdma>>

\* The voice pipeline of a grant, spawned if there is none.
EnsureVoice(f) ==
    /\ voice' = voice \cup {f}
    /\ pipelines' = IF f \in voice THEN pipelines ELSE Spawned("voice", f)

\* Slip: a pipeline is marked as primed while the WACN is unknown.
DiscoverTDMAEarly ==
    /\ Due("onDiscover")
    /\ LET d == Head(calls).d
       IN  /\ ~Dropped(d) /\ d.TDMASlots > 1
           /\ EnsureVoice(d.FreqHz)
           /\ tdma' = tdma \cup {d.FreqHz}
           /\ p2primed' = p2primed \cup {d.FreqHz}
           /\ scramble' = IF d.FreqHz \notin p2primed /\ site.WACN # 0
                          THEN [scramble EXCEPT ![d.FreqHz] = Params] ELSE scramble
    /\ Return
    /\ UNCHANGED <<trackerVars, viewVars, start, warm, picked, data, wacnSeen,
                   tgLastFreq, following>>

\* A TDMA grant neither reads nor sets tgLastFreq, and takes no pipeline out of a call: a
\* talkgroup that moves from an FDMA channel to a TDMA one may be in two pipelines.
DiscoverTDMA ==
    /\ Due("onDiscover")
    /\ LET d == Head(calls).d
           prime == d.FreqHz \notin p2primed /\ site.WACN # 0
       IN  /\ ~Dropped(d) /\ d.TDMASlots > 1
           /\ EnsureVoice(d.FreqHz)
           /\ tdma' = tdma \cup {d.FreqHz}
           /\ p2primed' = IF prime THEN p2primed \cup {d.FreqHz} ELSE p2primed
           /\ scramble' = IF prime THEN [scramble EXCEPT ![d.FreqHz] = Params] ELSE scramble
    /\ Return
    /\ UNCHANGED <<trackerVars, viewVars, start, warm, picked, data, wacnSeen,
                   tgLastFreq, following>>

\* A private call takes the pipeline over.
DiscoverUnit ==
    /\ Due("onDiscover")
    /\ LET d == Head(calls).d
       IN  /\ ~Dropped(d) /\ d.TDMASlots <= 1 /\ d.UnitToUnit
           /\ EnsureVoice(d.FreqHz)
           /\ following' = [following EXCEPT ![d.FreqHz] = 0]
    /\ Return
    /\ UNCHANGED <<trackerVars, viewVars, start, warm, picked, data, p2primed, wacnSeen,
                   tgLastFreq, scramble, tdma>>

\* Slip: the idle pipeline is marked by the "no frequency" value.
ReleasedToNone(fol, f, tg) ==
    IF f \in voice /\ fol[f] = tg THEN [fol EXCEPT ![f] = NoFreq] ELSE fol

\* NotifyReassigned(tg) to the pipeline on f winds down a call of tg only.
Released(fol, f, tg) ==
    IF f \in voice /\ fol[f] = tg THEN [fol EXCEPT ![f] = 0] ELSE fol

\* Slip: the talkgroup's last frequency is kept from its first grant.
DiscoverGroupForgets ==
    /\ Due("onDiscover")
    /\ LET d == Head(calls).d
           prev == tgLastFreq[d.TGID]
           moved == d.TGID # 0 /\ prev # NoFreq /\ prev # d.FreqHz
       IN  /\ ~Dropped(d) /\ d.TDMASlots <= 1 /\ ~d.UnitToUnit
           /\ EnsureVoice(d.FreqHz)
           /\ tgLastFreq' = IF d.TGID # 0 /\ ~moved
                            THEN [tgLastFreq EXCEPT ![d.TGID] = d.FreqHz] ELSE tgLastFreq
           /\ following' = [(IF moved THEN Released(following, prev, d.TGID)
                                      ELSE following) EXCEPT ![d.FreqHz] = d.TGID]
    /\ Return
    /\ UNCHANGED <<trackerVars, viewVars, start, warm, picked, data, p2primed, wacnSeen,
                   scramble, tdma>>

\* A group call: the pipeline it was last granted to is told, then this one.
DiscoverGroup ==
    /\ Due("onDiscover")
    /\ LET d == Head(calls).d
           prev == tgLastFreq[d.TGID]
           moved == d.TGID # 0 /\ prev # NoFreq /\ prev # d.FreqHz
       IN  /\ ~Dropped(d) /\ d.TDMASlots <= 1 /\ ~d.UnitToUnit
           /\ EnsureVoice(d.FreqHz)
           /\ tgLastFreq' = IF d.TGID # 0 THEN [tgLastFreq EXCEPT ![d.TGID] = d.FreqHz]
                                          ELSE tgLastFreq
           /\ following' = [(IF moved THEN Released(following, prev, d.TGID)
                                      ELSE following) EXCEPT ![d.FreqHz] = d.TGID]
    /\ Return
    /\ UNCHANGED <<trackerVars, viewVars, start, warm, picked, data, p2primed, wacnSeen,
                   scramble, tdma>>

\* onSite: the first WACN primes every pipeline that waits for it.
OnSite ==
    /\ Due("onSite")
    /\ siteView' = site
    /\ LET first == site.WACN # 0 /\ ~wacnSeen
           todo == voice \ p2primed
       IN  /\ wacnSeen' = (wacnSeen \/ first)
           /\ p2primed' = IF first THEN p2primed \cup todo ELSE p2primed
           /\ scramble' = [f \in Freqs |-> IF first /\ f \in todo THEN Params
                                                                  ELSE scramble[f]]
    /\ Return
    /\ UNCHANGED <<trackerVars, patchView, start, warm, picked, voice, data, pipelines,
                   tgLastFreq, following, tdma>>

\* onPatch hands the patches on to the host.
OnPatch == FirePatch /\ UNCHANGED sysVars

\* onSiteDiscover hands the broadcast on to the site observer.
OnSiteDiscover ==
    /\ Due("onSiteDiscover")
    /\ Return
    /\ UNCHANGED <<trackerVars, viewVars, sysVars>>

\* onDataDiscover: the downlink bearer and, if the iden has an offset, the
\* uplink one; each is spawned on its first grant unless the host refuses.
OnDataDiscover ==
    /\ Due("onDataDiscover")
    /\ LET d == Head(calls).d
           bearers == {d.FreqHz} \cup (IF d.UplinkHz # 0 THEN {d.UplinkHz} ELSE {})
           new == {f \in bearers : Tunable(f) /\ f \notin data}
       IN  \E made \in SUBSET new :
             /\ data' = data \cup made
             /\ pipelines' = [pipelines EXCEPT !["data"] =
                                [f \in Freqs |-> IF f \in made /\ @[f] < MaxPipelines
                                                 THEN @[f] + 1 ELSE @[f]]]
    /\ Return
    /\ UNCHANGED <<trackerVars, viewVars, start, warm, picked, voice, p2primed, wacnSeen,
                   tgLastFreq, following, scramble, tdma>>

\* A pipeline's own end of call: its grant hold runs out.
CallEnds(f) ==
    /\ following[f] # 0
    /\ following' = [following EXCEPT ![f] = 0]
    /\ UNCHANGED <<trackerVars, calls, viewVars, start, warm, picked, voice, data,
                   pipelines, p2primed, wacnSeen, tgLastFreq, scramble, tdma>>

Start == StartInert \/ LoadIden \/ SeedCheck \/ SeedSpawn \/ SeedNext
Callback == DiscoverDropped \/ DiscoverTDMA \/ DiscoverUnit \/ DiscoverGroup
            \/ OnSite \/ OnPatch \/ OnSiteDiscover \/ OnDataDiscover

SystemNext == \/ Start
              \/ Wired /\ Apply /\ UNCHANGED <<viewVars, sysVars>>
              \/ Callback
              \/ \E f \in Freqs : CallEnds(f)

Spec == SystemInit /\ [][SystemNext]_vars

-----------------------------------------------------------------------------
(* Properties.                                                             *)

\* However a channel is met - warm seed, grant, data grant, uplink offset - the
\* host makes at most one pipeline of each kind on its frequency: the seed loops
\* and the pump never both spawn it (190-198).
OnePipeline ==
    \A k \in {"voice", "data"}, f \in Freqs : pipelines[k][f] <= 1

\* No pipeline is put on the control channel or outside the capture window.
PipelinesTunable == \A f \in voice \cup data : Tunable(f)

\* No two pipelines are inside FDMA calls of the same talkgroup: a call that an FDMA grant
\* moves has no "twin" on the channel it left (27-30), whatever ended, was taken over or
\* was granted on a TDMA channel in between.  "FDMA-only" is the code's (105).
NoFDMATwin ==
    \A f, g \in Freqs : f # g /\ following[f] # 0 => following[f] # following[g]

\* Once the WACN is known, every voice pipeline that was given a TDMA grant, before
\* or after, has scramble parameters with a WACN in them.
Primed ==
    Idle /\ site.WACN # 0 =>
      \A f \in tdma : scramble[f] # NoParams /\ scramble[f][2] # 0

\* tgLastFreq is "the frequency of its most recent FDMA grant", and the stale
\* pipeline is signalled "when a grant for the same talkgroup lands on a different
\* frequency" (101-106): but a grant that is dropped does neither.
AbandonedIsTold ==
    [][Due("onDiscover") /\ calls' = Tail(calls)
         => LET d == Head(calls).d IN
            d.TDMASlots <= 1 /\ ~d.UnitToUnit /\ d.TGID \notin Denied \cup {0}
              => \A f \in Freqs \ {d.FreqHz} : following'[f] # d.TGID]_vars
=============================================================================
