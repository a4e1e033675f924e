-------------------------------- MODULE RFSS --------------------------------
(***************************************************************************)
(* The RFSS supervisor (rfss.go) with the goroutines it runs among:        *)
(*                                                                         *)
(*   main    calls Seed once per configured trunk;                         *)
(*   ticker  runs Run/tick: bindPending, then the two-phase teardown;      *)
(*   pumps   one decode-pump goroutine per control-channel decoder (CC);   *)
(*           a pump whose System is wired calls onSiteDiscover.            *)
(*                                                                         *)
(* The ticker's critical sections are split at Lock and Unlock, so a pump  *)
(* can be seen blocked on r.mu; the short ones of main and of a pump are   *)
(* single steps enabled only while r.mu is free.  The host's DespawnCC     *)
(* joins the pump (rfss.go:242-248): one step asks, one step returns.      *)
(*                                                                         *)
(* Time is kept as ages that saturate, so it never runs out.               *)
(***************************************************************************)
EXTENDS Integers, Sequences, FiniteSets

CONSTANTS
    Sites,           \* site numbers that broadcasts name
    Freqs,           \* resolved (non-zero) control-channel frequencies
    Window,          \* the frequencies host.InWindow accepts
    Broadcasts,      \* the SiteDiscovery records a CC may decode
    Trunks,          \* the configured trunks: a sequence of control frequencies
    MaxSites,        \* the supervisor's cap
    Decoders,        \* CC handles the host can hand out
    NacTimeout,      \* pendingNACTimeout, in model time units
    IdleDespawn,     \* idleDespawn, in model time units
    MaxLag,          \* bound: time units that may pass during one tick
    NoCC, NoEntry, NoBroadcast

Unresolved == 0      \* CCFreq of a broadcast whose iden is not decoded yet

SiteDiscovery == [Site : Sites, CCFreq : Freqs \cup {Unresolved},
                  Active : BOOLEAN, Failed : BOOLEAN]

ASSUME ParamsOK ==
    /\ IsFiniteSet(Sites)
    /\ Unresolved \notin Freqs
    /\ Window \subseteq Freqs
    /\ Broadcasts \subseteq SiteDiscovery
    /\ Trunks \in Seq(Freqs)
    /\ MaxSites \in Nat /\ NacTimeout \in Nat /\ IdleDespawn \in Nat
    /\ MaxLag \in Nat
    /\ NoCC \notin Decoders
    /\ NoBroadcast \notin SiteDiscovery

MonitoredSite == [ccFreq : Freqs, cc : Decoders, despawn : BOOLEAN]
PendingSite   == [ccFreq : Freqs, cc : Decoders]
SeedSite      == [ccFreq : Freqs, cc : Decoders \cup {NoCC}]

ASSUME NoEntryOK == NoEntry \notin MonitoredSite \cup PendingSite

MaxQuiet == IdleDespawn + MaxLag + 1   \* ages saturate here
MaxWait  == NacTimeout + MaxLag + 1

VARIABLES
    mu,         \* holder of r.mu: "free" or "ticker"
    seeds,      \* r.seeds
    monitored,  \* r.monitored, NoEntry where the map has no key
    pending,    \* r.pending, likewise
    since,      \* age of each pending entry (now - p.since)
    seeding,    \* main: the CC of the trunk between Start and append, or NoCC
    mainPC,     \* main: "start" or "append"
    tickPC,     \* where the ticker is in tick/bindPending
    dead,       \* the ticker's local list: the CCs still to tear down
    condemned,  \* the sites of tick's local list, kept until they are deleted
    joining,    \* the CC the ticker is inside DespawnCC for, or NoCC
    lag,        \* time since the ticker's "now" was taken
    life,       \* per CC: "off", "up", "closing", "closed"
    wired,      \* per CC: SetTrunkTracker has been called
    heardNAC,   \* per CC: ObservedNAC() # 0
    active,     \* per CC: ~LastActivity().IsZero()
    quiet,      \* per CC: age of its last TSBK (since spawn if none)
    handling    \* per CC: the broadcast its pump is inside onSiteDiscover for

rfssVars == <<mu, seeds, monitored, pending, since, seeding, mainPC>>
tickVars == <<tickPC, dead, condemned, joining, lag>>
ccVars   == <<life, wired, heardNAC, active, quiet, handling>>
vars     == <<rfssVars, tickVars, ccVars>>

TickPCs == {"wait", "bind", "bindUnlock", "reap", "collect", "collectUnlock",
            "teardown", "remove", "stopped"}

TypeOK ==
    /\ mu \in {"free", "ticker"}
    /\ seeds \in Seq(SeedSite)
    /\ monitored \in [Sites -> MonitoredSite \cup {NoEntry}]
    /\ pending \in [Sites -> PendingSite \cup {NoEntry}]
    /\ since \in [Sites -> 0..MaxWait]
    /\ seeding \in Decoders \cup {NoCC}
    /\ mainPC \in {"start", "append"}
    /\ mainPC = "append" => Len(seeds) < Len(Trunks)
    /\ tickPC \in TickPCs
    /\ dead \in SUBSET Decoders
    /\ condemned \in SUBSET Sites
    /\ joining \in Decoders \cup {NoCC}
    /\ lag \in 0..MaxLag
    /\ life \in [Decoders -> {"off", "up", "closing", "closed"}]
    /\ wired \in [Decoders -> BOOLEAN]
    /\ heardNAC \in [Decoders -> BOOLEAN]
    /\ active \in [Decoders -> BOOLEAN]
    /\ quiet \in [Decoders -> 0..MaxQuiet]
    /\ handling \in [Decoders -> Broadcasts \cup {NoBroadcast}]

Init ==
    /\ mu = "free"
    /\ seeds = <<>>
    /\ monitored = [s \in Sites |-> NoEntry]
    /\ pending = [s \in Sites |-> NoEntry]
    /\ since = [s \in Sites |-> 0]
    /\ seeding = NoCC
    /\ mainPC = "start"
    /\ tickPC = "wait"
    /\ dead = {}
    /\ condemned = {}
    /\ joining = NoCC
    /\ lag = 0
    /\ life = [c \in Decoders |-> "off"]
    /\ wired = [c \in Decoders |-> FALSE]
    /\ heardNAC = [c \in Decoders |-> FALSE]
    /\ active = [c \in Decoders |-> FALSE]
    /\ quiet = [c \in Decoders |-> 0]
    /\ handling = [c \in Decoders |-> NoBroadcast]

-----------------------------------------------------------------------------
(* Helpers.                                                                *)

MonitoredSites == {s \in Sites : monitored[s] # NoEntry}
PendingSites   == {s \in Sites : pending[s] # NoEntry}

\* countLocked
Count == Len(seeds) + Cardinality(MonitoredSites) + Cardinality(PendingSites)

\* host.SpawnCC returning handle c: a CC nobody holds is up, with its own pump.
SpawnCC(c, wire) ==
    /\ life[c] = "off"
    /\ life' = [life EXCEPT ![c] = "up"]
    /\ wired' = [wired EXCEPT ![c] = wire]
    /\ UNCHANGED <<heardNAC, active, quiet>>

NoSpawn == UNCHANGED <<life, wired, heardNAC, active, quiet>>

\* The last holder of these handles lets go of them.
Forget(S) ==
    /\ life' = [c \in Decoders |-> IF c \in S THEN "off" ELSE life[c]]
    /\ wired' = [c \in Decoders |-> wired[c] /\ c \notin S]
    /\ heardNAC' = [c \in Decoders |-> heardNAC[c] /\ c \notin S]
    /\ active' = [c \in Decoders |-> active[c] /\ c \notin S]
    /\ quiet' = [c \in Decoders |-> IF c \in S THEN 0 ELSE quiet[c]]

-----------------------------------------------------------------------------
(* main: Seed                                                              *)

\* NewSystem, SetSiteObserver, sys.Start(): the CC is up and its pump wired
\* before the trunk is in r.seeds.  SpawnCC may return nil.
SeedStart ==
    /\ mainPC = "start" /\ Len(seeds) < Len(Trunks)
    /\ \/ \E c \in Decoders : SpawnCC(c, TRUE) /\ seeding' = c
       \/ NoSpawn /\ seeding' = NoCC
    /\ mainPC' = "append"
    /\ UNCHANGED <<mu, seeds, monitored, pending, since, tickVars, handling>>

\* The append to r.seeds, under r.mu.
SeedAppend ==
    /\ mainPC = "append" /\ mu = "free"
    /\ seeds' = Append(seeds, [ccFreq |-> Trunks[Len(seeds) + 1], cc |-> seeding])
    /\ seeding' = NoCC
    /\ mainPC' = "start"
    /\ UNCHANGED <<mu, monitored, pending, since, tickVars, ccVars>>

-----------------------------------------------------------------------------
(* A pump: decoding, and onSiteDiscover                                    *)

\* A NID decodes.
DecodeNID(c) ==
    /\ life[c] = "up" /\ handling[c] = NoBroadcast
    /\ ~heardNAC[c]
    /\ heardNAC' = [heardNAC EXCEPT ![c] = TRUE]
    /\ UNCHANGED <<rfssVars, tickVars, life, wired, active, quiet, handling>>

\* A TSBK decodes; if a tracker is wired and the TSBK is a site broadcast,
\* the pump goes on into onSiteDiscover, where it waits for r.mu.
DecodeTSBK(c) ==
    /\ life[c] = "up" /\ handling[c] = NoBroadcast
    /\ heardNAC[c]
    /\ active' = [active EXCEPT ![c] = TRUE]
    /\ quiet' = [quiet EXCEPT ![c] = 0]
    /\ \/ UNCHANGED handling
       \/ /\ wired[c]
          /\ \E d \in Broadcasts : handling' = [handling EXCEPT ![c] = d]
    /\ UNCHANGED <<rfssVars, tickVars, life, wired, heardNAC>>

\* A broadcast of a seed's own control channel.
FromSeed(d) ==
    d.CCFreq # Unresolved /\ \E i \in DOMAIN seeds : seeds[i].ccFreq = d.CCFreq

Condemns(d) == d.Failed \/ (d.CCFreq # Unresolved /\ d.CCFreq \notin Window)

\* Slip: an unresolved broadcast overwrites the known frequency.
RefreshClobbers(ms, d) ==
    [ms EXCEPT !.ccFreq = d.CCFreq, !.despawn = @ \/ Condemns(d)]

\* Health update of a site that is already monitored.
Refresh(ms, d) ==
    [ms EXCEPT !.ccFreq = IF d.CCFreq # Unresolved THEN d.CCFreq ELSE @,
               !.despawn = @ \/ Condemns(d)]

\* Slip: the cap is compared with the wrong sign of equality.
RoomAtCap == Count <= MaxSites

Room == Count < MaxSites

Eligible(d) ==
    /\ d.Active /\ ~d.Failed
    /\ d.CCFreq # Unresolved /\ d.CCFreq \in Window
    /\ Room

\* Slip: a healthy broadcast takes the despawn flag back.
UpdateUnflags(d) ==
    /\ monitored[d.Site] # NoEntry
    /\ monitored' = [monitored EXCEPT ![d.Site].despawn = Condemns(d)]
    /\ UNCHANGED <<pending, since>> /\ NoSpawn

UpdateMonitored(d) ==
    /\ monitored[d.Site] # NoEntry
    /\ monitored' = IF monitored[d.Site].despawn THEN monitored
                    ELSE [monitored EXCEPT ![d.Site] = Refresh(@, d)]
    /\ UNCHANGED <<pending, since>> /\ NoSpawn

\* Slip: a site whose NAC is awaited is spawned again.
NotMonitored(s) == monitored[s] = NoEntry

Absent(s) == monitored[s] = NoEntry /\ pending[s] = NoEntry

SpawnPending(d, c) ==
    /\ Absent(d.Site)
    /\ Eligible(d)
    /\ SpawnCC(c, FALSE)
    /\ pending' = [pending EXCEPT ![d.Site] = [ccFreq |-> d.CCFreq, cc |-> c]]
    /\ UNCHANGED <<monitored, since>>

\* Already pending, not eligible, or SpawnCC returned nil.
LeaveUnspawned(d) ==
    /\ monitored[d.Site] = NoEntry
    /\ UNCHANGED <<monitored, pending, since>> /\ NoSpawn

OnSiteDiscover(c) ==
    /\ mu = "free" /\ handling[c] # NoBroadcast
    /\ LET d == handling[c] IN
         IF FromSeed(d) THEN UNCHANGED <<monitored, pending, since>> /\ NoSpawn
         ELSE \/ UpdateMonitored(d)
              \/ \E n \in Decoders : SpawnPending(d, n)
              \/ LeaveUnspawned(d)
    /\ handling' = [handling EXCEPT ![c] = NoBroadcast]
    /\ UNCHANGED <<mu, seeds, seeding, mainPC, tickVars>>

\* The pump of a CC being despawned leaves its loop between two frames.
PumpExit(c) ==
    /\ life[c] = "closing" /\ handling[c] = NoBroadcast
    /\ life' = [life EXCEPT ![c] = "closed"]
    /\ UNCHANGED <<rfssVars, tickVars, wired, heardNAC, active, quiet, handling>>

-----------------------------------------------------------------------------
(* The ticker: Run, tick, bindPending                                      *)

TickFire ==
    /\ tickPC = "wait"
    /\ tickPC' = "bind" /\ lag' = 0
    /\ UNCHANGED <<rfssVars, dead, condemned, joining, ccVars>>

\* ctx.Done(): Run returns between two ticks.
Cancel ==
    /\ tickPC = "wait"
    /\ tickPC' = "stopped"
    /\ UNCHANGED <<rfssVars, dead, condemned, joining, lag, ccVars>>

Bindable(s)  == pending[s] # NoEntry /\ heardNAC[pending[s].cc]

\* Slip: the wait is measured only for a decoder that produced something.
HopelessIfActive(s) == pending[s] # NoEntry /\ active[pending[s].cc]
                       /\ since[s] - lag > NacTimeout

Hopeless(s)  == pending[s] # NoEntry /\ ~heardNAC[pending[s].cc]
                                     /\ since[s] - lag > NacTimeout
BoundCCs     == {pending[s].cc : s \in {t \in Sites : Bindable(t)}}

\* Slip: a timed-out decoder is dropped without being despawned.
HopelessForgotten == {}

HopelessCCs  == {pending[s].cc : s \in {t \in Sites : Hopeless(t)}}

\* Slip: a bound site stays pending.
ResolvedHopeless(s) == Hopeless(s)

\* The sites that leave r.pending.
Resolved(s) == Bindable(s) \/ Hopeless(s)

\* The locked part of bindPending: adopt each CC whose NAC is known
\* (StartWithCC wires its tracker), drop those that timed out.
BindPending ==
    /\ tickPC = "bind" /\ mu = "free"
    /\ mu' = "ticker"
    /\ monitored' = [s \in Sites |->
          IF Bindable(s)
          THEN [ccFreq |-> pending[s].ccFreq, cc |-> pending[s].cc, despawn |-> FALSE]
          ELSE monitored[s]]
    /\ pending' = [s \in Sites |->
          IF Resolved(s) THEN NoEntry ELSE pending[s]]
    /\ since' = [s \in Sites |-> IF Resolved(s) THEN 0 ELSE since[s]]
    /\ wired' = [c \in Decoders |-> wired[c] \/ c \in BoundCCs]
    /\ dead' = HopelessCCs
    /\ tickPC' = "bindUnlock"
    /\ UNCHANGED <<seeds, seeding, mainPC, condemned, joining, lag,
                   life, heardNAC, active, quiet, handling>>

BindUnlock ==
    /\ tickPC = "bindUnlock"
    /\ mu' = "free" /\ tickPC' = "reap"
    /\ UNCHANGED <<seeds, monitored, pending, since, seeding, mainPC,
                   dead, condemned, joining, lag, ccVars>>

\* host.DespawnCC(c): ask the pump to stop ...
DespawnCall(c) ==
    /\ tickPC \in {"reap", "teardown"} /\ joining = NoCC /\ c \in dead
    /\ life' = [life EXCEPT ![c] = "closing"]
    /\ joining' = c
    /\ UNCHANGED <<rfssVars, tickPC, dead, condemned, lag,
                   wired, heardNAC, active, quiet, handling>>

\* ... and return once it has.  The handle of a pending CC is forgotten here,
\* that of a monitored one stays in its entry until RemoveDead.
DespawnReturn ==
    /\ joining # NoCC /\ life[joining] = "closed"
    /\ dead' = dead \ {joining}
    /\ joining' = NoCC
    /\ Forget(IF tickPC = "reap" THEN {joining} ELSE {})
    /\ UNCHANGED <<rfssVars, tickPC, condemned, lag, handling>>

ReapDone ==
    /\ tickPC = "reap" /\ dead = {}
    /\ tickPC' = "collect"
    /\ UNCHANGED <<rfssVars, dead, condemned, joining, lag, ccVars>>

\* Silent beyond idleDespawn; a CC that never produced a TSBK is not.
Idle(c) == active[c] /\ quiet[c] - lag > IdleDespawn

\* Slip: only the sites that fell silent are listed.
ListedIdle(s) == /\ monitored[s] # NoEntry
                 /\ ~monitored[s].despawn /\ Idle(monitored[s].cc)

Listed(s) == /\ monitored[s] # NoEntry
             /\ monitored[s].despawn \/ Idle(monitored[s].cc)

\* The locked snapshot of tick: flag the idle, list every flagged site.
CollectDead ==
    /\ tickPC = "collect" /\ mu = "free"
    /\ mu' = "ticker"
    /\ condemned' = {s \in Sites : Listed(s)}
    /\ monitored' = [s \in Sites |->
          IF Listed(s) THEN [monitored[s] EXCEPT !.despawn = TRUE] ELSE monitored[s]]
    /\ dead' = {monitored[s].cc : s \in condemned'}
    /\ tickPC' = "collectUnlock"
    /\ UNCHANGED <<seeds, pending, since, seeding, mainPC, joining, lag, ccVars>>

\* Slip: the unlock is deferred to the end of tick.
CollectKeepsLock ==
    /\ tickPC = "collectUnlock" /\ tickPC' = "teardown"
    /\ UNCHANGED <<rfssVars, dead, condemned, joining, lag, ccVars>>

CollectUnlock ==
    /\ tickPC = "collectUnlock"
    /\ mu' = "free" /\ tickPC' = "teardown"
    /\ UNCHANGED <<seeds, monitored, pending, since, seeding, mainPC,
                   dead, condemned, joining, lag, ccVars>>

TeardownDone ==
    /\ tickPC = "teardown" /\ dead = {}
    /\ tickPC' = IF condemned = {} THEN "wait" ELSE "remove"
    /\ lag' = IF condemned = {} THEN 0 ELSE lag
    /\ UNCHANGED <<rfssVars, dead, condemned, joining, ccVars>>

\* Slip: the entries of the sites torn down are left in r.monitored.
DeletedNone == {}

Deleted == condemned

\* The listed entries are dropped under r.mu; no one holds the closed CCs now.
RemoveDead ==
    /\ tickPC = "remove" /\ mu = "free"
    /\ monitored' = [s \in Sites |-> IF s \in Deleted THEN NoEntry ELSE monitored[s]]
    /\ condemned' = {}
    /\ Forget({c \in Decoders : life[c] = "closed"})
    /\ tickPC' = "wait" /\ lag' = 0
    /\ UNCHANGED <<mu, seeds, pending, since, seeding, mainPC, dead, joining, handling>>

-----------------------------------------------------------------------------
(* Time                                                                    *)

Older(age, max) == IF age < max THEN age + 1 ELSE max

TimePasses ==
    /\ tickPC \in {"wait", "stopped"} \/ lag < MaxLag
    /\ lag' = IF tickPC \in {"wait", "stopped"} THEN lag ELSE lag + 1
    /\ quiet' = [c \in Decoders |->
                   IF life[c] = "up" THEN Older(quiet[c], MaxQuiet) ELSE quiet[c]]
    /\ since' = [s \in Sites |->
                   IF pending[s] # NoEntry THEN Older(since[s], MaxWait) ELSE since[s]]
    /\ UNCHANGED <<mu, seeds, monitored, pending, seeding, mainPC,
                   tickPC, dead, condemned, joining, life, wired, heardNAC, active, handling>>

-----------------------------------------------------------------------------
Main   == SeedStart \/ SeedAppend
Pump(c) == DecodeNID(c) \/ DecodeTSBK(c) \/ OnSiteDiscover(c) \/ PumpExit(c)
Ticker == \/ TickFire \/ Cancel
          \/ BindPending \/ BindUnlock \/ ReapDone
          \/ CollectDead \/ CollectUnlock \/ TeardownDone \/ RemoveDead
          \/ (\E c \in Decoders : DespawnCall(c)) \/ DespawnReturn

Next == Main \/ Ticker \/ TimePasses \/ \E c \in Decoders : Pump(c)

Spec == Init /\ [][Next]_vars

\* The ticker goroutine keeps running, time passes, a pump asked to stop does,
\* and r.mu does not starve a waiter (sync.Mutex, hence strong fairness).
TickStep == \/ TickFire
            \/ BindPending \/ BindUnlock \/ ReapDone
            \/ CollectDead \/ CollectUnlock \/ TeardownDone \/ RemoveDead
            \/ (\E c \in Decoders : DespawnCall(c)) \/ DespawnReturn

FairSpec == /\ Spec
            /\ WF_vars(TickStep) /\ WF_vars(TimePasses)
            /\ \A c \in Decoders : SF_vars(OnSiteDiscover(c)) /\ WF_vars(PumpExit(c))
-----------------------------------------------------------------------------
(* Properties.                                                             *)

Registered == {monitored[s].cc : s \in MonitoredSites}
              \cup {pending[s].cc : s \in PendingSites}
              \cup {seeds[i].cc : i \in DOMAIN seeds}
              \cup {seeding}
Reaping    == IF tickPC \in {"bindUnlock", "reap"} THEN dead \cup {joining} ELSE {}

\* Every decoder the supervisor started and has not shut down is held by an
\* entry, by Seed, or by the ticker's list: none is lost with its channelizer
\* slot and its pump.  (rfss.go:153, 177-178, 184-185, 276)
NoLostDecoder ==
    \A c \in Decoders : life[c] # "off" => c \in Registered \cup Reaping

\* No decoder answers to two sites, to a site and a seed, or to a site and
\* the ticker's list of hopeless ones.
OneHolder ==
    /\ \A s, t \in Sites :
         /\ pending[s] # NoEntry /\ monitored[t] # NoEntry
                => s # t /\ pending[s].cc # monitored[t].cc
         /\ s # t /\ pending[s] # NoEntry /\ pending[t] # NoEntry
                => pending[s].cc # pending[t].cc
         /\ s # t /\ monitored[s] # NoEntry /\ monitored[t] # NoEntry
                => monitored[s].cc # monitored[t].cc
    /\ \A s \in MonitoredSites \cup PendingSites, i \in DOMAIN seeds :
         seeds[i].cc \notin ({monitored[s].cc : t \in MonitoredSites \cap {s}}
                             \cup {pending[s].cc : t \in PendingSites \cap {s}})
    /\ \A s \in Sites :
         /\ pending[s] # NoEntry => pending[s].cc \notin dead \cup {joining}
         /\ monitored[s] # NoEntry => monitored[s].cc \notin Reaping

\* DespawnCC is asked for decoders that run, each once: what the ticker still
\* has to tear down is up, and is no seed's (a seed is never despawned, 26).
TeardownOnce ==
    /\ \A c \in dead \ {joining} : life[c] = "up"
    /\ \A i \in DOMAIN seeds :
         seeds[i].cc # NoCC => seeds[i].cc \notin dead /\ life[seeds[i].cc] = "up"

\* While a followed site's decoder is being torn down its entry is still there
\* and flagged, so that no broadcast re-spawns the site (27-32, 247-248), and
\* what is deleted afterwards is that entry and no other.
DrainingKept ==
    \A s \in condemned :
       /\ monitored[s] # NoEntry /\ monitored[s].despawn
       /\ tickPC = "remove" => life[monitored[s].cc] = "closed"

\* The discovered sites alone never exceed the cap (141).
DiscoveredWithinCap ==
    Cardinality(MonitoredSites) + Cardinality(PendingSites) <= MaxSites

\* A pump that enters onSiteDiscover gets out of it, also while its own decoder
\* is being despawned (242-248): r.mu is never held across a join.
HandlerReturns ==
    \A c \in Decoders : handling[c] # NoBroadcast ~> handling[c] = NoBroadcast

\* A pending site is promoted or given up (158-160).
PendingResolved ==
    \A s \in Sites : pending[s] # NoEntry
                    ~> (pending[s] = NoEntry \/ tickPC = "stopped")

\* A flagged site is torn down and forgotten, so that it can be spawned again.
FlaggedReleased ==
    \A s \in Sites : (monitored[s] # NoEntry /\ monitored[s].despawn)
                    ~> (monitored[s] = NoEntry \/ tickPC = "stopped")

\* The abstract life of a site.
Phase(s) == IF pending[s] # NoEntry THEN "awaiting"
            ELSE IF monitored[s] = NoEntry THEN "absent"
            ELSE IF monitored[s].despawn THEN "draining" ELSE "followed"
DecoderOf(s) == IF pending[s] # NoEntry THEN pending[s].cc
                ELSE IF monitored[s] # NoEntry THEN monitored[s].cc ELSE NoCC

Lifecycle == INSTANCE SiteLifecycle WITH
               phase <- [s \in Sites |-> Phase(s)],
               decoder <- [s \in Sites |-> DecoderOf(s)],
               NoDecoder <- NoCC, Cap <- MaxSites

\* The supervisor, under every interleaving, does to each site only what the
\* life cycle allows.
ImplementsLifecycle == Lifecycle!LCSpec

-----------------------------------------------------------------------------
(* What rfss.go's comments say and the code does not do.                   *)

\* "... maxSites, which bounds the total number of concurrent CC decoders":
\* but a timed-out pending CC leaves the count before it is despawned, so that
\* more decoders run than are counted even when no trunk is being seeded.
RunningWithinCap ==
    mainPC = "start" /\ Count <= MaxSites
      => Cardinality({c \in Decoders : life[c] # "off"}) <= MaxSites

\* "A seed re-advertising its own CC is already permanently monitored" (108):
\* but its pump, and those of earlier seeds, run before Seed has appended it.
SeedNotDuplicated ==
    \A i \in DOMAIN seeds, s \in Sites :
        /\ pending[s] # NoEntry => pending[s].ccFreq # seeds[i].ccFreq
        /\ monitored[s] # NoEntry => monitored[s].ccFreq # seeds[i].ccFreq
=============================================================================
