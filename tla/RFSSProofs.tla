----------------------------- MODULE RFSSProofs -----------------------------
(***************************************************************************)
(* What holds of the RFSS supervisor for every number of sites, trunks and *)
(* decoders and every cap, with TLAPS proofs.  The inductive invariant     *)
(* says who holds which decoder in which phase of the ticker.              *)
(***************************************************************************)
EXTENDS RFSS, FiniteSetTheorems, TLAPS

\* r.mu is held across ticker steps only inside its two critical sections.
LockInv == mu = "ticker" <=> tickPC \in {"bindUnlock", "collectUnlock"}

\* The holders of decoders, and that no two of them hold the same.
SeedCC(i)  == seeds[i].cc
PendCC(s)  == pending[s].cc
MonCC(s)   == monitored[s].cc

SeedInv ==
    /\ \A i \in DOMAIN seeds : SeedCC(i) # NoCC => life[SeedCC(i)] = "up"
    /\ seeding # NoCC => life[seeding] = "up"
    /\ \A i \in DOMAIN seeds : seeding # NoCC => SeedCC(i) # seeding
    /\ \A i, j \in DOMAIN seeds : i # j /\ SeedCC(i) # NoCC => SeedCC(i) # SeedCC(j)

PendInv ==
    \A s \in Sites : pending[s] # NoEntry =>
       /\ life[PendCC(s)] = "up"
       /\ monitored[s] = NoEntry
       /\ \A t \in Sites \ {s} : pending[t] # NoEntry => PendCC(t) # PendCC(s)
       /\ \A t \in Sites : monitored[t] # NoEntry => MonCC(t) # PendCC(s)
       /\ \A i \in DOMAIN seeds : SeedCC(i) # PendCC(s)
       /\ seeding # PendCC(s)
       /\ PendCC(s) \notin dead

MonInv ==
    \A s \in Sites : monitored[s] # NoEntry =>
       /\ \A t \in Sites \ {s} : monitored[t] # NoEntry => MonCC(t) # MonCC(s)
       /\ \A i \in DOMAIN seeds : SeedCC(i) # MonCC(s)
       /\ seeding # MonCC(s)
       /\ MonCC(s) \in dead => s \in condemned
       /\ s \notin condemned => life[MonCC(s)] = "up"

\* What the ticker's lists hold, phase by phase.
DeadInv ==
    /\ tickPC \notin {"bindUnlock", "reap", "collectUnlock", "teardown"} => dead = {}
    /\ \A c \in dead : c # joining => life[c] = "up"
    /\ \A c \in dead : c # seeding /\ \A i \in DOMAIN seeds : SeedCC(i) # c
    /\ tickPC \in {"collectUnlock", "teardown"} =>
         \A c \in dead : \E s \in condemned : monitored[s] # NoEntry /\ MonCC(s) = c

CondemnedInv ==
    /\ tickPC \notin {"collectUnlock", "teardown", "remove"} => condemned = {}
    /\ \A s \in condemned :
         /\ monitored[s] # NoEntry /\ monitored[s].despawn
         /\ tickPC = "collectUnlock" => MonCC(s) \in dead
         /\ MonCC(s) \notin dead => life[MonCC(s)] = "closed"

JoinInv ==
    /\ joining # NoCC => /\ tickPC \in {"reap", "teardown"}
                         /\ joining \in dead
                         /\ life[joining] \in {"closing", "closed"}
    /\ \A c \in Decoders : life[c] = "closing" => c = joining
    /\ \A c \in Decoders : life[c] = "closed" =>
         \/ c = joining
         \/ \E s \in condemned : monitored[s] # NoEntry /\ MonCC(s) = c

CapInv == Cardinality(MonitoredSites \cup PendingSites) <= MaxSites

IInv == /\ TypeOK /\ LockInv /\ SeedInv /\ PendInv /\ MonInv
        /\ DeadInv /\ CondemnedInv /\ JoinInv /\ CapInv

-----------------------------------------------------------------------------
\* A health update keeps an entry an entry: an unresolved frequency is not stored.
LEMMA RefreshType ==
  ASSUME NEW ms \in MonitoredSite, NEW d \in SiteDiscovery
  PROVE  Refresh(ms, d) \in MonitoredSite
BY DEF Refresh, MonitoredSite, SiteDiscovery, Condemns

\* The types hold at the start...
LEMMA TypeInit == Init => TypeOK
BY ParamsOK DEF Init, TypeOK, MaxQuiet, MaxWait, TickPCs

\* ... and every step keeps them.
LEMMA TypeStep == TypeOK /\ [Next]_vars => TypeOK'
<1> SUFFICES ASSUME TypeOK, [Next]_vars PROVE TypeOK'
  OBVIOUS
<1> USE ParamsOK, NoEntryOK DEF TypeOK, rfssVars, tickVars, ccVars, TickPCs
<1>1. CASE SeedStart
  BY <1>1 DEF SeedStart, SpawnCC, NoSpawn
<1>2. CASE SeedAppend
  BY <1>2 DEF SeedAppend, SeedSite
<1>3. ASSUME NEW c \in Decoders, DecodeNID(c) PROVE TypeOK'
  BY <1>3 DEF DecodeNID
<1>4. ASSUME NEW c \in Decoders, DecodeTSBK(c) PROVE TypeOK'
  <2>1. /\ active' \in [Decoders -> BOOLEAN]
        /\ quiet' \in [Decoders -> 0..MaxQuiet]
    BY <1>4 DEF DecodeTSBK, MaxQuiet
  <2>2. handling' \in [Decoders -> Broadcasts \cup {NoBroadcast}]
    BY <1>4 DEF DecodeTSBK
  <2> QED
    BY <1>4, <2>1, <2>2 DEF DecodeTSBK
<1>5. ASSUME NEW c \in Decoders, OnSiteDiscover(c) PROVE TypeOK'
  <2> DEFINE d == handling[c]
  <2>1. d \in SiteDiscovery
    BY <1>5 DEF OnSiteDiscover
  <2>2. CASE UpdateMonitored(d)
    <3>1. monitored[d.Site] \in MonitoredSite /\ d.Site \in Sites
      BY <2>1, <2>2 DEF UpdateMonitored, SiteDiscovery
    <3>2. Refresh(monitored[d.Site], d) \in MonitoredSite
      BY <3>1, <2>1, RefreshType
    <3>3. monitored' \in [Sites -> MonitoredSite \cup {NoEntry}]
      BY <2>2, <3>1, <3>2 DEF UpdateMonitored
    <3> QED
      BY <1>5, <2>2, <3>3 DEF OnSiteDiscover, UpdateMonitored, NoSpawn
  <2>3. ASSUME NEW n \in Decoders, SpawnPending(d, n) PROVE TypeOK'
    BY <1>5, <2>1, <2>3 DEF OnSiteDiscover, SpawnPending, SpawnCC, Eligible, SiteDiscovery, PendingSite
  <2>4. CASE LeaveUnspawned(d)
    BY <1>5, <2>4 DEF OnSiteDiscover, LeaveUnspawned, NoSpawn
  <2>5. CASE FromSeed(d)
    BY <1>5, <2>5 DEF OnSiteDiscover, NoSpawn
  <2> QED
    BY <1>5, <2>2, <2>3, <2>4, <2>5 DEF OnSiteDiscover
<1>6. ASSUME NEW c \in Decoders, PumpExit(c) PROVE TypeOK'
  BY <1>6 DEF PumpExit
<1>7. CASE TickFire
  BY <1>7 DEF TickFire
<1>8. CASE Cancel
  BY <1>8 DEF Cancel
<1>9. CASE BindPending
  BY <1>9 DEF BindPending, MonitoredSite, PendingSite, Bindable, Resolved, HopelessCCs, MaxWait, Hopeless
<1>10. CASE BindUnlock
  BY <1>10 DEF BindUnlock
<1>11. ASSUME NEW c \in Decoders, DespawnCall(c) PROVE TypeOK'
  BY <1>11 DEF DespawnCall
<1>12. CASE DespawnReturn
  BY <1>12 DEF DespawnReturn, Forget, MaxQuiet
<1>13. CASE ReapDone
  BY <1>13 DEF ReapDone
<1>14. CASE CollectDead
  <2>1. \A s \in Sites : Listed(s) =>
           [monitored[s] EXCEPT !.despawn = TRUE] \in MonitoredSite
    BY DEF Listed, MonitoredSite
  <2>2. monitored' \in [Sites -> MonitoredSite \cup {NoEntry}]
    BY <1>14, <2>1 DEF CollectDead
  <2>3. dead' \in SUBSET Decoders
    BY <1>14 DEF CollectDead, Listed, MonitoredSite
  <2> QED
    BY <1>14, <2>2, <2>3 DEF CollectDead
<1>15. CASE CollectUnlock
  BY <1>15 DEF CollectUnlock
<1>16. CASE TeardownDone
  BY <1>16 DEF TeardownDone
<1>17. CASE RemoveDead
  BY <1>17 DEF RemoveDead, Forget, MaxQuiet
<1>18. CASE TimePasses
  BY <1>18 DEF TimePasses, Older, MaxQuiet, MaxWait
<1>19. CASE UNCHANGED vars
  BY <1>19 DEF vars
<1> QED
  BY <1>1, <1>2, <1>3, <1>4, <1>5, <1>6, <1>7, <1>8, <1>9, <1>10, <1>11, <1>12, <1>13, <1>14, <1>15, <1>16, <1>17, <1>18, <1>19 DEF Next, Main, Pump, Ticker

\* Every variable keeps to its type (RFSS.TypeOK).
THEOREM TypeInv == Spec => []TypeOK
BY TypeInit, TypeStep, PTL DEF Spec
-----------------------------------------------------------------------------
(* The inductive invariant.                                                *)

\* The variables that the invariant speaks of.
holderVars == <<mu, seeds, monitored, pending, seeding, tickPC, dead, condemned,
                joining, life>>

\* A step that changes none of the variables IInv speaks of.
LEMMA HoldersSame ==
  ASSUME IInv, UNCHANGED holderVars, TypeOK'
  PROVE  IInv'
<1> USE DEF IInv, holderVars, SeedCC, PendCC, MonCC
<1>1. LockInv'
  BY DEF LockInv
<1>2. SeedInv'
  BY DEF SeedInv
<1>3. PendInv'
  BY DEF PendInv
<1>4. MonInv'
  BY DEF MonInv
<1>5. DeadInv'
  BY DEF DeadInv
<1>6. CondemnedInv'
  BY DEF CondemnedInv
<1>7. JoinInv'
  BY DEF JoinInv
<1>8. CapInv'
  BY DEF CapInv, MonitoredSites, PendingSites
<1> QED
  BY <1>1, <1>2, <1>3, <1>4, <1>5, <1>6, <1>7, <1>8

\* A step that may change the frequency of entries, or flag them, and nothing
\* else that the invariant speaks of.
LEMMA EntriesSame ==
  ASSUME IInv, TypeOK',
         UNCHANGED <<mu, seeds, pending, seeding, tickPC, dead, condemned, joining, life>>,
         \A s \in Sites : monitored'[s] = NoEntry <=> monitored[s] = NoEntry,
         \A s \in Sites : monitored[s] # NoEntry => MonCC(s)' = MonCC(s),
         \A s \in condemned : monitored'[s] = monitored[s]
  PROVE  IInv'
<1> USE DEF IInv
<1>1. LockInv'
  BY DEF LockInv
<1>2. SeedInv'
  BY DEF SeedInv, SeedCC
<1>3. PendInv'
  BY DEF PendInv, PendCC, SeedCC
<1>4. MonInv'
  BY DEF MonInv, SeedCC
<1>5. DeadInv'
  BY DEF DeadInv, SeedCC, TypeOK
<1>6. CondemnedInv'
  BY DEF CondemnedInv, TypeOK
<1>7. JoinInv'
  BY DEF JoinInv, TypeOK
<1>8. MonitoredSites' = MonitoredSites /\ PendingSites' = PendingSites
  BY DEF MonitoredSites, PendingSites
<1>9. CapInv'
  BY <1>8 DEF CapInv
<1> QED
  BY <1>1, <1>2, <1>3, <1>4, <1>5, <1>6, <1>7, <1>9

\* What the types say of the handles.
LEMMA HandleTypes ==
  ASSUME TypeOK
  PROVE  /\ \A s \in Sites : monitored[s] # NoEntry => MonCC(s) \in Decoders
         /\ \A s \in Sites : pending[s] # NoEntry => PendCC(s) \in Decoders
         /\ \A i \in DOMAIN seeds : SeedCC(i) \in Decoders \cup {NoCC}
         /\ DOMAIN seeds = 1..Len(seeds)
<1>1. \A s \in Sites : monitored[s] # NoEntry => MonCC(s) \in Decoders
  BY DEF TypeOK, MonCC, MonitoredSite
<1>2. \A s \in Sites : pending[s] # NoEntry => PendCC(s) \in Decoders
  BY DEF TypeOK, PendCC, PendingSite
<1>3. DOMAIN seeds = 1..Len(seeds)
  BY DEF TypeOK
<1>4. \A i \in DOMAIN seeds : SeedCC(i) \in Decoders \cup {NoCC}
  <2>1. \A i \in 1..Len(seeds) : seeds[i] \in SeedSite
    BY DEF TypeOK
  <2> QED
    BY <2>1, <1>3 DEF SeedCC, SeedSite
<1> QED
  BY <1>1, <1>2, <1>3, <1>4

\* Nothing is held at the start.
LEMMA IInvInit == Init => IInv
<1> SUFFICES ASSUME Init PROVE IInv
  OBVIOUS
<1>1. TypeOK
  BY TypeInit
<1>2. MonitoredSites = {} /\ PendingSites = {}
  BY DEF Init, MonitoredSites, PendingSites
<1>3. CapInv
  BY <1>2, FS_EmptySet, ParamsOK DEF CapInv
<1> QED
  BY <1>1, <1>3 DEF Init, IInv, LockInv, SeedInv, PendInv, MonInv, DeadInv,
                    CondemnedInv, JoinInv

\* Nobody holds a decoder that is off.
LEMMA OffIsFree ==
  ASSUME IInv, NEW c \in Decoders, life[c] = "off"
  PROVE  /\ \A s \in Sites : monitored[s] # NoEntry => MonCC(s) # c
         /\ \A s \in Sites : pending[s] # NoEntry => PendCC(s) # c
         /\ \A i \in DOMAIN seeds : SeedCC(i) # c
         /\ seeding # c /\ c \notin dead /\ joining # c
<1> USE ParamsOK DEF IInv
<1>1. \A s \in Sites : pending[s] # NoEntry => PendCC(s) # c
  BY DEF PendInv
<1>2. (\A i \in DOMAIN seeds : SeedCC(i) # c) /\ seeding # c
  BY DEF SeedInv
<1>3. c \notin dead /\ joining # c
  BY DEF DeadInv, JoinInv
<1>4. \A s \in Sites : monitored[s] # NoEntry => MonCC(s) # c
  BY <1>3 DEF MonInv, CondemnedInv
<1> QED
  BY <1>1, <1>2, <1>3, <1>4

\* Sets of sites are finite.
LEMMA SubFinite ==
  \A S \in SUBSET Sites : IsFiniteSet(S) /\ Cardinality(S) \in Nat
BY ParamsOK, FS_Subset, FS_CardinalityType

\* A subset counts no more.
LEMMA SubMono ==
  ASSUME NEW T \in SUBSET Sites, NEW S \in SUBSET T
  PROVE  Cardinality(S) <= Cardinality(T)
BY SubFinite, FS_Subset

\* With room, one more site still fits.
LEMMA RoomForOne ==
  ASSUME TypeOK, Room, NEW s \in Sites
  PROVE  Cardinality(MonitoredSites \cup (PendingSites \cup {s})) <= MaxSites
<1> DEFINE M == MonitoredSites
           P == PendingSites
<1>1. M \in SUBSET Sites /\ P \in SUBSET Sites
  BY DEF MonitoredSites, PendingSites
<1>2. /\ IsFiniteSet(M) /\ IsFiniteSet(P) /\ IsFiniteSet(M \cup P)
      /\ Cardinality(M) \in Nat /\ Cardinality(P) \in Nat
      /\ Cardinality(M \cup P) \in Nat /\ Cardinality(M \cap P) \in Nat
  BY <1>1, SubFinite
<1>3. Len(seeds) + Cardinality(M) + Cardinality(P) < MaxSites
  BY DEF Room, Count
<1>4. Len(seeds) \in Nat /\ MaxSites \in Nat
  BY ParamsOK DEF TypeOK
<1> HIDE DEF M, P
<1>5. Cardinality(M \cup P) = Cardinality(M) + Cardinality(P) - Cardinality(M \cap P)
  BY <1>2, FS_Union
<1>6. Cardinality((M \cup P) \cup {s}) \in {Cardinality(M \cup P), Cardinality(M \cup P) + 1}
  BY <1>2, FS_AddElement
<1>7. (M \cup P) \cup {s} = M \cup (P \cup {s})
  OBVIOUS
<1>8. Cardinality(M \cup P) + 1 <= MaxSites
  BY <1>2, <1>3, <1>4, <1>5
<1>9. Cardinality((M \cup P) \cup {s}) <= MaxSites
  BY <1>2, <1>4, <1>6, <1>8
<1> QED
  BY <1>7, <1>9 DEF M, P

\* A fresh decoder for an absent site, with room for it.
LEMMA SpawnPendingStep ==
  ASSUME IInv, NEW d \in SiteDiscovery, NEW n \in Decoders, SpawnPending(d, n),
         UNCHANGED <<mu, seeds, seeding, tickPC, dead, condemned, joining>>, TypeOK'
  PROVE  IInv'
<1>1. d.Site \in Sites /\ d.CCFreq \in Freqs
  BY DEF SiteDiscovery, SpawnPending, Eligible
<1>2. /\ UNCHANGED monitored
      /\ life[n] = "off" /\ life' = [life EXCEPT ![n] = "up"]
      /\ pending' = [pending EXCEPT ![d.Site] = [ccFreq |-> d.CCFreq, cc |-> n]]
      /\ monitored[d.Site] = NoEntry /\ pending[d.Site] = NoEntry
      /\ Room
  BY DEF SpawnPending, SpawnCC, Absent, Eligible
<1>3. [ccFreq |-> d.CCFreq, cc |-> n] # NoEntry
  BY <1>1, NoEntryOK DEF PendingSite
<1>4. /\ \A s \in Sites \ {d.Site} : pending'[s] = pending[s] /\ PendCC(s)' = PendCC(s)
      /\ pending'[d.Site] # NoEntry /\ PendCC(d.Site)' = n
  BY <1>1, <1>2, <1>3 DEF IInv, TypeOK, PendCC
<1>5. /\ life'[n] = "up"
      /\ \A c \in Decoders \ {n} : life'[c] = life[c]
  BY <1>2 DEF IInv, TypeOK
<1>6. /\ \A s \in Sites : MonCC(s)' = MonCC(s)
      /\ \A i \in DOMAIN seeds : SeedCC(i)' = SeedCC(i)
  BY <1>2 DEF MonCC, SeedCC
<1>7. /\ \A s \in Sites : monitored[s] # NoEntry => MonCC(s) # n
      /\ \A s \in Sites : pending[s] # NoEntry => PendCC(s) # n
      /\ \A i \in DOMAIN seeds : SeedCC(i) # n
      /\ seeding # n /\ n \notin dead /\ joining # n
  BY <1>2, OffIsFree
<1>8. /\ \A s \in Sites : monitored[s] # NoEntry => MonCC(s) \in Decoders
      /\ \A s \in Sites : pending[s] # NoEntry => PendCC(s) \in Decoders
      /\ \A i \in DOMAIN seeds : SeedCC(i) \in Decoders \cup {NoCC}
      /\ seeding \in Decoders \cup {NoCC} /\ dead \subseteq Decoders
      /\ joining \in Decoders \cup {NoCC} /\ condemned \subseteq Sites
  BY HandleTypes DEF IInv, TypeOK
<1>9. LockInv' /\ SeedInv'
  BY <1>5, <1>6, <1>7, <1>8 DEF IInv, LockInv, SeedInv
<1>10. PendInv'
  BY <1>1, <1>2, <1>4, <1>5, <1>6, <1>7, <1>8 DEF IInv, PendInv
<1>11. MonInv'
  BY <1>2, <1>5, <1>6, <1>7, <1>8 DEF IInv, MonInv
<1>12. DeadInv'
  BY <1>2, <1>5, <1>6, <1>7, <1>8 DEF IInv, DeadInv
<1>13. CondemnedInv'
  BY <1>2, <1>5, <1>6, <1>7, <1>8 DEF IInv, CondemnedInv
<1>14. JoinInv'
  BY <1>2, <1>5, <1>6, <1>7, <1>8, ParamsOK DEF IInv, JoinInv
<1>15. MonitoredSites' = MonitoredSites /\ PendingSites' = PendingSites \cup {d.Site}
  BY <1>1, <1>2, <1>4 DEF MonitoredSites, PendingSites
<1>16. CapInv'
  BY <1>1, <1>2, <1>15, RoomForOne DEF IInv, CapInv
<1> QED
  BY <1>9, <1>10, <1>11, <1>12, <1>13, <1>14, <1>16 DEF IInv

\* The trunk's decoder is fresh: nobody holds an "off" one.
LEMMA SeedStartStep ==
  ASSUME IInv, SeedStart, TypeOK'
  PROVE  IInv'
<1> USE HandleTypes, ParamsOK DEF IInv, SeedStart, tickVars
<1>1. LockInv'
  BY DEF LockInv
<1>2. CapInv'
  BY DEF CapInv, MonitoredSites, PendingSites
<1>3. CASE seeding' = NoCC /\ NoSpawn
  BY <1>1, <1>2, <1>3 DEF NoSpawn, SeedInv, PendInv, MonInv, DeadInv, CondemnedInv,
                          JoinInv, TypeOK, SeedCC, PendCC, MonCC
<1>4. ASSUME NEW c \in Decoders, SpawnCC(c, TRUE), seeding' = c
      PROVE  IInv'
  <2> USE <1>4 DEF SpawnCC, TypeOK
  <2>1. /\ \A s \in Sites : monitored[s] # NoEntry => MonCC(s) # c
        /\ \A s \in Sites : pending[s] # NoEntry => PendCC(s) # c
        /\ \A i \in DOMAIN seeds : SeedCC(i) # c
        /\ c \notin dead /\ joining # c
    BY DEF SeedInv, PendInv, MonInv, DeadInv, CondemnedInv, JoinInv
  <2>2. SeedInv'
    BY <2>1 DEF SeedInv, SeedCC
  <2>3. PendInv'
    BY <2>1 DEF PendInv, PendCC, MonCC, SeedCC
  <2>4. MonInv'
    BY <2>1 DEF MonInv, MonCC, SeedCC
  <2>5. DeadInv'
    BY <2>1 DEF DeadInv, MonCC, SeedCC
  <2>6. CondemnedInv'
    BY <2>1 DEF CondemnedInv, MonCC
  <2>7. JoinInv'
    BY <2>1 DEF JoinInv, MonCC
  <2> QED
    BY <1>1, <1>2, <2>2, <2>3, <2>4, <2>5, <2>6, <2>7
<1> QED
  BY <1>3, <1>4

\* The started decoder becomes the seed's, or nothing does.
LEMMA SeedAppendStep ==
  ASSUME IInv, SeedAppend, TypeOK'
  PROVE  IInv'
<1> USE HandleTypes, ParamsOK DEF IInv, SeedAppend, tickVars, ccVars, TypeOK
<1>1. /\ DOMAIN seeds' = 1..(Len(seeds) + 1)
      /\ \A i \in DOMAIN seeds : seeds'[i] = seeds[i]
      /\ seeds'[Len(seeds) + 1].cc = seeding
  BY DEF SeedSite
<1>2. \A i \in DOMAIN seeds' : i \in DOMAIN seeds \/ i = Len(seeds) + 1
  BY <1>1
<1>3. LockInv'
  BY DEF LockInv
<1>4. CapInv'
  BY DEF CapInv, MonitoredSites, PendingSites
<1>5. SeedInv'
  BY <1>1, <1>2 DEF SeedInv, SeedCC
<1>6. PendInv'
  BY <1>1, <1>2 DEF PendInv, PendCC, MonCC, SeedCC
<1>7. MonInv'
  BY <1>1, <1>2 DEF MonInv, MonCC, SeedCC
<1>8. DeadInv'
  BY <1>1, <1>2 DEF DeadInv, MonCC, SeedCC
<1>9. CondemnedInv' /\ JoinInv'
  BY DEF CondemnedInv, JoinInv, MonCC
<1> QED
  BY <1>3, <1>4, <1>5, <1>6, <1>7, <1>8, <1>9

\* The entry of a site that is monitored already keeps its decoder, and its
\* flag once it has one; a new entry takes a fresh decoder and the last room.
LEMMA OnSiteDiscoverStep ==
  ASSUME IInv, NEW c \in Decoders, OnSiteDiscover(c), TypeOK'
  PROVE  IInv'
<1> USE HandleTypes, ParamsOK, NoEntryOK DEF IInv, OnSiteDiscover, tickVars, TypeOK
<1> DEFINE d == handling[c]
<1>1. d \in SiteDiscovery /\ d.Site \in Sites
  BY DEF SiteDiscovery
<1>2. UNCHANGED <<mu, seeds, seeding, tickPC, dead, condemned, joining>>
  OBVIOUS
<1>3. LockInv'
  BY <1>2 DEF LockInv
<1>4. CASE UNCHANGED <<monitored, pending, since>> /\ NoSpawn
  BY <1>2, <1>4, HoldersSame DEF holderVars, NoSpawn
<1>5. CASE UpdateMonitored(d)
  <2> USE <1>2, <1>5 DEF UpdateMonitored, NoSpawn
  <2>1. CASE monitored[d.Site].despawn
    BY <2>1, HoldersSame DEF holderVars
  <2>2. CASE ~monitored[d.Site].despawn
    <3>1. monitored[d.Site] \in MonitoredSite
      BY <1>1
    <3>2. Refresh(monitored[d.Site], d) \in MonitoredSite
      BY <1>1, <3>1, RefreshType
    <3>3. Refresh(monitored[d.Site], d).cc = monitored[d.Site].cc
      BY <3>1 DEF Refresh, MonitoredSite
    <3>4. /\ monitored' \in [Sites -> MonitoredSite \cup {NoEntry}]
          /\ \A s \in Sites : monitored'[s] = IF s = d.Site
                THEN Refresh(monitored[s], d) ELSE monitored[s]
      BY <2>2, <1>1, <3>2
    <3>5. /\ \A s \in Sites : (monitored'[s] = NoEntry) <=> (monitored[s] = NoEntry)
          /\ \A s \in Sites : monitored[s] # NoEntry => monitored'[s].cc = monitored[s].cc
          /\ \A s \in condemned : monitored'[s] = monitored[s]
      BY <2>2, <3>2, <3>3, <3>4 DEF CondemnedInv
    <3> QED
      BY <3>5, EntriesSame DEF MonCC
  <2> QED
    BY <2>1, <2>2
<1>6. ASSUME NEW n \in Decoders, SpawnPending(d, n) PROVE IInv'
  BY <1>1, <1>2, <1>6, SpawnPendingStep
<1>7. CASE LeaveUnspawned(d)
  BY <1>2, <1>7, HoldersSame DEF LeaveUnspawned, NoSpawn, holderVars
<1> QED
  BY <1>4, <1>5, <1>6, <1>7

\* A pump that ends closes the decoder the ticker is joining.
LEMMA PumpExitStep ==
  ASSUME IInv, NEW c \in Decoders, PumpExit(c), TypeOK'
  PROVE  IInv'
<1> USE HandleTypes, ParamsOK DEF IInv, PumpExit, rfssVars, tickVars, TypeOK
<1>1. c = joining /\ joining \in dead
  BY DEF JoinInv
<1>2. /\ LockInv' /\ CapInv'
  BY DEF LockInv, CapInv, MonitoredSites, PendingSites
<1>3. SeedInv' /\ PendInv'
  BY <1>1 DEF SeedInv, PendInv, DeadInv, PendCC, MonCC, SeedCC
<1>4. MonInv'
  BY <1>1 DEF MonInv, MonCC, SeedCC
<1>5. DeadInv'
  BY <1>1 DEF DeadInv, MonCC, SeedCC
<1>6. CondemnedInv'
  BY <1>1 DEF CondemnedInv, MonCC
<1>7. JoinInv'
  BY <1>1 DEF JoinInv, MonCC
<1> QED
  BY <1>2, <1>3, <1>4, <1>5, <1>6, <1>7

\* Bound entries move to r.monitored with their decoders; those of the sites
\* given up go to the ticker's list.
LEMMA BindPendingStep ==
  ASSUME IInv, BindPending, TypeOK'
  PROVE  IInv'
<1>1. /\ tickPC = "bind" /\ tickPC' = "bindUnlock" /\ mu' = "ticker"
      /\ UNCHANGED <<seeds, seeding, condemned, joining, life>>
  BY DEF BindPending
<1>2. dead = {} /\ condemned = {} /\ joining = NoCC
  BY <1>1 DEF IInv, DeadInv, CondemnedInv, JoinInv
<1>3. /\ \A s \in Sites : monitored[s] # NoEntry => MonCC(s) \in Decoders
      /\ \A s \in Sites : pending[s] # NoEntry => PendCC(s) \in Decoders
      /\ \A i \in DOMAIN seeds : SeedCC(i) \in Decoders \cup {NoCC}
      /\ seeding \in Decoders \cup {NoCC}
  BY HandleTypes DEF IInv, TypeOK
<1>4. \A s \in Sites : /\ ~(Bindable(s) /\ Hopeless(s))
                       /\ Bindable(s) => pending[s] # NoEntry
                       /\ Hopeless(s) => pending[s] # NoEntry
                       /\ Resolved(s) <=> Bindable(s) \/ Hopeless(s)
  BY DEF Bindable, Hopeless, Resolved
<1>5. \A s \in Sites : Bindable(s) =>
         monitored'[s] # NoEntry /\ MonCC(s)' = PendCC(s) /\ pending'[s] = NoEntry
  <2> SUFFICES ASSUME NEW s \in Sites, Bindable(s)
               PROVE  monitored'[s] # NoEntry /\ MonCC(s)' = PendCC(s) /\ pending'[s] = NoEntry
    OBVIOUS
  <2>1. monitored'[s] = [ccFreq |-> pending[s].ccFreq, cc |-> pending[s].cc, despawn |-> FALSE]
    BY DEF BindPending
  <2>2. pending[s] \in PendingSite
    BY <1>4 DEF IInv, TypeOK
  <2>3. monitored'[s] \in MonitoredSite
    BY <2>1, <2>2 DEF PendingSite, MonitoredSite
  <2>4. pending'[s] = NoEntry
    BY <1>4 DEF BindPending
  <2>5. monitored'[s] # NoEntry
    BY <2>3, NoEntryOK
  <2>6. MonCC(s)' = PendCC(s)
    BY <2>1 DEF MonCC, PendCC
  <2> QED
    BY <2>4, <2>5, <2>6
<1>6. \A s \in Sites : ~Bindable(s) => monitored'[s] = monitored[s] /\ MonCC(s)' = MonCC(s)
  BY DEF BindPending, MonCC
<1>7. \A s \in Sites : Hopeless(s) => pending'[s] = NoEntry
  BY <1>4 DEF BindPending
<1>8. \A s \in Sites : ~Resolved(s) => pending'[s] = pending[s] /\ PendCC(s)' = PendCC(s)
  BY DEF BindPending, PendCC
<1>9. dead' = {PendCC(s) : s \in {t \in Sites : Hopeless(t)}}
  BY DEF BindPending, HopelessCCs, PendCC
<1>10. \A i \in DOMAIN seeds : SeedCC(i)' = SeedCC(i)
  BY <1>1 DEF SeedCC
<1>11. LockInv' /\ SeedInv'
  BY <1>1, <1>10 DEF IInv, LockInv, SeedInv
<1>12. PendInv'
  <2> SUFFICES ASSUME NEW s \in Sites, pending'[s] # NoEntry
               PROVE  /\ life'[PendCC(s)'] = "up"
                      /\ monitored'[s] = NoEntry
                      /\ \A t \in Sites \ {s} : pending'[t] # NoEntry => PendCC(t)' # PendCC(s)'
                      /\ \A t \in Sites : monitored'[t] # NoEntry => MonCC(t)' # PendCC(s)'
                      /\ \A i \in DOMAIN seeds' : SeedCC(i)' # PendCC(s)'
                      /\ seeding' # PendCC(s)'
                      /\ PendCC(s)' \notin dead'
    BY DEF PendInv
  <2>1. ~Resolved(s) /\ pending[s] # NoEntry /\ PendCC(s)' = PendCC(s)
    BY <1>4, <1>5, <1>7, <1>8
  <2>2. /\ life'[PendCC(s)'] = "up" /\ monitored'[s] = NoEntry
        /\ \A i \in DOMAIN seeds' : SeedCC(i)' # PendCC(s)'
        /\ seeding' # PendCC(s)'
    BY <1>1, <1>4, <1>6, <1>10, <2>1 DEF IInv, PendInv
  <2>3. \A t \in Sites \ {s} : pending'[t] # NoEntry => PendCC(t)' # PendCC(s)'
    BY <1>4, <1>5, <1>7, <1>8, <2>1 DEF IInv, PendInv
  <2>4. \A t \in Sites : monitored'[t] # NoEntry => MonCC(t)' # PendCC(s)'
    BY <1>4, <1>5, <1>6, <2>1 DEF IInv, PendInv
  <2>5. PendCC(s)' \notin dead'
    BY <1>4, <1>9, <2>1 DEF IInv, PendInv
  <2> QED
    BY <2>2, <2>3, <2>4, <2>5
<1>13. MonInv'
  <2> SUFFICES ASSUME NEW s \in Sites, monitored'[s] # NoEntry
               PROVE  /\ \A t \in Sites \ {s} : monitored'[t] # NoEntry => MonCC(t)' # MonCC(s)'
                      /\ \A i \in DOMAIN seeds' : SeedCC(i)' # MonCC(s)'
                      /\ seeding' # MonCC(s)'
                      /\ MonCC(s)' \notin dead'
                      /\ life'[MonCC(s)'] = "up"
    BY DEF MonInv
  <2>1. CASE Bindable(s)
    BY <1>1, <1>4, <1>5, <1>6, <1>9, <1>10, <2>1 DEF IInv, PendInv
  <2>2. CASE ~Bindable(s)
    <3>1. monitored[s] # NoEntry /\ MonCC(s)' = MonCC(s)
      BY <1>6, <2>2
    <3>2. \A t \in Sites \ {s} : monitored'[t] # NoEntry => MonCC(t)' # MonCC(s)'
      BY <1>4, <1>5, <1>6, <3>1 DEF IInv, PendInv, MonInv
    <3>3. MonCC(s)' \notin dead'
      BY <1>4, <1>9, <3>1 DEF IInv, PendInv
    <3> QED
      BY <1>1, <1>2, <1>10, <3>1, <3>2, <3>3 DEF IInv, MonInv
  <2> QED
    BY <2>1, <2>2
<1>14. DeadInv'
  BY <1>1, <1>4, <1>9, <1>10 DEF IInv, DeadInv, PendInv
<1>15. CondemnedInv'
  BY <1>1, <1>2 DEF CondemnedInv
<1>16. JoinInv'
  BY <1>1, <1>2, ParamsOK DEF IInv, JoinInv
<1>17. CapInv'
  <2>1. (MonitoredSites \cup PendingSites)' \subseteq MonitoredSites \cup PendingSites
    BY <1>4, <1>5, <1>6, <1>7, <1>8 DEF MonitoredSites, PendingSites
  <2>2. MonitoredSites \cup PendingSites \in SUBSET Sites
    BY DEF MonitoredSites, PendingSites
  <2>3. Cardinality((MonitoredSites \cup PendingSites)') <= Cardinality(MonitoredSites \cup PendingSites)
    BY <2>1, <2>2, SubMono
  <2>4. (MonitoredSites \cup PendingSites)' \in SUBSET Sites
    BY <2>1, <2>2
  <2> QED
    BY <2>2, <2>3, <2>4, SubFinite, ParamsOK DEF IInv, CapInv
<1> QED
  BY <1>11, <1>12, <1>13, <1>14, <1>15, <1>16, <1>17 DEF IInv

\* The unlock hands nothing over.
LEMMA BindUnlockStep ==
  ASSUME IInv, BindUnlock, TypeOK'
  PROVE  IInv'
<1> USE DEF IInv, BindUnlock, ccVars
<1>1. LockInv' /\ SeedInv' /\ PendInv' /\ MonInv'
  BY DEF LockInv, SeedInv, PendInv, MonInv, SeedCC, PendCC, MonCC
<1>2. DeadInv' /\ CondemnedInv' /\ JoinInv'
  BY DEF DeadInv, CondemnedInv, JoinInv, SeedCC, MonCC
<1>3. CapInv'
  BY DEF CapInv, MonitoredSites, PendingSites
<1> QED
  BY <1>1, <1>2, <1>3

\* The ticker takes one decoder of its lists to join it.
LEMMA DespawnCallStep ==
  ASSUME IInv, NEW c \in Decoders, DespawnCall(c), TypeOK'
  PROVE  IInv'
<1>1. /\ tickPC \in {"reap", "teardown"} /\ joining = NoCC /\ c \in dead
      /\ joining' = c
      /\ UNCHANGED <<mu, seeds, monitored, pending, seeding, tickPC, dead, condemned>>
  BY DEF DespawnCall, rfssVars
<1>2. /\ life'[c] = "closing"
      /\ \A n \in Decoders \ {c} : life'[n] = life[n]
  BY DEF DespawnCall, IInv, TypeOK
<1>3. /\ \A s \in Sites : monitored[s] # NoEntry => MonCC(s) \in Decoders
      /\ \A s \in Sites : pending[s] # NoEntry => PendCC(s) \in Decoders
      /\ \A i \in DOMAIN seeds : SeedCC(i) \in Decoders \cup {NoCC}
      /\ seeding \in Decoders \cup {NoCC} /\ dead \subseteq Decoders /\ condemned \subseteq Sites
  BY HandleTypes DEF IInv, TypeOK
<1>4. /\ \A s \in Sites : MonCC(s)' = MonCC(s) /\ PendCC(s)' = PendCC(s)
      /\ \A i \in DOMAIN seeds : SeedCC(i)' = SeedCC(i)
  BY <1>1 DEF MonCC, PendCC, SeedCC
<1>5. LockInv' /\ CapInv'
  BY <1>1 DEF IInv, LockInv, CapInv, MonitoredSites, PendingSites
<1>6. SeedInv'
  BY <1>1, <1>2, <1>3, <1>4 DEF IInv, SeedInv, DeadInv
<1>7. PendInv'
  BY <1>1, <1>2, <1>3, <1>4 DEF IInv, PendInv
<1>8. MonInv'
  BY <1>1, <1>2, <1>3, <1>4 DEF IInv, MonInv
<1>9. DeadInv'
  BY <1>1, <1>2, <1>3, <1>4, ParamsOK DEF IInv, DeadInv
<1>10. CondemnedInv'
  BY <1>1, <1>2, <1>3, <1>4 DEF IInv, CondemnedInv
<1>11. JoinInv'
  BY <1>1, <1>2, <1>3, <1>4, ParamsOK DEF IInv, JoinInv, CondemnedInv
<1> QED
  BY <1>5, <1>6, <1>7, <1>8, <1>9, <1>10, <1>11 DEF IInv

\* A joined decoder is closed and nobody's, save its entry's until the deletion.
LEMMA DespawnReturnStep ==
  ASSUME IInv, DespawnReturn, TypeOK'
  PROVE  IInv'
<1> DEFINE c == joining
<1>1. /\ c # NoCC /\ life[c] = "closed"
      /\ dead' = dead \ {c} /\ joining' = NoCC
      /\ UNCHANGED <<mu, seeds, monitored, pending, seeding, tickPC, condemned>>
  BY DEF DespawnReturn, rfssVars
<1>2. c \in Decoders /\ c \in dead /\ tickPC \in {"reap", "teardown"}
  BY <1>1 DEF IInv, TypeOK, JoinInv
<1>3. /\ \A n \in Decoders \ {c} : life'[n] = life[n]
      /\ tickPC = "reap" => life'[c] = "off"
      /\ tickPC = "teardown" => life'[c] = "closed"
  BY <1>1, <1>2 DEF DespawnReturn, Forget
<1>4. /\ \A s \in Sites : monitored[s] # NoEntry => MonCC(s) \in Decoders
      /\ \A s \in Sites : pending[s] # NoEntry => PendCC(s) \in Decoders
      /\ \A i \in DOMAIN seeds : SeedCC(i) \in Decoders \cup {NoCC}
      /\ seeding \in Decoders \cup {NoCC} /\ dead \subseteq Decoders /\ condemned \subseteq Sites
  BY HandleTypes DEF IInv, TypeOK
<1>5. /\ \A s \in Sites : MonCC(s)' = MonCC(s) /\ PendCC(s)' = PendCC(s)
      /\ \A i \in DOMAIN seeds : SeedCC(i)' = SeedCC(i)
  BY <1>1 DEF MonCC, PendCC, SeedCC
<1>6. LockInv' /\ CapInv'
  BY <1>1 DEF IInv, LockInv, CapInv, MonitoredSites, PendingSites
<1>7. SeedInv'
  BY <1>1, <1>2, <1>3, <1>4, <1>5 DEF IInv, SeedInv, DeadInv
<1>8. PendInv'
  BY <1>1, <1>2, <1>3, <1>4, <1>5 DEF IInv, PendInv
<1>9. MonInv'
  BY <1>1, <1>2, <1>3, <1>4, <1>5 DEF IInv, MonInv
<1>10. DeadInv'
  BY <1>1, <1>2, <1>3, <1>4, <1>5 DEF IInv, DeadInv
<1>11. CondemnedInv'
  BY <1>1, <1>2, <1>3, <1>4, <1>5 DEF IInv, CondemnedInv
<1>12. JoinInv'
  BY <1>1, <1>2, <1>3, <1>4, <1>5 DEF IInv, JoinInv, DeadInv
<1> QED
  BY <1>6, <1>7, <1>8, <1>9, <1>10, <1>11, <1>12 DEF IInv

\* Moves of the ticker that touch no list and no entry.
LEMMA TickerMoves ==
  ASSUME IInv, TickFire \/ Cancel \/ ReapDone \/ CollectUnlock \/ TeardownDone, TypeOK'
  PROVE  IInv'
<1>1. UNCHANGED <<seeds, monitored, pending, seeding, dead, condemned, joining, life>>
  BY DEF TickFire, Cancel, ReapDone, CollectUnlock, TeardownDone, rfssVars, ccVars
<1>2. LockInv'
  BY DEF IInv, LockInv, TickFire, Cancel, ReapDone, CollectUnlock, TeardownDone, rfssVars
<1>3. SeedInv' /\ PendInv' /\ MonInv'
  BY <1>1 DEF IInv, SeedInv, PendInv, MonInv, SeedCC, PendCC, MonCC
<1>4. DeadInv'
  BY <1>1 DEF IInv, DeadInv, SeedCC, MonCC, TickFire, Cancel, ReapDone, CollectUnlock, TeardownDone
<1>5. CondemnedInv'
  BY <1>1 DEF IInv, CondemnedInv, MonCC, TickFire, Cancel, ReapDone, CollectUnlock, TeardownDone
<1>6. JoinInv'
  BY <1>1 DEF IInv, JoinInv, MonCC, TickFire, Cancel, ReapDone, CollectUnlock, TeardownDone
<1>7. CapInv'
  BY <1>1 DEF IInv, CapInv, MonitoredSites, PendingSites
<1> QED
  BY <1>2, <1>3, <1>4, <1>5, <1>6, <1>7 DEF IInv

\* The listed entries are flagged and their decoders, all up, listed with them.
LEMMA CollectDeadStep ==
  ASSUME IInv, CollectDead, TypeOK'
  PROVE  IInv'
<1>1. /\ tickPC = "collect" /\ tickPC' = "collectUnlock" /\ mu' = "ticker"
      /\ condemned' = {s \in Sites : Listed(s)}
      /\ UNCHANGED <<seeds, pending, seeding, joining, life>>
  BY DEF CollectDead, ccVars
<1>2. dead = {} /\ condemned = {} /\ joining = NoCC
  BY <1>1 DEF IInv, DeadInv, CondemnedInv, JoinInv
<1>3. /\ \A s \in Sites : monitored[s] # NoEntry => MonCC(s) \in Decoders
      /\ \A s \in Sites : pending[s] # NoEntry => PendCC(s) \in Decoders
      /\ \A i \in DOMAIN seeds : SeedCC(i) \in Decoders \cup {NoCC}
      /\ seeding \in Decoders \cup {NoCC}
  BY HandleTypes DEF IInv, TypeOK
<1>4. \A s \in Sites : Listed(s) =>
         monitored[s] # NoEntry /\ monitored'[s] # NoEntry /\ monitored'[s].despawn
         /\ MonCC(s)' = MonCC(s)
  <2> SUFFICES ASSUME NEW s \in Sites, Listed(s)
               PROVE  monitored[s] # NoEntry /\ monitored'[s] # NoEntry
                      /\ monitored'[s].despawn /\ MonCC(s)' = MonCC(s)
    OBVIOUS
  <2>1. monitored[s] \in MonitoredSite /\ monitored[s] # NoEntry
    BY DEF IInv, TypeOK, Listed
  <2>2. monitored'[s] = [monitored[s] EXCEPT !.despawn = TRUE]
    BY DEF CollectDead
  <2>3. /\ monitored'[s] \in MonitoredSite /\ monitored'[s].despawn
        /\ monitored'[s].cc = monitored[s].cc
    BY <2>1, <2>2 DEF MonitoredSite
  <2>4. monitored'[s] # NoEntry
    BY <2>3, NoEntryOK
  <2> QED
    BY <2>1, <2>3, <2>4 DEF MonCC
<1>5. \A s \in Sites : ~Listed(s) => monitored'[s] = monitored[s] /\ MonCC(s)' = MonCC(s)
  BY DEF CollectDead, MonCC
<1>6. /\ \A s \in Sites : MonCC(s)' = MonCC(s)
      /\ \A s \in Sites : monitored'[s] = NoEntry <=> monitored[s] = NoEntry
  BY <1>4, <1>5
<1>7. dead' = {MonCC(s) : s \in condemned'}
  BY DEF CollectDead, MonCC
<1>8. /\ \A i \in DOMAIN seeds : SeedCC(i)' = SeedCC(i)
      /\ \A s \in Sites : PendCC(s)' = PendCC(s)
  BY <1>1 DEF SeedCC, PendCC
<1>9. LockInv' /\ SeedInv'
  BY <1>1, <1>8 DEF IInv, LockInv, SeedInv
<1>10. PendInv'
  BY <1>1, <1>4, <1>6, <1>7, <1>8 DEF IInv, PendInv
<1>11. MonInv'
  BY <1>1, <1>2, <1>4, <1>6, <1>7, <1>8 DEF IInv, MonInv
<1>12. DeadInv'
  BY <1>1, <1>2, <1>4, <1>6, <1>7, <1>8 DEF IInv, DeadInv, MonInv
<1>13. CondemnedInv'
  BY <1>1, <1>4, <1>6, <1>7 DEF CondemnedInv
<1>14. JoinInv'
  BY <1>1, <1>2, ParamsOK DEF IInv, JoinInv
<1>15. MonitoredSites' = MonitoredSites /\ PendingSites' = PendingSites
  BY <1>1, <1>6 DEF MonitoredSites, PendingSites
<1>16. CapInv'
  BY <1>15 DEF IInv, CapInv
<1> QED
  BY <1>9, <1>10, <1>11, <1>12, <1>13, <1>14, <1>16 DEF IInv

\* With the entries torn down go the closed decoders, and no others.
LEMMA RemoveDeadStep ==
  ASSUME IInv, RemoveDead, TypeOK'
  PROVE  IInv'
<1>1. /\ tickPC = "remove" /\ tickPC' = "wait" /\ mu = "free"
      /\ condemned' = {}
      /\ UNCHANGED <<mu, seeds, pending, seeding, dead, joining>>
  BY DEF RemoveDead
<1>2. dead = {} /\ joining = NoCC
  BY <1>1 DEF IInv, DeadInv, JoinInv
<1>3. /\ \A s \in Sites : monitored[s] # NoEntry => MonCC(s) \in Decoders
      /\ \A s \in Sites : pending[s] # NoEntry => PendCC(s) \in Decoders
      /\ \A i \in DOMAIN seeds : SeedCC(i) \in Decoders \cup {NoCC}
      /\ seeding \in Decoders \cup {NoCC}
  BY HandleTypes DEF IInv, TypeOK
<1>4. /\ \A s \in condemned : s \in Sites => monitored'[s] = NoEntry
      /\ \A s \in Sites \ condemned : monitored'[s] = monitored[s] /\ MonCC(s)' = MonCC(s)
  BY DEF RemoveDead, Deleted, MonCC
<1>5. \A c \in Decoders : life'[c] = IF life[c] = "closed" THEN "off" ELSE life[c]
  BY DEF RemoveDead, Forget
<1>6. /\ \A i \in DOMAIN seeds : SeedCC(i)' = SeedCC(i)
      /\ \A s \in Sites : PendCC(s)' = PendCC(s)
  BY <1>1 DEF SeedCC, PendCC
<1>7. LockInv' /\ SeedInv'
  BY <1>1, <1>3, <1>5, <1>6 DEF IInv, LockInv, SeedInv
<1>8. PendInv'
  BY <1>1, <1>3, <1>4, <1>5, <1>6 DEF IInv, PendInv
<1>9. MonInv'
  BY <1>1, <1>2, <1>3, <1>4, <1>5, <1>6 DEF IInv, MonInv
<1>10. DeadInv'
  BY <1>1, <1>2 DEF DeadInv
<1>11. CondemnedInv'
  BY <1>1 DEF CondemnedInv
<1>12. JoinInv'
  BY <1>1, <1>2, <1>5, ParamsOK DEF IInv, JoinInv, TypeOK
<1>13. CapInv'
  <2>1. (MonitoredSites \cup PendingSites)' \subseteq MonitoredSites \cup PendingSites
    BY <1>1, <1>4 DEF MonitoredSites, PendingSites
  <2>2. MonitoredSites \cup PendingSites \in SUBSET Sites
    BY DEF MonitoredSites, PendingSites
  <2>3. Cardinality((MonitoredSites \cup PendingSites)') <= Cardinality(MonitoredSites \cup PendingSites)
    BY <2>1, <2>2, SubMono
  <2>4. (MonitoredSites \cup PendingSites)' \in SUBSET Sites
    BY <2>1, <2>2
  <2> QED
    BY <2>2, <2>3, <2>4, SubFinite, ParamsOK DEF IInv, CapInv
<1> QED
  BY <1>7, <1>8, <1>9, <1>10, <1>11, <1>12, <1>13 DEF IInv

\* The invariant is inductive: one lemma for each action.
LEMMA IInvStep == IInv /\ [Next]_vars => IInv'
<1> SUFFICES ASSUME IInv, [Next]_vars PROVE IInv'
  OBVIOUS
<1>1. TypeOK'
  BY TypeStep DEF IInv
<1>2. CASE Main
  BY <1>1, <1>2, SeedStartStep, SeedAppendStep DEF Main
<1>3. ASSUME NEW c \in Decoders, Pump(c) PROVE IInv'
  <2>1. CASE DecodeNID(c) \/ DecodeTSBK(c)
    BY <1>1, <2>1, HoldersSame DEF DecodeNID, DecodeTSBK, rfssVars, tickVars, holderVars
  <2> QED
    BY <1>1, <1>3, <2>1, OnSiteDiscoverStep, PumpExitStep DEF Pump
<1>4. CASE Ticker
  BY <1>1, <1>4, TickerMoves, BindPendingStep, BindUnlockStep, DespawnCallStep,
     DespawnReturnStep, CollectDeadStep, RemoveDeadStep DEF Ticker
<1>5. CASE TimePasses
  BY <1>1, <1>5, HoldersSame DEF TimePasses, holderVars
<1>6. CASE UNCHANGED vars
  BY <1>1, <1>6, HoldersSame DEF vars, rfssVars, tickVars, ccVars, holderVars
<1> QED
  BY <1>2, <1>3, <1>4, <1>5, <1>6 DEF Next

\* Who may hold which decoder while the ticker is where, what its lists promise,
\* and the cap: the inductive invariant (rfss.go:20-59, 84-156, 158-295).
THEOREM HolderInv == Spec => []IInv
BY IInvInit, IInvStep, PTL DEF Spec

-----------------------------------------------------------------------------
(* What it implies.                                                        *)

\* No decoder answers to two sites, to a site and a seed, or to a site and the
\* ticker's list of hopeless ones (RFSS.OneHolder; rfss.go:99-195).
THEOREM OneHolderInv == Spec => []OneHolder
<1>1. IInv => OneHolder
  <2> SUFFICES ASSUME IInv PROVE OneHolder
    OBVIOUS
  <2>1. \A s, t \in Sites :
         /\ pending[s] # NoEntry /\ monitored[t] # NoEntry
                => s # t /\ pending[s].cc # monitored[t].cc
         /\ s # t /\ pending[s] # NoEntry /\ pending[t] # NoEntry
                => pending[s].cc # pending[t].cc
         /\ s # t /\ monitored[s] # NoEntry /\ monitored[t] # NoEntry
                => monitored[s].cc # monitored[t].cc
    BY DEF IInv, PendInv, MonInv, PendCC, MonCC
  <2>2. \A s \in MonitoredSites \cup PendingSites, i \in DOMAIN seeds :
         seeds[i].cc \notin ({monitored[s].cc : t \in MonitoredSites \cap {s}}
                             \cup {pending[s].cc : t \in PendingSites \cap {s}})
    BY DEF IInv, PendInv, MonInv, PendCC, MonCC, SeedCC, MonitoredSites, PendingSites
  <2>3. \A s \in Sites : pending[s] # NoEntry => pending[s].cc \notin dead \cup {joining}
    BY HandleTypes, ParamsOK DEF IInv, PendInv, JoinInv, PendCC
  <2>4. \A s \in Sites : monitored[s] # NoEntry => monitored[s].cc \notin Reaping
    <3> SUFFICES ASSUME NEW s \in Sites, monitored[s] # NoEntry,
                        tickPC \in {"bindUnlock", "reap"}
                 PROVE  MonCC(s) \notin dead \cup {joining}
      BY DEF Reaping, MonCC
    <3>1. condemned = {} /\ MonCC(s) \in Decoders
      BY HandleTypes DEF IInv, CondemnedInv
    <3> QED
      BY <3>1, ParamsOK DEF IInv, MonInv, JoinInv
  <2> QED
    BY <2>1, <2>2, <2>3, <2>4 DEF OneHolder
<1> QED
  BY <1>1, HolderInv, PTL

\* DespawnCC is asked once, for decoders that run, and never for a seed's
\* (RFSS.TeardownOnce; rfss.go:26, 193-195, 269-271).
THEOREM TeardownOnceInv == Spec => []TeardownOnce
<1>1. IInv => TeardownOnce
  BY DEF IInv, DeadInv, SeedInv, SeedCC, TeardownOnce
<1> QED
  BY <1>1, HolderInv, PTL

\* A site being torn down keeps its flagged entry until its decoder is closed
\* (RFSS.DrainingKept; rfss.go:27-32, 247-248).
THEOREM DrainingKeptInv == Spec => []DrainingKept
<1>1. IInv => DrainingKept
  BY DEF IInv, DeadInv, CondemnedInv, MonCC, DrainingKept
<1> QED
  BY <1>1, HolderInv, PTL

\* The discovered sites keep to the cap (RFSS.DiscoveredWithinCap; rfss.go:141).
THEOREM CapTheorem == Spec => []DiscoveredWithinCap
<1>1. IInv => DiscoveredWithinCap
  <2> SUFFICES ASSUME IInv PROVE DiscoveredWithinCap
    OBVIOUS
  <2> DEFINE M == MonitoredSites
             P == PendingSites
  <2>1. M \in SUBSET Sites /\ P \in SUBSET Sites /\ M \cap P = {}
    BY DEF MonitoredSites, PendingSites, IInv, PendInv
  <2>2. Cardinality(M \cup P) <= MaxSites
    BY DEF IInv, CapInv
  <2> HIDE DEF M, P
  <2>3. /\ IsFiniteSet(M) /\ IsFiniteSet(P)
        /\ Cardinality(M) \in Nat /\ Cardinality(P) \in Nat
    BY <2>1, SubFinite
  <2>4. Cardinality(M \cup P) = Cardinality(M) + Cardinality(P)
    <3>1. Cardinality(M \cap P) = 0
      BY <2>1, FS_EmptySet
    <3>2. Cardinality(M \cup P) = Cardinality(M) + Cardinality(P) - Cardinality(M \cap P)
      BY <2>3, FS_Union
    <3> QED
      BY <2>3, <3>1, <3>2
  <2>5. Cardinality(M) + Cardinality(P) <= MaxSites
    BY <2>2, <2>3, <2>4
  <2> QED
    BY <2>5 DEF DiscoveredWithinCap, M, P
<1> QED
  BY <1>1, HolderInv, PTL

-----------------------------------------------------------------------------
(* No decoder is lost.                                                     *)

HeldInv == /\ NoLostDecoder
           /\ mainPC = "start" => seeding = NoCC

\* No step drops a decoder that runs.
LEMMA HeldStep ==
  ASSUME IInv, HeldInv, [Next]_vars
  PROVE  HeldInv'
<1>1. TypeOK'
  BY TypeStep DEF IInv
<1>2. CASE UNCHANGED <<seeds, monitored, pending, seeding, mainPC, tickPC, dead, joining, life>>
  BY <1>2 DEF HeldInv, NoLostDecoder, Registered, Reaping, MonitoredSites, PendingSites
<1>3. CASE SeedStart
  <2>1. /\ UNCHANGED <<seeds, monitored, pending, tickPC, dead, joining>>
        /\ seeding = NoCC /\ mainPC' = "append"
    BY <1>3 DEF SeedStart, tickVars, HeldInv
  <2>2. \A c \in Decoders : life'[c] # "off" => life[c] # "off" \/ c = seeding'
    BY <1>3 DEF SeedStart, SpawnCC, NoSpawn, IInv, TypeOK
  <2>3. Registered \cap Decoders \subseteq Registered'
    BY <2>1, ParamsOK DEF Registered, MonitoredSites, PendingSites
  <2>4. seeding' \in Registered'
    BY DEF Registered
  <2> QED
    BY <2>1, <2>2, <2>3, <2>4 DEF HeldInv, NoLostDecoder, Reaping
<1>4. CASE SeedAppend
  <2>1. /\ UNCHANGED <<monitored, pending, tickPC, dead, joining, life>>
        /\ seeding' = NoCC /\ mainPC' = "start"
    BY <1>4 DEF SeedAppend, tickVars, ccVars
  <2>2. {seeds[i].cc : i \in DOMAIN seeds} \cup {seeding} \subseteq {seeds'[i].cc : i \in DOMAIN seeds'}
    <3> DEFINE n == Len(seeds) + 1
    <3>1. /\ DOMAIN seeds = 1..Len(seeds) /\ DOMAIN seeds' = 1..n /\ Len(seeds) \in Nat
          /\ \A i \in DOMAIN seeds : seeds'[i] = seeds[i]
          /\ seeds'[n] = [ccFreq |-> Trunks[n], cc |-> seeding]
      BY <1>4, ParamsOK DEF SeedAppend, IInv, TypeOK, SeedSite
    <3>2. seeds'[n].cc = seeding /\ n \in DOMAIN seeds'
      BY <3>1
    <3>3. \A i \in DOMAIN seeds : i \in DOMAIN seeds' /\ seeds'[i].cc = seeds[i].cc
      BY <3>1
    <3> QED
      BY <3>2, <3>3
  <2>3. Registered \subseteq Registered'
    BY <2>1, <2>2 DEF Registered, MonitoredSites, PendingSites
  <2> QED
    BY <2>1, <2>3 DEF HeldInv, NoLostDecoder, Reaping
<1>5. ASSUME NEW c \in Decoders, OnSiteDiscover(c) PROVE HeldInv'
  <2> DEFINE d == handling[c]
  <2>1. /\ UNCHANGED <<seeds, seeding, mainPC, tickPC, dead, joining>>
        /\ d \in SiteDiscovery /\ d.Site \in Sites
    BY <1>5, ParamsOK DEF OnSiteDiscover, tickVars, IInv, TypeOK, SiteDiscovery
  <2>2. CASE UNCHANGED <<monitored, pending, life>>
    BY <2>1, <2>2, <1>2
  <2>3. CASE UpdateMonitored(d)
    <3>1. UNCHANGED <<pending, life>>
      BY <2>3 DEF UpdateMonitored, NoSpawn
    <3>2. \A s \in Sites : /\ monitored'[s] = NoEntry <=> monitored[s] = NoEntry
                           /\ monitored[s] # NoEntry => monitored'[s].cc = monitored[s].cc
      <4> SUFFICES ASSUME NEW s \in Sites
                   PROVE  /\ monitored'[s] = NoEntry <=> monitored[s] = NoEntry
                          /\ monitored[s] # NoEntry => monitored'[s].cc = monitored[s].cc
        OBVIOUS
      <4>1. CASE monitored'[s] = monitored[s]
        BY <4>1
      <4>2. CASE monitored'[s] # monitored[s]
        <5>1. s = d.Site /\ monitored'[s] = Refresh(monitored[s], d)
          BY <2>1, <2>3, <4>2 DEF UpdateMonitored, IInv, TypeOK
        <5>2. monitored[s] # NoEntry /\ monitored[s] \in MonitoredSite
          BY <2>3, <5>1 DEF UpdateMonitored, IInv, TypeOK
        <5>3. monitored'[s] \in MonitoredSite
          BY <2>1, <5>1, <5>2, RefreshType
        <5>4. Refresh(monitored[s], d).cc = monitored[s].cc
          BY <5>2 DEF Refresh, MonitoredSite
        <5> QED
          BY <5>1, <5>2, <5>3, <5>4, NoEntryOK
      <4> QED
        BY <4>1, <4>2
    <3>3. Registered' = Registered
      BY <2>1, <3>1, <3>2 DEF Registered, MonitoredSites, PendingSites
    <3> QED
      BY <2>1, <3>1, <3>3 DEF HeldInv, NoLostDecoder, Reaping
  <2>4. ASSUME NEW n \in Decoders, SpawnPending(d, n) PROVE HeldInv'
    <3>1. /\ UNCHANGED monitored
          /\ \A m \in Decoders \ {n} : life'[m] = life[m]
          /\ pending[d.Site] = NoEntry
      BY <2>4 DEF SpawnPending, SpawnCC, Absent, IInv, TypeOK
    <3>2. /\ \A s \in Sites \ {d.Site} : pending'[s] = pending[s]
          /\ pending'[d.Site] = [ccFreq |-> d.CCFreq, cc |-> n]
      BY <2>1, <2>4 DEF SpawnPending, IInv, TypeOK
    <3>3. pending'[d.Site] # NoEntry /\ pending'[d.Site].cc = n
      BY <2>1, <2>4, <3>2, NoEntryOK DEF PendingSite, SpawnPending, Eligible, SiteDiscovery
    <3>4. Registered' = Registered \cup {n}
      BY <2>1, <3>1, <3>2, <3>3 DEF Registered, MonitoredSites, PendingSites
    <3> QED
      BY <2>1, <3>1, <3>4 DEF HeldInv, NoLostDecoder, Reaping
  <2> QED
    BY <1>5, <2>2, <2>3, <2>4 DEF OnSiteDiscover, LeaveUnspawned, NoSpawn
<1>6. ASSUME NEW c \in Decoders, PumpExit(c) PROVE HeldInv'
  <2>1. /\ UNCHANGED <<seeds, monitored, pending, seeding, mainPC, tickPC, dead, joining>>
        /\ life[c] # "off" /\ \A n \in Decoders \ {c} : life'[n] = life[n]
    BY <1>6 DEF PumpExit, rfssVars, tickVars, IInv, TypeOK
  <2> QED
    BY <2>1 DEF HeldInv, NoLostDecoder, Registered, Reaping, MonitoredSites, PendingSites
<1>7. CASE BindPending
  <2>1. /\ UNCHANGED <<seeds, seeding, mainPC, life, joining>>
        /\ tickPC = "bind" /\ tickPC' = "bindUnlock"
    BY <1>7 DEF BindPending
  <2>2. \A s \in Sites : pending[s] # NoEntry =>
           \/ pending'[s] = pending[s]
           \/ monitored'[s] # NoEntry /\ monitored'[s].cc = pending[s].cc
           \/ pending[s].cc \in dead'
    <3> SUFFICES ASSUME NEW s \in Sites, pending[s] # NoEntry
                 PROVE  \/ pending'[s] = pending[s]
                        \/ monitored'[s] # NoEntry /\ monitored'[s].cc = pending[s].cc
                        \/ pending[s].cc \in dead'
      OBVIOUS
    <3>1. CASE Bindable(s)
      <4>1. pending[s] \in PendingSite
        BY DEF IInv, TypeOK
      <4>2. monitored'[s] = [ccFreq |-> pending[s].ccFreq, cc |-> pending[s].cc, despawn |-> FALSE]
        BY <1>7, <3>1 DEF BindPending
      <4>3. monitored'[s] \in MonitoredSite
        BY <4>1, <4>2 DEF PendingSite, MonitoredSite
      <4>4. monitored'[s] # NoEntry
        BY <4>3, NoEntryOK
      <4> QED
        BY <4>2, <4>4
    <3>2. CASE Hopeless(s)
      BY <1>7, <3>2 DEF BindPending, HopelessCCs
    <3>3. CASE ~Resolved(s)
      BY <1>7, <3>3 DEF BindPending
    <3> QED
      BY <3>1, <3>2, <3>3 DEF Resolved
  <2>3. \A s \in Sites : monitored[s] # NoEntry => monitored'[s] = monitored[s]
    BY <1>7 DEF BindPending, Bindable, IInv, PendInv
  <2>4. Registered \subseteq Registered' \cup dead'
    BY <2>1, <2>2, <2>3 DEF Registered, MonitoredSites, PendingSites
  <2> QED
    BY <2>1, <2>4 DEF HeldInv, NoLostDecoder, Reaping
<1>8. CASE BindUnlock
  BY <1>8 DEF BindUnlock, ccVars, HeldInv, NoLostDecoder, Registered, Reaping,
     MonitoredSites, PendingSites
<1>9. ASSUME NEW c \in Decoders, DespawnCall(c) PROVE HeldInv'
  <2>1. /\ UNCHANGED <<seeds, monitored, pending, seeding, mainPC, tickPC, dead>>
        /\ joining = NoCC /\ joining' = c /\ c \in dead
        /\ \A n \in Decoders \ {c} : life'[n] = life[n]
        /\ life[c] # "off"
    BY <1>9, ParamsOK DEF DespawnCall, rfssVars, IInv, TypeOK, DeadInv
  <2> QED
    BY <2>1, ParamsOK DEF HeldInv, NoLostDecoder, Registered, Reaping, MonitoredSites, PendingSites
<1>10. CASE DespawnReturn
  <2>1. /\ UNCHANGED <<seeds, monitored, pending, seeding, mainPC, tickPC>>
        /\ dead' = dead \ {joining} /\ joining' = NoCC
        /\ joining \in Decoders /\ tickPC \in {"reap", "teardown"}
        /\ \A n \in Decoders \ {joining} : life'[n] = life[n]
        /\ tickPC = "reap" => life'[joining] = "off"
        /\ tickPC = "teardown" => life'[joining] = life[joining]
    BY <1>10 DEF DespawnReturn, Forget, rfssVars, IInv, TypeOK, JoinInv
  <2>2. Registered' = Registered
    BY <2>1 DEF Registered, MonitoredSites, PendingSites
  <2> QED
    BY <2>1, <2>2 DEF HeldInv, NoLostDecoder, Reaping
<1>11. CASE TickFire \/ Cancel \/ ReapDone \/ CollectUnlock \/ TeardownDone
  <2>1. UNCHANGED <<seeds, monitored, pending, seeding, mainPC, dead, joining, life>>
    BY <1>11 DEF TickFire, Cancel, ReapDone, CollectUnlock, TeardownDone, rfssVars, ccVars
  <2>2. Registered' = Registered
    BY <2>1 DEF Registered, MonitoredSites, PendingSites
  <2>3. Reaping \cap Decoders \subseteq Reaping'
    BY <1>11, <2>1, ParamsOK DEF TickFire, Cancel, ReapDone, CollectUnlock, TeardownDone,
       Reaping, IInv, JoinInv
  <2> QED
    BY <2>1, <2>2, <2>3 DEF HeldInv, NoLostDecoder
<1>12. CASE CollectDead
  <2>1. /\ UNCHANGED <<seeds, pending, seeding, mainPC, joining, life>>
        /\ tickPC = "collect" /\ tickPC' = "collectUnlock"
    BY <1>12 DEF CollectDead, ccVars
  <2>2. \A s \in Sites : /\ monitored'[s] = NoEntry <=> monitored[s] = NoEntry
                         /\ monitored[s] # NoEntry => monitored'[s].cc = monitored[s].cc
    <3> SUFFICES ASSUME NEW s \in Sites
                 PROVE  /\ monitored'[s] = NoEntry <=> monitored[s] = NoEntry
                        /\ monitored[s] # NoEntry => monitored'[s].cc = monitored[s].cc
      OBVIOUS
    <3>1. CASE ~Listed(s)
      BY <1>12, <3>1 DEF CollectDead
    <3>2. CASE Listed(s)
      <4>1. monitored[s] # NoEntry /\ monitored[s] \in MonitoredSite
        BY <3>2 DEF Listed, IInv, TypeOK
      <4>2. monitored'[s] = [monitored[s] EXCEPT !.despawn = TRUE]
        BY <1>12, <3>2 DEF CollectDead
      <4>3. monitored'[s] \in MonitoredSite /\ monitored'[s].cc = monitored[s].cc
        BY <4>1, <4>2 DEF MonitoredSite
      <4> QED
        BY <4>1, <4>3, NoEntryOK
    <3> QED
      BY <3>1, <3>2
  <2>3. Registered' = Registered
    BY <2>1, <2>2 DEF Registered, MonitoredSites, PendingSites
  <2> QED
    BY <2>1, <2>3 DEF HeldInv, NoLostDecoder, Reaping
<1>13. CASE RemoveDead
  <2>1. /\ UNCHANGED <<seeds, pending, seeding, mainPC, joining, dead>>
        /\ tickPC = "remove" /\ tickPC' = "wait"
        /\ \A s \in Sites \ condemned : monitored'[s] = monitored[s]
        /\ \A c \in Decoders : life'[c] = IF life[c] = "closed" THEN "off" ELSE life[c]
    BY <1>13 DEF RemoveDead, Deleted, Forget
  <2>2. \A s \in condemned : life[monitored[s].cc] = "closed"
    BY <2>1 DEF IInv, DeadInv, CondemnedInv, MonCC
  <2>3. \A c \in Registered : c \in Registered' \/ life[c] = "closed"
    BY <2>1, <2>2 DEF Registered, MonitoredSites, PendingSites
  <2> QED
    BY <2>1, <2>3 DEF HeldInv, NoLostDecoder, Reaping
<1>14. ASSUME NEW c \in Decoders, DecodeNID(c) \/ DecodeTSBK(c) PROVE HeldInv'
  BY <1>2, <1>14 DEF DecodeNID, DecodeTSBK, rfssVars, tickVars
<1>15. CASE TimePasses
  BY <1>2, <1>15 DEF TimePasses
<1>16. CASE UNCHANGED vars
  BY <1>2, <1>16 DEF vars, rfssVars, tickVars, ccVars
<1> QED
  BY <1>3, <1>4, <1>5, <1>6, <1>7, <1>8, <1>9, <1>10, <1>11, <1>12, <1>13, <1>14,
     <1>15, <1>16 DEF Next, Main, Pump, Ticker

\* Every decoder the supervisor started and has not shut down is held by an
\* entry, by Seed or by the ticker (RFSS.NoLostDecoder; rfss.go:153, 177-185, 276).
THEOREM NoLostDecoderInv == Spec => []NoLostDecoder
<1>1. Init => HeldInv
  BY DEF Init, HeldInv, NoLostDecoder
<1>2. HeldInv => NoLostDecoder
  BY DEF HeldInv
<1> QED
  BY <1>1, <1>2, HeldStep, HolderInv, PTL DEF Spec

-----------------------------------------------------------------------------
(* The supervisor implements SiteLifecycle.                                *)

\* The abstract order of phases.
LEMMA AfterFacts ==
  /\ Lifecycle!After("absent") = {"absent"}
  /\ Lifecycle!After("awaiting") = {"awaiting", "followed", "absent"}
  /\ Lifecycle!After("followed") = {"followed", "draining"}
  /\ Lifecycle!After("draining") = {"draining", "absent"}
BY DEF Lifecycle!After

\* A site's phase and decoder, read off its entries.
LEMMA PhaseFacts ==
  ASSUME NEW s \in Sites
  PROVE  /\ Phase(s) \in Lifecycle!Phases
         /\ Phase(s) = "absent" <=> pending[s] = NoEntry /\ monitored[s] = NoEntry
         /\ pending[s] # NoEntry => Phase(s) = "awaiting" /\ DecoderOf(s) = PendCC(s)
         /\ pending[s] = NoEntry /\ monitored[s] # NoEntry =>
              /\ Phase(s) = IF monitored[s].despawn THEN "draining" ELSE "followed"
              /\ DecoderOf(s) = MonCC(s)
         /\ Phase(s) = "absent" => DecoderOf(s) = NoCC
<1>1. CASE pending[s] # NoEntry
  BY <1>1 DEF Phase, DecoderOf, PendCC, Lifecycle!Phases
<1>2. CASE pending[s] = NoEntry /\ monitored[s] # NoEntry
  BY <1>2 DEF Phase, DecoderOf, MonCC, Lifecycle!Phases
<1>3. CASE pending[s] = NoEntry /\ monitored[s] = NoEntry
  BY <1>3 DEF Phase, DecoderOf, Lifecycle!Phases
<1> QED
  BY <1>1, <1>2, <1>3

\* What a site may do in a step that discovers nothing.
Moves(s) == /\ Phase(s)' \in Lifecycle!After(Phase(s))
            /\ DecoderOf(s)' = IF Phase(s)' = "absent" THEN NoCC ELSE DecoderOf(s)

\* A site that moves along the order makes an abstract step, or stutters.
LEMMA MovesAdvance ==
  ASSUME \A s \in Sites : Moves(s)
  PROVE  Lifecycle!Advance
<1>1. \A s \in Sites : Phase(s)' \in Lifecycle!Phases
  <2> SUFFICES ASSUME NEW s \in Sites PROVE Phase(s)' \in Lifecycle!Phases
    OBVIOUS
  <2>1. Phase(s) \in {"absent", "awaiting", "followed", "draining"}
    BY PhaseFacts DEF Lifecycle!Phases
  <2> QED
    BY <2>1, AfterFacts DEF Moves, Lifecycle!Phases
<1> QED
  BY <1>1 DEF Moves, Lifecycle!Advance

\* An entry that is kept stays in its phase or is flagged.
LEMMA StayMoves ==
  ASSUME NEW s \in Sites, UNCHANGED <<monitored[s], pending[s]>>
  PROVE  Moves(s)
<1>1. Phase(s)' = Phase(s) /\ DecoderOf(s)' = DecoderOf(s)
  BY DEF Phase, DecoderOf
<1>2. Phase(s) \in {"absent", "awaiting", "followed", "draining"}
  BY PhaseFacts DEF Lifecycle!Phases
<1>3. Phase(s) = "absent" => DecoderOf(s) = NoCC
  BY PhaseFacts
<1> QED
  BY <1>1, <1>2, <1>3, AfterFacts DEF Moves

\* An entry that is flagged goes from monitored to draining.
LEMMA FlagMoves ==
  ASSUME NEW s \in Sites, UNCHANGED pending[s],
         pending[s] = NoEntry, monitored[s] # NoEntry, monitored'[s] # NoEntry,
         monitored'[s].cc = monitored[s].cc,
         monitored[s].despawn => monitored'[s].despawn
  PROVE  Moves(s)
<1>1. DecoderOf(s)' = DecoderOf(s) /\ Phase(s)' # "absent"
  BY DEF DecoderOf, Phase
<1>2. Phase(s)' \in Lifecycle!After(Phase(s))
  BY AfterFacts DEF Phase
<1> QED
  BY <1>1, <1>2 DEF Moves

\* A step that touches neither map.
LEMMA StutterStep ==
  ASSUME UNCHANGED <<monitored, pending>>
  PROVE  Lifecycle!Advance
BY StayMoves, MovesAdvance

LEMMA UpdateAdvance ==
  ASSUME IInv, NEW d \in SiteDiscovery, UpdateMonitored(d)
  PROVE  Lifecycle!Advance
<1>1. d.Site \in Sites /\ monitored[d.Site] # NoEntry /\ UNCHANGED pending
  BY DEF SiteDiscovery, UpdateMonitored
<1>2. CASE monitored[d.Site].despawn
  BY <1>1, <1>2, StutterStep DEF UpdateMonitored
<1>3. CASE ~monitored[d.Site].despawn
  <2>1. monitored[d.Site] \in MonitoredSite
    BY <1>1 DEF IInv, TypeOK
  <2>2. /\ Refresh(monitored[d.Site], d) \in MonitoredSite
        /\ Refresh(monitored[d.Site], d).cc = monitored[d.Site].cc
    BY <2>1, RefreshType DEF Refresh, MonitoredSite
  <2>3. monitored' = [monitored EXCEPT ![d.Site] = Refresh(@, d)]
    BY <1>3 DEF UpdateMonitored
  <2>4. /\ \A s \in Sites \ {d.Site} : monitored'[s] = monitored[s]
        /\ monitored'[d.Site] = Refresh(monitored[d.Site], d)
    BY <1>1, <2>3 DEF IInv, TypeOK
  <2>5. monitored'[d.Site] # NoEntry
    BY <2>2, <2>4, NoEntryOK
  <2>6. pending[d.Site] = NoEntry
    BY <1>1 DEF IInv, PendInv
  <2>7. Moves(d.Site)
    BY <1>1, <1>3, <2>2, <2>4, <2>5, <2>6, FlagMoves
  <2>8. \A s \in Sites \ {d.Site} : Moves(s)
    BY <1>1, <2>4, StayMoves
  <2> QED
    BY <2>7, <2>8, MovesAdvance
<1> QED
  BY <1>2, <1>3

\* Spawning a decoder is the abstract discovery: the site was absent, the decoder
\* free, and there was room.
LEMMA SpawnDiscovers ==
  ASSUME IInv, NEW d \in SiteDiscovery, NEW n \in Decoders, SpawnPending(d, n)
  PROVE  Lifecycle!Discover(d.Site, n)
<1>1. d.Site \in Sites /\ d.CCFreq \in Freqs
  BY DEF SiteDiscovery, SpawnPending, Eligible
<1>2. /\ UNCHANGED monitored /\ life[n] = "off" /\ Room
      /\ pending' = [pending EXCEPT ![d.Site] = [ccFreq |-> d.CCFreq, cc |-> n]]
      /\ monitored[d.Site] = NoEntry /\ pending[d.Site] = NoEntry
  BY DEF SpawnPending, SpawnCC, Absent, Eligible
<1>3. [ccFreq |-> d.CCFreq, cc |-> n] # NoEntry
  BY <1>1, NoEntryOK DEF PendingSite
<1>4. /\ \A s \in Sites \ {d.Site} : pending'[s] = pending[s]
      /\ pending'[d.Site] # NoEntry /\ pending'[d.Site].cc = n
  BY <1>1, <1>2, <1>3 DEF IInv, TypeOK
<1>5. Phase(d.Site) = "absent"
  BY <1>1, <1>2, PhaseFacts
<1>6. \A t \in Sites : DecoderOf(t) # n
  BY <1>2, OffIsFree, ParamsOK DEF DecoderOf, PendCC, MonCC
<1>7. Cardinality({s \in Sites : Phase(s) # "absent"}) < MaxSites
  <2> DEFINE M == MonitoredSites
             P == PendingSites
  <2>1. {s \in Sites : Phase(s) # "absent"} = M \cup P
    BY PhaseFacts DEF MonitoredSites, PendingSites
  <2>2. M \in SUBSET Sites /\ P \in SUBSET Sites
    BY DEF MonitoredSites, PendingSites
  <2>3. Len(seeds) + Cardinality(M) + Cardinality(P) < MaxSites
    BY <1>2 DEF Room, Count
  <2>4. Len(seeds) \in Nat /\ MaxSites \in Nat
    BY ParamsOK DEF IInv, TypeOK
  <2> HIDE DEF M, P
  <2>5. /\ IsFiniteSet(M) /\ IsFiniteSet(P)
        /\ Cardinality(M) \in Nat /\ Cardinality(P) \in Nat
        /\ Cardinality(M \cap P) \in Nat
    BY <2>2, SubFinite
  <2>6. Cardinality(M \cup P) = Cardinality(M) + Cardinality(P) - Cardinality(M \cap P)
    BY <2>5, FS_Union
  <2>7. Cardinality(M \cup P) < MaxSites
    BY <2>3, <2>4, <2>5, <2>6
  <2> QED
    BY <2>1, <2>7
<1>8. [s \in Sites |-> Phase(s)]' = [[s \in Sites |-> Phase(s)] EXCEPT ![d.Site] = "awaiting"]
  BY <1>1, <1>2, <1>4 DEF Phase
<1>9. [s \in Sites |-> DecoderOf(s)]' = [[s \in Sites |-> DecoderOf(s)] EXCEPT ![d.Site] = n]
  <2>1. \A s \in Sites \ {d.Site} : DecoderOf(s)' = DecoderOf(s)
    BY <1>2, <1>4 DEF DecoderOf
  <2>2. DecoderOf(d.Site)' = n
    BY <1>4 DEF DecoderOf
  <2>3. [s \in Sites |-> DecoderOf(s)]' = [s \in Sites |-> DecoderOf(s)']
    OBVIOUS
  <2> HIDE DEF DecoderOf
  <2> QED
    BY <1>1, <2>1, <2>2, <2>3
<1>10. [s \in Sites |-> Phase(s)][d.Site] = "absent"
  BY <1>1, <1>5
<1>11. \A t \in Sites : [s \in Sites |-> DecoderOf(s)][t] # n
  BY <1>6
<1>12. {s \in Sites : [t \in Sites |-> Phase(t)][s] # "absent"} = {s \in Sites : Phase(s) # "absent"}
  OBVIOUS
<1>13. Lifecycle!Cardinality(Lifecycle!Occupied) < MaxSites
  BY <1>7, <1>12 DEF Lifecycle!Occupied, Lifecycle!Cardinality, Cardinality
<1> QED
  BY <1>8, <1>9, <1>10, <1>11, <1>13 DEF Lifecycle!Discover

LEMMA BindAdvance ==
  ASSUME IInv, BindPending
  PROVE  Lifecycle!Advance
<1> SUFFICES ASSUME NEW s \in Sites PROVE Moves(s)
  BY MovesAdvance
<1>1. CASE ~Resolved(s)
  BY <1>1, StayMoves DEF BindPending, Resolved
<1>2. CASE Bindable(s)
  <2>1. pending[s] \in PendingSite /\ pending[s] # NoEntry
    BY <1>2 DEF Bindable, IInv, TypeOK
  <2>2. /\ pending'[s] = NoEntry
        /\ monitored'[s] = [ccFreq |-> pending[s].ccFreq, cc |-> pending[s].cc, despawn |-> FALSE]
    BY <1>2 DEF BindPending, Resolved
  <2>3. monitored'[s] \in MonitoredSite
    BY <2>1, <2>2 DEF PendingSite, MonitoredSite
  <2>4. monitored'[s] # NoEntry
    BY <2>3, NoEntryOK
  <2>5. Phase(s) = "awaiting" /\ DecoderOf(s) = pending[s].cc
    BY <2>1 DEF Phase, DecoderOf
  <2>6. Phase(s)' = "followed" /\ DecoderOf(s)' = pending[s].cc
    BY <2>2, <2>4 DEF Phase, DecoderOf
  <2> QED
    BY <2>5, <2>6, AfterFacts DEF Moves
<1>3. CASE Hopeless(s)
  <2>1. /\ pending[s] # NoEntry /\ monitored[s] = NoEntry /\ ~Bindable(s)
        /\ pending'[s] = NoEntry /\ monitored'[s] = NoEntry
    BY <1>3 DEF BindPending, Resolved, Hopeless, Bindable, IInv, PendInv
  <2>2. Phase(s) = "awaiting" /\ Phase(s)' = "absent" /\ DecoderOf(s)' = NoCC
    BY <2>1 DEF Phase, DecoderOf
  <2> QED
    BY <2>2, AfterFacts DEF Moves
<1> QED
  BY <1>1, <1>2, <1>3 DEF Resolved

LEMMA CollectAdvance ==
  ASSUME IInv, CollectDead
  PROVE  Lifecycle!Advance
<1> SUFFICES ASSUME NEW s \in Sites PROVE Moves(s)
  BY MovesAdvance
<1>1. CASE ~Listed(s)
  BY <1>1, StayMoves DEF CollectDead
<1>2. CASE Listed(s)
  <2>1. monitored[s] # NoEntry /\ monitored[s] \in MonitoredSite
    BY <1>2 DEF Listed, IInv, TypeOK
  <2>2. monitored'[s] = [monitored[s] EXCEPT !.despawn = TRUE] /\ UNCHANGED pending
    BY <1>2 DEF CollectDead
  <2>3. /\ monitored'[s] \in MonitoredSite /\ monitored'[s].despawn
        /\ monitored'[s].cc = monitored[s].cc
    BY <2>1, <2>2 DEF MonitoredSite
  <2>4. monitored'[s] # NoEntry
    BY <2>3, NoEntryOK
  <2>5. pending[s] = NoEntry
    BY <2>1 DEF IInv, PendInv
  <2> QED
    BY <2>1, <2>2, <2>3, <2>4, <2>5, FlagMoves
<1> QED
  BY <1>1, <1>2

LEMMA RemoveAdvance ==
  ASSUME IInv, RemoveDead
  PROVE  Lifecycle!Advance
<1> SUFFICES ASSUME NEW s \in Sites PROVE Moves(s)
  BY MovesAdvance
<1>1. CASE s \notin condemned
  BY <1>1, StayMoves DEF RemoveDead, Deleted
<1>2. CASE s \in condemned
  <2>1. /\ monitored[s] # NoEntry /\ monitored[s].despawn /\ pending[s] = NoEntry
        /\ monitored'[s] = NoEntry /\ pending'[s] = NoEntry
    BY <1>2 DEF RemoveDead, Deleted, IInv, CondemnedInv, PendInv
  <2>2. Phase(s) = "draining" /\ Phase(s)' = "absent" /\ DecoderOf(s)' = NoCC
    BY <2>1 DEF Phase, DecoderOf
  <2> QED
    BY <2>2, AfterFacts DEF Moves
<1> QED
  BY <1>1, <1>2

LEMMA LifecycleStep ==
  ASSUME IInv, [Next]_vars
  PROVE  Lifecycle!LCNext
<1>1. CASE UNCHANGED <<monitored, pending>>
  BY <1>1, StutterStep DEF Lifecycle!LCNext
<1>2. ASSUME NEW c \in Decoders, OnSiteDiscover(c) PROVE Lifecycle!LCNext
  <2> DEFINE d == handling[c]
  <2>1. d \in SiteDiscovery /\ d.Site \in Sites
    BY <1>2, ParamsOK DEF OnSiteDiscover, IInv, TypeOK, SiteDiscovery
  <2>2. CASE UpdateMonitored(d)
    BY <2>1, <2>2, UpdateAdvance DEF Lifecycle!LCNext
  <2>3. ASSUME NEW n \in Decoders, SpawnPending(d, n) PROVE Lifecycle!LCNext
    BY <2>1, <2>3, SpawnDiscovers DEF Lifecycle!LCNext
  <2> QED
    BY <1>1, <1>2, <2>2, <2>3 DEF OnSiteDiscover, LeaveUnspawned
<1>3. CASE BindPending
  BY <1>3, BindAdvance DEF Lifecycle!LCNext
<1>4. CASE CollectDead
  BY <1>4, CollectAdvance DEF Lifecycle!LCNext
<1>5. CASE RemoveDead
  BY <1>5, RemoveAdvance DEF Lifecycle!LCNext
<1>6. CASE \/ SeedStart \/ SeedAppend \/ TickFire \/ Cancel \/ BindUnlock \/ ReapDone
           \/ CollectUnlock \/ TeardownDone \/ DespawnReturn \/ TimePasses \/ UNCHANGED vars
  BY <1>1, <1>6 DEF SeedStart, SeedAppend, TickFire, Cancel, BindUnlock, ReapDone,
     CollectUnlock, TeardownDone, DespawnReturn, TimePasses, vars, rfssVars
<1>7. ASSUME NEW c \in Decoders, DecodeNID(c) \/ DecodeTSBK(c) \/ PumpExit(c) \/ DespawnCall(c)
      PROVE  Lifecycle!LCNext
  BY <1>1, <1>7 DEF DecodeNID, DecodeTSBK, PumpExit, DespawnCall, rfssVars
<1> QED
  BY <1>2, <1>3, <1>4, <1>5, <1>6, <1>7 DEF Next, Main, Pump, Ticker

\* Under every interleaving the supervisor does to a site only what its life cycle
\* allows (RFSS.ImplementsLifecycle; rfss.go:20-42, 99-281).
THEOREM LifecycleRefinement == Spec => ImplementsLifecycle
<1>1. Init => Lifecycle!LCInit
  BY DEF Init, Lifecycle!LCInit, Phase, DecoderOf
<1>2. IInv /\ [Next]_vars => [Lifecycle!LCNext]_(Lifecycle!lcVars)
  BY LifecycleStep
<1> QED
  BY <1>1, <1>2, HolderInv, PTL DEF Spec, ImplementsLifecycle, Lifecycle!LCSpec
=============================================================================
