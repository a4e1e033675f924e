--------------------------- MODULE SiteLifecycle ---------------------------
(***************************************************************************)
(* What the RFSS supervisor promises about one discovered site, stated     *)
(* without locks, goroutines or timers.  A site is absent; it is awaiting  *)
(* its NAC once a decoder is spawned for it; it is followed by that same   *)
(* decoder once the NAC is known; it is draining from the moment it is     *)
(* condemned until the decoder is gone; then it is absent again.           *)
(***************************************************************************)
EXTENDS Naturals, FiniteSets

CONSTANTS Sites,      \* discovered site numbers
          Decoders,   \* control-channel decoders
          NoDecoder,  \* "no decoder", outside Decoders
          Cap         \* how many sites may hold a decoder at once

VARIABLES phase, decoder
lcVars == <<phase, decoder>>

Phases == {"absent", "awaiting", "followed", "draining"}

Occupied == {s \in Sites : phase[s] # "absent"}

LCInit == /\ phase = [s \in Sites |-> "absent"]
          /\ decoder = [s \in Sites |-> NoDecoder]

\* A site gets a decoder that no other site holds, while there is room.
Discover(s, d) ==
    /\ phase[s] = "absent"
    /\ \A t \in Sites : decoder[t] # d
    /\ Cardinality(Occupied) < Cap
    /\ phase' = [phase EXCEPT ![s] = "awaiting"]
    /\ decoder' = [decoder EXCEPT ![s] = d]

\* Where a site may be after one maintenance step, given where it was.
After(ph) == CASE ph = "absent"   -> {"absent"}
               [] ph = "awaiting" -> {"awaiting", "followed", "absent"}
               [] ph = "followed" -> {"followed", "draining"}
               [] ph = "draining" -> {"draining", "absent"}

\* Any number of sites move along; a site keeps its decoder until it is absent.
Advance ==
    /\ phase' \in [Sites -> Phases]
    /\ \A s \in Sites : phase'[s] \in After(phase[s])
    /\ decoder' = [s \in Sites |-> IF phase'[s] = "absent" THEN NoDecoder
                                                            ELSE decoder[s]]

LCNext == \/ \E s \in Sites, d \in Decoders : Discover(s, d)
          \/ Advance

LCSpec == LCInit /\ [][LCNext]_lcVars
=============================================================================
