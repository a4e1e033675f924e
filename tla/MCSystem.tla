------------------------------ MODULE MCSystem ------------------------------
(* Small instances of System for TLC.                                      *)
EXTENDS System

Zero     == {0}
ZeroOne  == {0, 1}
ZeroTwo  == {0, 1, 2}
Zero3    == 0..3
One      == {1}
None     == {}

\* Band 0: FDMA from 1, uplink 5 above, which wraps; band 1: TDMA from 3, two slots a carrier.
FDMA == [BaseHz |-> 1, StepHz |-> 1, TxOffsetHz |-> 5, TDMASlots |-> 0]
TDMA == [BaseHz |-> 3, StepHz |-> 1, TxOffsetHz |-> 0, TDMASlots |-> 2]
Bands == {FDMA, TDMA}
OnAir    == {TDMA}
OneBand  == [i \in {0} |-> FDMA]
TwoBands == [i \in {0, 1} |-> IF i = 0 THEN FDMA ELSE TDMA]
FdmaOnly == {OneBand}
Tables   == {TwoBands, [i \in {0, 1} |-> NoIden]}
BothOnly == {TwoBands}

\* The control channel is 1 or 4.
InWindow == {1, 2, 3}
Wide     == {1, 2, 3, 4, 6, 7}

Healthy   == [Active |-> TRUE, Valid |-> TRUE, Failed |-> FALSE]
OneStatus == {Healthy}

Cold     == <<>>
Warm     == <<2, 4, 2, 3>>
WarmUp   == <<3, 6, 5>>
NoDenied == {}
DenyThree == {3}
FourTGs  == 0..3
=============================================================================
