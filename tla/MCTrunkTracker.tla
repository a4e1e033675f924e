--------------------------- MODULE MCTrunkTracker ---------------------------
(* Small instances of TrunkTracker for TLC.                                *)
EXTENDS TrunkTracker

Zero      == {0}
ZeroOne   == {0, 1}
ZeroTwo   == {0, 1, 2}
OneTwo    == {1, 2}
FourTGs   == {0, 1, 2, 3}

\* An FDMA band whose uplink wraps below zero, a TDMA band with two slots per
\* carrier that meets it at frequency 3, and an announcement with no base.
Bands == {[BaseHz |-> 2, StepHz |-> 1, TxOffsetHz |-> -3, TDMASlots |-> 0],
          [BaseHz |-> 3, StepHz |-> 1, TxOffsetHz |-> 0, TDMASlots |-> 2],
          [BaseHz |-> 0, StepHz |-> 1, TxOffsetHz |-> 0, TDMASlots |-> 0]}
None == {}

Healthy  == [Active |-> TRUE, Valid |-> TRUE, Failed |-> FALSE]
Broken   == [Active |-> FALSE, Valid |-> TRUE, Failed |-> TRUE]
BothWays == {Healthy, Broken}
=============================================================================
