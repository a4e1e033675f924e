---------------------------- MODULE MCSuperframe ----------------------------
(* Small instances of Superframe for TLC.                                  *)
EXTENDS Superframe

\* WhichSlot and the S-ISCH positions, as they are.
Pattern == [p \in 0..11 |-> IF p \in {0, 2, 4, 6, 8, 11} THEN 0 ELSE 1]
Syncs   == {2, 3, 6, 7, 10, 11}

\* Every kind of burst; what cannot be read has lost its ISCH as well.
Heard == {[kind |-> "4V", isch |-> "clean"], [kind |-> "2V", isch |-> "clean"],
          [kind |-> "sealed", isch |-> "weak"], [kind |-> "open", isch |-> "weak"],
          [kind |-> "noise", isch |-> "lost"]}

\* Nothing but clean voice.
Voice == {[kind |-> "4V", isch |-> "clean"]}
=============================================================================
